------------------------------- MODULE Server -------------------------------
(***************************************************************************)
(* The life of the backend's process: kratos.App.Run and Stop with the     *)
(* HTTP and the gRPC server of cmd/server/main.go, which sets no hooks, no *)
(* registrar and no stop timeout.                                          *)
(*                                                                         *)
(* Run opens the listeners, gives every server a goroutine that serves and *)
(* one that waits for the group's context and stops it, waits until the    *)
(* former have begun to run, which is before they serve, and only then     *)
(* asks for the signals.  A signal, or a server that fails, cancels the    *)
(* context.  Run returns when the goroutines have.  The requests of the    *)
(* HTTP server pass through the limiter of their path (server/server.go,   *)
(* module RateLimiter), those of the gRPC server do not.                   *)
(***************************************************************************)
EXTENDS RateLimiter

CONSTANTS
    Servers, Grpc   \* Grpc: those that serve gRPC

ASSUME ServerAssumption == Grpc \subseteq Servers /\ None \notin Servers

VARIABLES
    run,       \* the main goroutine, at last the fate of the process
    signal,    \* the signal: none, waiting in the channel, taken
    cancelled, \* the context of the errgroup is done
    start,     \* the goroutine that serves, by server
    stop,      \* the goroutine that stops, by server
    error,     \* the errgroup has heard of an error
    active     \* the server that has accepted a request's connection

app == <<run, signal, cancelled, start, stop, error, active>>
vars == <<limiter, app>>

TypeOK ==
    /\ LimiterTypeOK
    /\ run \in {"wait", "notified", "returned", "failed", "killed"}
    /\ signal \in {"none", "queued", "taken"}
    /\ cancelled \in BOOLEAN /\ error \in BOOLEAN
    /\ start \in [Servers -> {"new", "begun", "serving", "closed"}]
    /\ stop \in [Servers -> {"waits", "drains", "done"}]
    /\ active \in [Requests -> Servers \cup {None}]

\* The listeners are open and the goroutines exist.
Init ==
    /\ LimiterInit
    /\ run = "wait" /\ signal = "none"
    /\ cancelled = FALSE /\ error = FALSE
    /\ start = [s \in Servers |-> "new"]
    /\ stop = [s \in Servers |-> "waits"]
    /\ active = [r \in Requests |-> None]

Alive == run \in {"wait", "notified"}
Idle(s) == \A r \in Requests : active[r] # s

-----------------------------------------------------------------------------
(* The servers. *)

\* wg.Done().
Begin(s) ==
    /\ Alive /\ start[s] = "new"
    /\ start' = [start EXCEPT ![s] = "begun"]
    /\ UNCHANGED <<run, signal, cancelled, stop, error, active>>

\* Serve: of a server that has been stopped it returns at once, which gRPC
\* takes for an error and HTTP does not.
Serve(s) ==
    /\ Alive /\ start[s] = "begun"
    /\ IF stop[s] = "waits"
       THEN start' = [start EXCEPT ![s] = "serving"] /\ UNCHANGED <<cancelled, error>>
       ELSE /\ start' = [start EXCEPT ![s] = "closed"]
            /\ error' = (error \/ s \in Grpc)
            /\ cancelled' = (cancelled \/ s \in Grpc)
    /\ UNCHANGED <<run, signal, stop, active>>

\* The listener fails.
ServeFails(s) ==
    /\ Alive /\ start[s] = "serving" /\ stop[s] = "waits"
    /\ start' = [start EXCEPT ![s] = "closed"]
    /\ error' = TRUE /\ cancelled' = TRUE
    /\ UNCHANGED <<run, signal, stop, active>>

\* Mutant: the context is that of the application, and not of the errgroup.
HearsSignal == signal = "taken"

\* <-ctx.Done()
Hears == cancelled

\* Shutdown and GracefulStop: no connection is accepted from here on.
Stop(s) ==
    /\ Alive /\ Hears /\ stop[s] = "waits"
    /\ stop' = [stop EXCEPT ![s] = "drains"]
    /\ UNCHANGED <<run, signal, cancelled, start, error, active>>

ServeEnds(s) ==
    /\ Alive /\ start[s] = "serving" /\ stop[s] # "waits"
    /\ start' = [start EXCEPT ![s] = "closed"]
    /\ UNCHANGED <<run, signal, cancelled, stop, error, active>>

\* Mutant: the handlers are not waited for.
DrainsNothing(s) == TRUE

Drained(s) == Idle(s)

StopEnds(s) ==
    /\ Alive /\ stop[s] = "drains" /\ Drained(s)
    /\ stop' = [stop EXCEPT ![s] = "done"]
    /\ UNCHANGED <<run, signal, cancelled, start, error, active>>

\* A connection comes in; its handler is run, perhaps not before Stop ...
Accept(r, s) ==
    /\ Alive /\ start[s] = "serving" /\ stop[s] = "waits" /\ active[r] = None
    /\ active' = [active EXCEPT ![r] = s]
    /\ UNCHANGED <<run, signal, cancelled, start, stop, error>>

\* ... to its end.
Finish(r) ==
    /\ Alive /\ active[r] # None
    /\ active' = [active EXCEPT ![r] = None]
    /\ UNCHANGED <<run, signal, cancelled, start, stop, error>>

-----------------------------------------------------------------------------
(* Run, and the signals. *)

\* wg.Wait(), then signal.Notify.
Notify ==
    /\ run = "wait" /\ \A s \in Servers : start[s] # "new"
    /\ run' = "notified"
    /\ UNCHANGED <<signal, cancelled, start, stop, error, active>>

\* SIGTERM: it kills who has not asked for it.
Signal ==
    /\ Alive /\ signal = "none"
    /\ IF run = "wait" THEN run' = "killed" /\ UNCHANGED signal
                       ELSE signal' = "queued" /\ UNCHANGED run
    /\ UNCHANGED <<cancelled, start, stop, error, active>>

\* App.Stop, in the goroutine that waits for a signal or the context.
AppStop ==
    /\ Alive /\ signal = "queued" /\ ~cancelled
    /\ signal' = "taken"
    /\ cancelled' = TRUE
    /\ UNCHANGED <<run, start, stop, error, active>>

\* eg.Wait().
Awaited == cancelled /\ \A s \in Servers : start[s] = "closed" /\ stop[s] = "done"

Return ==
    /\ run = "notified" /\ Awaited
    /\ run' = IF error THEN "failed" ELSE "returned"
    /\ UNCHANGED <<signal, cancelled, start, stop, error, active>>

-----------------------------------------------------------------------------
Lifecycle(s) == Begin(s) \/ Serve(s) \/ Stop(s) \/ ServeEnds(s) \/ StopEnds(s)

AppSteps ==
    \/ \E s \in Servers : Lifecycle(s) \/ ServeFails(s)
    \/ Notify \/ Signal \/ AppStop \/ Return

-----------------------------------------------------------------------------
(* With the limiter. *)

Enter(r) == (\E s \in Servers : Accept(r, s)) /\ UNCHANGED limiter

\* The request is read and goes through the middleware chain up to the
\* limiter's clock, also after Stop; a gRPC request has none.
Ask(r) ==
    /\ Alive /\ active[r] \in Servers \ Grpc
    /\ \E a \in Addresses : Stamp(r, a)
    /\ UNCHANGED app

\* The limiter's verdict, in the handler's goroutine.
Decide(r) == Alive /\ Allow(r) /\ UNCHANGED app

\* The handler, or the refusal, is answered, or nothing was asked.
Leave(r) == ~Is(r, "ask") /\ Finish(r) /\ UNCHANGED limiter

Handle(r) == Decide(r) \/ Leave(r)

Next ==
    \/ \E r \in Requests : Enter(r) \/ Ask(r) \/ Handle(r)
    \/ Alive /\ Tick /\ UNCHANGED app
    \/ AppSteps /\ UNCHANGED limiter

\* Goroutines run, handlers end.
Fairness ==
    /\ \A r \in Requests : WF_vars(Handle(r))
    /\ \A s \in Servers : WF_vars(Lifecycle(s) /\ UNCHANGED limiter)
    /\ WF_vars((Notify \/ AppStop \/ Return) /\ UNCHANGED limiter)

Spec == Init /\ [][Next]_vars /\ Fairness

-----------------------------------------------------------------------------
(* What must hold. *)

\* When Run has returned, because of a signal or of a server that failed, no
\* handler of either server is running: no request is cut off.
DrainedBeforeExit == run \in {"returned", "failed"} => \A r \in Requests : active[r] = None

\* What was told to stop, or has lost a server, ends.
Stops == (signal # "none" \/ cancelled) ~> ~Alive

=============================================================================
