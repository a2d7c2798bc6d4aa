--------------------------- MODULE ServerLifecycle ---------------------------
(* The serve lifecycle that the env and model servers share                 *)
(* (crates/rlmesh-grpc/src/lifecycle.rs): the activity channel and the      *)
(* idle watcher, the shutdown trigger, the drain and the close hook.        *)
EXTENDS Naturals, Sequences

(* ServeOptions: whether an idle_timeout, a drain_timeout and a            *)
(* close_timeout are set, and whether remote shutdown is allowed.           *)
ServeOptions == [idle : BOOLEAN, remote : BOOLEAN, drain : BOOLEAN, close : BOOLEAN]

VARIABLES
  options,   \* the ServeOptions, fixed initially
  feed,      \* activity messages the watcher has not received
  inFlight,  \* the watcher's count
  reason,    \* what triggered the shutdown, "none" before
  phase,     \* of serve: "serving", "draining", "closing", then how the hook ended
  cut        \* the drain was given up

lifeVars == <<options, feed, inFlight, reason, phase, cut>>

LifeInit ==
  /\ options \in ServeOptions
  /\ feed = <<>>
  /\ inFlight = 0
  /\ reason = "none"
  /\ phase = "serving"
  /\ cut = FALSE

(* The Started that a dispatch loop sends, and the Finished that the guard *)
(* sends when the request's task ends in any way.                          *)
Sent(message) ==
  /\ feed' = IF options.idle THEN Append(feed, message) ELSE feed
  /\ UNCHANGED <<options, inFlight, reason, phase, cut>>

Began == Sent("started")

Ended == Sent("finished")

(* ShutdownTrigger::trigger: the first reason stays.                       *)
Trigger(why) == reason' = IF reason = "none" THEN why ELSE reason

(* wait_for_idle_shutdown receives a message; the count saturates at 0.    *)
Hear ==
  /\ feed # <<>>
  /\ reason # "idle"
  /\ feed' = Tail(feed)
  /\ inFlight' = CASE Head(feed) = "started" -> inFlight + 1
                   [] Head(feed) = "finished" -> IF inFlight = 0 THEN 0 ELSE inFlight - 1
  /\ UNCHANGED <<options, reason, phase, cut>>

(* Faulty: the timer runs whatever is in flight.                           *)
IdleOutAnyway ==
  /\ options.idle
  /\ feed = <<>>
  /\ reason = "none"
  /\ Trigger("idle")
  /\ UNCHANGED <<options, feed, inFlight, phase, cut>>

(* Its timer runs only while the count is 0, and a message that is already *)
(* there wins over the timer.                                              *)
IdleOut ==
  /\ options.idle
  /\ inFlight = 0
  /\ feed = <<>>
  /\ reason = "none"
  /\ Trigger("idle")
  /\ UNCHANGED <<options, feed, inFlight, phase, cut>>

(* The shutdown RPC, or the host's own trigger.                            *)
RemoteShutdown ==
  /\ options.remote
  /\ phase \in {"serving", "draining"}
  /\ reason = "none"
  /\ Trigger("remote")
  /\ UNCHANGED <<options, feed, inFlight, phase, cut>>

(* await_server_shutdown: the cancelled token starts the drain, which ends *)
(* with the last connection or when drain_timeout is over.                 *)
StartDrain ==
  /\ phase = "serving"
  /\ reason # "none"
  /\ phase' = "draining"
  /\ UNCHANGED <<options, feed, inFlight, reason, cut>>

Drained(connectionsDone) ==
  /\ phase = "draining"
  /\ connectionsDone
  /\ phase' = "closing"
  /\ UNCHANGED <<options, feed, inFlight, reason, cut>>

(* Faulty: only an idle shutdown bounds the drain.                         *)
CutIdleDrain ==
  /\ options.drain
  /\ phase = "draining"
  /\ reason = "idle"
  /\ phase' = "closing"
  /\ cut' = TRUE
  /\ UNCHANGED <<options, feed, inFlight, reason>>

CutDrain ==
  /\ options.drain
  /\ phase = "draining"
  /\ phase' = "closing"
  /\ cut' = TRUE
  /\ UNCHANGED <<options, feed, inFlight, reason>>

(* await_close_with_timeout: the hook ran, failed, or took too long.       *)
Closed(how) ==
  /\ phase = "closing"
  /\ phase' = how
  /\ UNCHANGED <<options, feed, inFlight, reason, cut>>

=============================================================================
