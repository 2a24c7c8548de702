----------------------------- MODULE RestartPolicy -----------------------------
(*****************************************************************************)
(* The language client of the editor: it starts the server, counts crashes   *)
(* with a RestartPolicy, starts the server again after a delay or gives up,  *)
(* and replaces itself, policy included, when the settings change.           *)
(*                                                                           *)
(* Time is abstracted to whether the session has lasted for stableMs; the    *)
(* delays, of at most maxAttempts times 2 s, are over before that.           *)
(*****************************************************************************)
EXTENDS Naturals

CONSTANTS
  MaxAttempts,  \* maxAttempts
  MaxOrphans    \* bound: timers of replaced clients

ASSUME PolicyAssumption == MaxAttempts \in Nat /\ MaxOrphans \in Nat

VARIABLES
  client,  \* the current client: its state, the fields of its policy, restart timers
  streak   \* history: restarts by the client's own timers since it was new or stable

clientVars == <<client, streak>>

\* `up` is runningSince: null, less than stableMs ago, or longer.  `timers` are
\* the restarts this client's handler has scheduled, `orphans` those of clients
\* it has replaced.
Client == [state : {"starting", "running", "stopping", "stopped"}, attempt : 0..MaxAttempts,
           up : {"no", "short", "stable"}, timers : Nat, orphans : 0..MaxOrphans]

NewClient(orphans) ==
  [state |-> "starting", attempt |-> 0, up |-> "no", timers |-> 0, orphans |-> orphans]

ClientInit == client = NewClient(0) /\ streak = 0

(*****************************************************************************)
(* onStateChange of the policy                                               *)
(*****************************************************************************)

\* Mutant: the attempts are forgotten as soon as the server runs.
OnRunningForgets(c) == [c EXCEPT !.state = "running", !.up = "short", !.attempt = 0]

OnRunning(c) == [c EXCEPT !.state = "running", !.up = "short"]

\* Mutant: one attempt too many.
OnStoppedOnceMore(c, state) ==
  LET attempt == IF c.up = "stable" THEN 0 ELSE c.attempt
  IN  IF attempt > MaxAttempts
      THEN [c EXCEPT !.state = state, !.up = "no", !.attempt = attempt]
      ELSE [c EXCEPT !.state = state, !.up = "no", !.attempt = attempt + 1, !.timers = @ + 1]

\* Running to stopped: a crash, or the start of a stop, for they look the same.
OnStopped(c, state) ==
  LET attempt == IF c.up = "stable" THEN 0 ELSE c.attempt
  IN  IF attempt >= MaxAttempts
      THEN [c EXCEPT !.state = state, !.up = "no", !.attempt = attempt]
      ELSE [c EXCEPT !.state = state, !.up = "no", !.attempt = attempt + 1, !.timers = @ + 1]

GaveUp == client.state = "stopped" /\ client.timers = 0 /\ client.attempt = MaxAttempts

(*****************************************************************************)
(* The client                                                                *)
(*****************************************************************************)

ClientRuns ==
  /\ client.state = "starting"
  /\ client' = OnRunning(client)
  /\ UNCHANGED streak

\* From starting to stopped: nothing is scheduled.
ClientFails ==
  /\ client.state = "starting"
  /\ client' = [client EXCEPT !.state = "stopped"]
  /\ UNCHANGED streak

StaysUp ==
  /\ client.state = "running" /\ client.up = "short"
  /\ client.timers = 0 /\ client.orphans = 0
  /\ client' = [client EXCEPT !.up = "stable"]
  /\ streak' = 0

ServerDies ==
  /\ client.state = "running"
  /\ client' = OnStopped(client, "stopped")
  /\ UNCHANGED streak

\* start() of a client that is not stopped changes nothing.
RestartTimer ==
  /\ client.timers > 0
  /\ IF client.state = "stopped"
     THEN /\ client' = [client EXCEPT !.state = "starting", !.timers = @ - 1]
          /\ streak' = streak + 1
     ELSE /\ client' = [client EXCEPT !.timers = @ - 1]
          /\ UNCHANGED streak

\* A timer of a replaced client starts whatever client there is now.
OrphanTimer ==
  /\ client.orphans > 0
  /\ client' = [client EXCEPT !.orphans = @ - 1,
                              !.state = IF @ = "stopped" THEN "starting" ELSE @]
  /\ UNCHANGED streak

Replaced == NewClient(client.orphans + client.timers)

\* The settings change: a running client is stopped first; a stopped one is
\* replaced at once.  One that is starting is waited for, which is the same as
\* the settings changing later.
SettingsChange ==
  /\ client.timers + client.orphans < MaxOrphans
  /\ \/ /\ client.state = "running"
        /\ client' = OnStopped(client, "stopping")
        /\ UNCHANGED streak
     \/ /\ client.state = "stopped"
        /\ client' = Replaced
        /\ streak' = 0

StopEnds ==
  /\ client.state = "stopping"
  /\ client' = Replaced
  /\ streak' = 0

ClientNext ==
  \/ ClientRuns \/ ClientFails \/ StaysUp \/ ServerDies \/ RestartTimer \/ OrphanTimer
  \/ SettingsChange \/ StopEnds

ClientSpec == ClientInit /\ [][ClientNext]_clientVars

(*****************************************************************************)
(* Properties                                                                *)
(*****************************************************************************)

ClientTypeOK == client \in Client /\ streak \in Nat

\* A server that crashes in a loop is not restarted for ever: between two
\* sessions that lasted, its client starts it again at most maxAttempts times,
\* however stops, failed starts and timers of replaced clients come in between.
CrashLoopBounded == streak <= MaxAttempts
================================================================================
