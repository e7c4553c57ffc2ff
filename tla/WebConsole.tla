------------------------------ MODULE WebConsole ------------------------------
(***************************************************************************)
(* The web console (incident_guard/web/console.py) beside the commands of   *)
(* IncidentCLI, which its approval buttons use too.                         *)
(*                                                                         *)
(* A viewer has the page of the run open.  The server polls the stream for   *)
(* it (run_events): first timeline, then status, in replays of their own,    *)
(* between which commands of other processes append.  When the status is     *)
(* final it sends `done', upon which the page loads the run again (api_run): *)
(* first status, then timeline.                                             *)
(*                                                                         *)
(* A batch of events is replayed as a whole or not at all, so length counts  *)
(* batches.                                                                 *)
(***************************************************************************)
EXTENDS IncidentCLI

CONSTANT Viewers

VARIABLES length,   \* batches in the stream
          viewer    \* per viewer, where its page is

consoleVars == <<vars, length, viewer>>

\* sent: what the stream has sent; read: the timeline it has read; status and
\* shown: what the page shows.
Closed == [at |-> "away", sent |-> 0, read |-> 0, status |-> "none", shown |-> 0]

ConsoleInit ==
    /\ Init
    /\ length = 0
    /\ viewer = [v \in Viewers |-> Closed]

-----------------------------------------------------------------------------

Streaming(v) == viewer[v].at \in {"polling", "replayed"}

Turns(v, from, page) ==
    /\ viewer[v].at = from
    /\ viewer' = [viewer EXCEPT ![v] = page]
    /\ UNCHANGED <<vars, length>>

\* The page is opened, or its EventSource connects again.
Visit(v) == Turns(v, "away", [Closed EXCEPT !.at = "polling"])

\* The viewer leaves.
Leave(v) ==
    /\ viewer[v].at # "away"
    /\ Turns(v, viewer[v].at, Closed)

\* timeline: an unknown run ends the stream with an error event.
ReplayTimeline(v) ==
    Turns(v, "polling",
          IF length = 0 THEN Closed
          ELSE [viewer[v] EXCEPT !.at = "replayed", !.read = length])

\* Mutant: the stream ends as soon as there is nothing new.
ReplayStatus_EndsWhenQuiet(v) ==
    Turns(v, "replayed",
          IF ~run.ok THEN Closed
          ELSE [viewer[v] EXCEPT
                    !.sent = viewer[v].read,
                    !.at = IF viewer[v].sent = viewer[v].read
                           THEN "done" ELSE "polling"])

\* Mutant: an uncertain failure is not final.
ReplayStatus_UncertainGoesOn(v) ==
    Turns(v, "replayed",
          IF ~run.ok THEN Closed
          ELSE [viewer[v] EXCEPT
                    !.sent = viewer[v].read,
                    !.at = IF run.status \in Terminal \ {"failed_uncertain"}
                           THEN "done" ELSE "polling"])

\* status, then the events of the timeline are sent, then done or the next
\* poll.  A stream that cannot be projected breaks the connection.
ReplayStatus(v) ==
    Turns(v, "replayed",
          IF ~run.ok THEN Closed
          ELSE [viewer[v] EXCEPT
                    !.sent = viewer[v].read,
                    !.at = IF run.status \in Terminal THEN "done" ELSE "polling"])

\* api_run: status, of a stream that can be projected ...
LoadStatus(v) ==
    Turns(v, "done",
          IF ~run.ok THEN Closed
          ELSE [viewer[v] EXCEPT !.at = "loading", !.status = run.status])

\* ... and timeline.
LoadTimeline(v) ==
    Turns(v, "loading", [viewer[v] EXCEPT !.at = "loaded", !.shown = length])

-----------------------------------------------------------------------------

Commanded ==
    /\ \E p \in Processes :
        \/ Recording(p) /\ length' = length + 1
        \/ Working(p) /\ UNCHANGED length
    /\ UNCHANGED viewer

Watched ==
    \E v \in Viewers :
        \/ Visit(v) \/ Leave(v) \/ ReplayTimeline(v) \/ ReplayStatus(v)
        \/ LoadStatus(v) \/ LoadTimeline(v)

ConsoleNext == Commanded \/ Watched

\* The server goes on serving a stream; nobody has to command or to watch.
ConsoleSpec ==
    /\ ConsoleInit /\ [][ConsoleNext]_consoleVars
    /\ \A v \in Viewers : WF_consoleVars(ReplayTimeline(v) \/ ReplayStatus(v))

-----------------------------------------------------------------------------
(* Properties.                                                             *)

\* test_console_approval_uses_application_service_and_sse_replays expects the
\* closing event before `done'.  The stream may miss it, when a command
\* appends between the two replays; the page that `done' makes the viewer load
\* does not: it shows the final status and every event, whatever the order in
\* which the commands and the four replays came.
FinalPage ==
    \A v \in Viewers : viewer[v].at = "loaded" /\ run.ok =>
        /\ viewer[v].status = run.status /\ run.status \in Terminal
        /\ viewer[v].shown = length

\* run_events: no stream is polled for ever once its run is closed.
StreamEnds ==
    \A v \in Viewers :
        Streaming(v) /\ run.status \in Terminal ~> ~Streaming(v)
=============================================================================
