--------------------------- MODULE AnalyticsReader --------------------------
(***************************************************************************)
(* A dashboard tab that loads the persisted analytics (load_summaries and  *)
(* _published_artifact_keys in ui/dashboard.py,                            *)
(* persistence/persisted_multi_month_analytics.py, lifecycle_history.py)   *)
(* while months are being finalized.  Nothing makes its storage calls one  *)
(* transaction: it reads the cutover, lists the keys, checks the marker of *)
(* one month after the other, all of it twice, and then reads the          *)
(* payloads.  The lifecycle history follows, which reads the cutover, the  *)
(* marker and the payload of each listed month before it turns to the next.*)
(***************************************************************************)
EXTENDS MonthlyImportExecution

VARIABLE
  reader   \* the program point and locals of the loading tab

readerVars == << artifacts, cutover, marker, sessions, lineage, archive, contended, reader >>

ReaderKinds == {"realized", "forex", "lifecycle"}

NothingLoaded ==
  [pc |-> "idle", kind |-> "realized", cut |-> [k \in ReaderKinds |-> NoMonth],
   todo |-> {}, keys |-> [k \in ReaderKinds |-> {}],
   loaded |-> [k \in ReaderKinds |-> [m \in Months |-> Missing]]]

ReaderInit == Init /\ reader = NothingLoaded

First(S) == CHOOSE m \in S : \A n \in S : m <= n

-----------------------------------------------------------------------------
ReadCutover ==
  /\ reader.pc = "idle"
  /\ reader' = [NothingLoaded EXCEPT !.pc = "list", !.cut["realized"] = cutover]

ListKeys ==
  /\ reader.pc = "list"
  /\ reader' = [reader EXCEPT !.pc = "check",
                              !.todo = {m \in Months : Exists(m, reader.kind)}]

\* Mutation of CheckMarker: every listed month counts.
CountEveryKey ==
  /\ reader.pc = "check" /\ reader.todo # {}
  /\ LET m == First(reader.todo)
     IN reader' = [reader EXCEPT !.todo = @ \ {m}, !.keys[reader.kind] = @ \cup {m}]

\* The marker is consulted only for the months the cutover read protects.
CheckMarker ==
  /\ reader.pc = "check" /\ reader.todo # {}
  /\ LET m == First(reader.todo)
         c == reader.cut[reader.kind]
         counted == c = NoMonth \/ m < c \/ m \in marker
     IN reader' = [reader EXCEPT !.todo = @ \ {m},
                     !.keys[reader.kind] = IF counted THEN @ \cup {m} ELSE @]

\* The realized keys are complete; the second pass starts with its own cutover.
ReadCutoverAgain ==
  /\ reader.pc = "check" /\ reader.todo = {} /\ reader.kind = "realized"
  /\ reader' = [reader EXCEPT !.pc = "list", !.kind = "forex", !.cut["forex"] = cutover]

\* Without realized keys load_summaries raises FileNotFoundError.
StartLoading ==
  /\ reader.pc = "check" /\ reader.todo = {} /\ reader.kind = "forex"
  /\ reader' = IF reader.keys["realized"] = {} THEN NothingLoaded
               ELSE [reader EXCEPT !.pc = "read", !.kind = "realized",
                                   !.todo = reader.keys["realized"]]

LoadRealized ==
  /\ reader.pc = "read" /\ reader.kind = "realized" /\ reader.todo # {}
  /\ LET m == First(reader.todo)
     IN reader' = [reader EXCEPT !.todo = @ \ {m},
                                 !.loaded["realized"][m] = artifacts[m]["realized"]]

TurnToForex ==
  /\ reader.pc = "read" /\ reader.kind = "realized" /\ reader.todo = {}
  /\ reader' = [reader EXCEPT !.kind = "forex", !.todo = reader.keys["forex"]]

\* A forex period without its realized period makes the load raise.
LoadForex ==
  /\ reader.pc = "read" /\ reader.kind = "forex" /\ reader.todo # {}
  /\ LET m == First(reader.todo)
     IN reader' = IF m \in reader.keys["realized"]
                  THEN [reader EXCEPT !.todo = @ \ {m},
                                      !.loaded["forex"][m] = artifacts[m]["forex"]]
                  ELSE [reader EXCEPT !.pc = "mismatch"]

\* load_lifecycle_history_from_storage, once the summaries are computed.
ListLifecycle ==
  /\ reader.pc = "read" /\ reader.kind = "forex" /\ reader.todo = {}
  /\ reader' = [reader EXCEPT !.pc = "period", !.kind = "lifecycle",
                              !.todo = {m \in Months : Exists(m, "lifecycle")}]

\* is_month_published_in_storage reads the protocol file for every month anew.
ReadCutoverOfPeriod ==
  /\ reader.pc = "period" /\ reader.todo # {}
  /\ reader' = [reader EXCEPT !.pc = "marker", !.cut["lifecycle"] = cutover]

CheckPeriod ==
  /\ reader.pc = "marker"
  /\ LET m == First(reader.todo)
         c == reader.cut["lifecycle"]
     IN reader' = IF c = NoMonth \/ m < c \/ m \in marker
                  THEN [reader EXCEPT !.pc = "load"]
                  ELSE [reader EXCEPT !.pc = "period", !.todo = @ \ {m}]

LoadPeriod ==
  /\ reader.pc = "load"
  /\ LET m == First(reader.todo)
     IN reader' = [reader EXCEPT !.pc = "period", !.todo = @ \ {m},
                     !.keys["lifecycle"] = @ \cup {m},
                     !.loaded["lifecycle"][m] = artifacts[m]["lifecycle"]]

FinishLoading ==
  /\ reader.pc = "period" /\ reader.todo = {}
  /\ reader' = [reader EXCEPT !.pc = "done"]

\* Mutation of RerunScript: after an error the tab is not drawn again.
RerunAfterPage ==
  /\ reader.pc = "done"
  /\ reader' = NothingLoaded

\* The page was drawn, or its error was; the next script run starts over.
RerunScript ==
  /\ reader.pc \in {"done", "mismatch"}
  /\ reader' = NothingLoaded

ReaderStep ==
  \/ ReadCutover \/ ListKeys \/ CheckMarker \/ ReadCutoverAgain \/ StartLoading
  \/ LoadRealized \/ TurnToForex \/ LoadForex
  \/ ListLifecycle \/ ReadCutoverOfPeriod \/ CheckPeriod \/ LoadPeriod
  \/ FinishLoading \/ RerunScript

ReaderNext ==
  \/ ReaderStep /\ UNCHANGED vars
  \/ Next /\ UNCHANGED reader

\* A script that was started is carried through, and its operator comes back.
ReaderFairness == WF_readerVars(ReaderStep /\ UNCHANGED vars)

ReaderSpec == ReaderInit /\ [][ReaderNext]_readerVars /\ ReaderFairness

-----------------------------------------------------------------------------
(***************************************************************************)
(* Properties                                                              *)
(***************************************************************************)

\* What a load that knew the cutover shows of a protected month is one
\* generation, although it was read in three passes: realized, forex and
\* lifecycle evidence of the same finished run, none of them left out
\* (load_summaries, load_lifecycle_history_from_storage).
LoadedMonthIsWhole ==
  reader.pc = "done" /\ reader.cut["realized"] # NoMonth =>
    \A m \in reader.keys["realized"] :
      m >= reader.cut["realized"] =>
        LET g == reader.loaded["realized"][m]
        IN /\ g \in Runs /\ lineage[g].month = m
           /\ \A k \in ReaderKinds : reader.loaded[k][m] = g

\* A month that is published and stays so is shown sooner or later, with the
\* evidence stored for it, however often a load met another half way through
\* its publication and ended in an error (load_summaries, whose errors the
\* page catches).
PublishedMonthIsShown ==
  \A m \in Months :
    <>[](Exists(m, "realized") /\ IsMonthPublished(m)) =>
      []<>( /\ reader.pc = "done" /\ m \in reader.keys["realized"]
            /\ \A k \in reader.keys["realized"] \X ReaderKinds :
                 reader.loaded[k[2]][k[1]] = artifacts[k[1]][k[2]])
=============================================================================
