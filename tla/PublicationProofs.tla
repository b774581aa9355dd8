-------------------------- MODULE PublicationProofs -------------------------
(***************************************************************************)
(* Proofs about MonthlyImportExecution for any number of months, runs and  *)
(* sessions, with or without the wizard's guard: type correctness, and     *)
(* that a published month is complete, and whole unless two sessions were  *)
(* at work on it at once.  Then what the wizard's guard adds when one      *)
(* session finalizes months at a time: a published month is never          *)
(* rewritten, its archived trade history is the one its provenance names,  *)
(* the visible lot books form an append-only chain, and a page loaded      *)
(* meanwhile shows one run of every protected month.                       *)
(***************************************************************************)
EXTENDS AnalyticsReader, TLAPS, WellFoundedInduction

-----------------------------------------------------------------------------
(* Type correctness. *)

\* The order of the eleven writes names every key once.
LEMMA WriteOrderFacts ==
  /\ \A i \in 1..11 : WriteOrder[i] \in Kinds
  /\ \A k \in Kinds : \E i \in 1..11 : k = WriteOrder[i]
  /\ \A i, j \in 1..11 : i # j => WriteOrder[i] # WriteOrder[j]
<1>1. \A i \in 1..11 : WriteOrder[i] \in Kinds
  BY DEF Kinds
<1>2. \A k \in Kinds : \E i \in 1..11 : k = WriteOrder[i]
  BY DEF Kinds
<1>3. \A i, j \in 1..11 : i # j => WriteOrder[i] # WriteOrder[j]
  BY DEF WriteOrder
<1> QED BY <1>1, <1>2, <1>3

RunPcs == {"archive", "protocol", "cutover", "build", "unpublish", "write"}

\* A session past the pipeline works for a recorded run of its own month, only
\* a month with a predecessor is ever opened from it, and the writes start over.
SessionInv ==
  \A s \in Sessions :
    /\ sessions[s].pc = "loading" => sessions[s].month > 1
    /\ sessions[s].pc # "write" => sessions[s].next = 1
    /\ sessions[s].pc \in RunPcs =>
         /\ sessions[s].run \in 1..Len(lineage)
         /\ lineage[sessions[s].run].month = sessions[s].month

TypeInv == TypeOK /\ SessionInv

LEMMA InitTypeInv == Init => TypeInv
<1> USE BoundsAssumption, ContentAssumption
<1> SUFFICES ASSUME Init PROVE TypeInv
  OBVIOUS
<1>1. StorageTypeOK
  BY DEF Init, StorageInit, StorageTypeOK, Content, Months, NoMonth
<1>2. \A s \in Sessions : sessions[s] \in SessionRecords /\ sessions[s].pc = "idle" /\ sessions[s].run = 0
  BY DEF Init, Idle, SessionRecords, Pcs, Openings, Months
<1>6. \A s \in Sessions : sessions[s].next = 1
  BY DEF Init, Idle
<1>3. lineage = << >> /\ Len(lineage) = 0
  BY DEF Init
<1>4. TypeOK
  BY <1>1, <1>2, <1>3 DEF Init, TypeOK, Months
<1>5. SessionInv
  BY <1>2, <1>6 DEF SessionInv, RunPcs
<1> QED BY <1>4, <1>5 DEF TypeInv

\* A stored payload is a run, or nothing.
LEMMA StoredContent ==
  ASSUME NEW g \in Runs, NEW k \in Kinds, NEW old \in Content
  PROVE  Stored(g, k, old) \in Content
BY DEF Stored, Payload, Content

\* What moving one session along leaves of its locals, and of the others.
LEMMA GotoFields ==
  ASSUME NEW s \in Sessions, NEW pc \in Pcs,
         sessions \in [Sessions -> SessionRecords], Goto(s, pc)
  PROVE  /\ sessions' \in [Sessions -> SessionRecords]
         /\ sessions'[s].pc = pc
         /\ sessions'[s].month = sessions[s].month
         /\ sessions'[s].opening = sessions[s].opening
         /\ sessions'[s].run = sessions[s].run
         /\ sessions'[s].next = sessions[s].next
         /\ \A t \in Sessions \ {s} : sessions'[t] = sessions[t]
BY DEF Goto, SessionRecords

LEMMA PrepareFields ==
  ASSUME NEW s \in Sessions, NEW pc \in Pcs, NEW m \in Months, NEW opening \in Openings,
         NEW run \in 0..MaxRuns,
         sessions \in [Sessions -> SessionRecords], Prepare(s, pc, m, opening, run)
  PROVE  /\ sessions' \in [Sessions -> SessionRecords]
         /\ sessions'[s] = [pc |-> pc, month |-> m, opening |-> opening, run |-> run, next |-> 1]
         /\ \A t \in Sessions \ {s} : sessions'[t] = sessions[t]
BY DEF Prepare, SessionRecords

LEMMA IdleFields ==
  ASSUME NEW s \in Sessions, sessions \in [Sessions -> SessionRecords],
         sessions' = [sessions EXCEPT ![s] = Idle]
  PROVE  /\ sessions' \in [Sessions -> SessionRecords]
         /\ sessions'[s].pc = "idle"
         /\ sessions'[s].run = 0 /\ sessions'[s].next = 1
         /\ \A t \in Sessions \ {s} : sessions'[t] = sessions[t]
<1>1. Idle \in SessionRecords
  BY BoundsAssumption DEF Idle, SessionRecords, Pcs, Months, Openings
<1> QED BY <1>1 DEF Idle

LEMMA AdvanceFields ==
  ASSUME NEW s \in Sessions, sessions \in [Sessions -> SessionRecords],
         sessions[s].next <= 11, Advance(s)
  PROVE  /\ sessions' \in [Sessions -> SessionRecords]
         /\ sessions'[s].pc = sessions[s].pc
         /\ sessions'[s].month = sessions[s].month
         /\ sessions'[s].run = sessions[s].run
         /\ sessions'[s].next = sessions[s].next + 1
         /\ \A t \in Sessions \ {s} : sessions'[t] = sessions[t]
BY DEF SessionRecords, Advance

\* The parts of the type invariant that a step of one session has to restore.
LEMMA TypeInvFromParts ==
  ASSUME TypeInv, NEW s \in Sessions,
         StorageTypeOK',
         sessions' \in [Sessions -> SessionRecords],
         \A t \in Sessions \ {s} : sessions'[t] = sessions[t],
         sessions'[s].run <= Len(lineage),
         sessions'[s].pc = "loading" => sessions'[s].month > 1,
         sessions'[s].pc # "write" => sessions'[s].next = 1,
         sessions'[s].pc \in RunPcs =>
           /\ sessions'[s].run \in 1..Len(lineage)
           /\ lineage[sessions'[s].run].month = sessions'[s].month,
         lineage' = lineage,
         archive' \in [Months -> Runs \cup {Missing, Torn}],
         contended' \subseteq Months
  PROVE  TypeInv'
<1>1. TypeOK'
  BY DEF TypeInv, TypeOK
<1>2. SessionInv'
  BY DEF TypeInv, SessionInv
<1> QED BY <1>1, <1>2 DEF TypeInv

LEMMA NextTypeInv == TypeInv /\ [Next]_vars => TypeInv'
<1> SUFFICES ASSUME TypeInv, [Next]_vars PROVE TypeInv'
  OBVIOUS
<1> USE BoundsAssumption, ContentAssumption
<1>0. /\ StorageTypeOK
      /\ sessions \in [Sessions -> SessionRecords]
      /\ lineage \in Seq(RunRecords) /\ Len(lineage) \in 0..MaxRuns
      /\ \A t \in Sessions :
           /\ sessions[t].pc \in Pcs /\ sessions[t].month \in Months
           /\ sessions[t].opening \in Openings /\ sessions[t].run \in 0..MaxRuns
           /\ sessions[t].next \in 1..12 /\ sessions[t].run <= Len(lineage)
      /\ archive \in [Months -> Runs \cup {Missing, Torn}]
      /\ contended \subseteq Months
      /\ SessionInv
  BY DEF TypeInv, TypeOK, SessionRecords
<1>1. ASSUME NEW s \in Sessions, NEW m \in Months, DiscoverPredecessor(s, m)
      PROVE  TypeInv'
  <2> DEFINE pc == IF HasPredecessor(m) THEN "loading" ELSE "prepared"
  <2>1. Prepare(s, pc, m, Bootstrap, 0) /\ UNCHANGED << storageVars, lineage, archive >>
    BY <1>1 DEF DiscoverPredecessor
  <2>2. pc \in Pcs /\ Bootstrap \in Openings /\ 0 \in 0..MaxRuns
    BY DEF Pcs, Openings
  <2>3. /\ sessions' \in [Sessions -> SessionRecords]
        /\ sessions'[s] = [pc |-> pc, month |-> m, opening |-> Bootstrap, run |-> 0, next |-> 1]
        /\ \A t \in Sessions \ {s} : sessions'[t] = sessions[t]
    BY <1>0, <2>1, <2>2, PrepareFields
  <2>4. pc = "loading" => m > 1
    BY DEF HasPredecessor, AuthoritativePeriods, Months
  <2>5. contended' \subseteq Months
    BY <1>0, <1>1 DEF DiscoverPredecessor
  <2>6. StorageTypeOK'
    BY <1>0, <2>1 DEF StorageTypeOK, storageVars
  <2>7. archive' = archive /\ lineage' = lineage
    BY <2>1
  <2>8. /\ sessions'[s].run <= Len(lineage) /\ sessions'[s].pc \notin RunPcs
        /\ sessions'[s].next = 1
    BY <1>0, <2>3 DEF RunPcs
  <2> HIDE DEF pc
  <2> QED
    BY <1>0, <2>3, <2>4, <2>5, <2>6, <2>7, <2>8, TypeInvFromParts
<1>2. ASSUME NEW s \in Sessions, LoadPredecessor(s) PROVE TypeInv'
  <2> DEFINE m == sessions[s].month
             opening == artifacts[m - 1]["lot-book"]
  <2>1. m \in Months /\ m - 1 \in Months
    BY <1>0, <1>2 DEF LoadPredecessor, At, SessionInv, Months
  <2>2. "lot-book" \in Kinds
    BY WriteOrderFacts DEF WriteOrder
  <2>3. opening \in Openings
    BY <1>0, <2>1, <2>2 DEF StorageTypeOK, Content, Openings
  <2>4. Prepare(s, "prepared", m, opening, 0) /\ UNCHANGED << storageVars, lineage, archive, contended >>
    BY <1>2 DEF LoadPredecessor
  <2>5. "prepared" \in Pcs /\ 0 \in 0..MaxRuns
    BY DEF Pcs
  <2>6. /\ sessions' \in [Sessions -> SessionRecords]
        /\ sessions'[s] = [pc |-> "prepared", month |-> m, opening |-> opening, run |-> 0, next |-> 1]
        /\ \A t \in Sessions \ {s} : sessions'[t] = sessions[t]
    BY <1>0, <2>1, <2>3, <2>4, <2>5, PrepareFields
  <2>7. StorageTypeOK' /\ archive' = archive /\ lineage' = lineage /\ contended' = contended
    BY <1>0, <2>4 DEF StorageTypeOK, storageVars
  <2>8. /\ sessions'[s].run <= Len(lineage) /\ sessions'[s].pc = "prepared"
        /\ sessions'[s].next = 1
    BY <1>0, <2>6
  <2> QED BY <1>0, <2>6, <2>7, <2>8, TypeInvFromParts DEF RunPcs
<1>3. ASSUME NEW s \in Sessions, NEW pc \in Pcs, Goto(s, pc),
             pc # "loading", sessions[s].pc # "write",
             pc \in RunPcs => sessions[s].pc \in RunPcs,
             StorageTypeOK', archive' \in [Months -> Runs \cup {Missing, Torn}],
             lineage' = lineage, contended' = contended
      PROVE  TypeInv'
  <2>1. /\ sessions' \in [Sessions -> SessionRecords]
        /\ sessions'[s].pc = pc
        /\ sessions'[s].month = sessions[s].month
        /\ sessions'[s].run = sessions[s].run
        /\ sessions'[s].next = sessions[s].next
        /\ \A t \in Sessions \ {s} : sessions'[t] = sessions[t]
    BY <1>0, <1>3, GotoFields
  <2>2. pc \in RunPcs => /\ sessions'[s].run \in 1..Len(lineage)
                         /\ lineage[sessions'[s].run].month = sessions'[s].month
    BY <1>0, <1>3, <2>1 DEF SessionInv
  <2>3. sessions'[s].next = 1
    BY <1>0, <1>3, <2>1 DEF SessionInv
  <2> QED BY <1>0, <1>3, <2>1, <2>2, <2>3, TypeInvFromParts
<1>4. ASSUME NEW s \in Sessions, PassGuard(s) PROVE TypeInv'
  BY <1>0, <1>3, <1>4 DEF PassGuard, At, storageVars, StorageTypeOK, Pcs, RunPcs
<1>5. ASSUME NEW s \in Sessions, RunPipeline(s) PROVE TypeInv'
  <2> DEFINE g == Len(lineage) + 1
  <2>1. PICK outcome \in Outcomes :
        lineage' = Append(lineage, [month |-> sessions[s].month,
                                    opening |-> sessions[s].opening,
                                    outcome |-> outcome])
    BY <1>5 DEF RunPipeline
  <2>2. [month |-> sessions[s].month, opening |-> sessions[s].opening, outcome |-> outcome]
          \in RunRecords
    BY <1>0 DEF RunRecords
  <2>3. /\ lineage' \in Seq(RunRecords) /\ Len(lineage') = g
        /\ lineage'[g].month = sessions[s].month
        /\ \A h \in 1..Len(lineage) : lineage'[h] = lineage[h]
    BY <1>0, <2>1, <2>2
  <2>4. g \in 1..MaxRuns
    BY <1>0, <1>5 DEF RunPipeline
  <2>5. Prepare(s, "archive", sessions[s].month, sessions[s].opening, g)
        /\ UNCHANGED << storageVars, archive, contended >>
    BY <1>5 DEF RunPipeline
  <2>6. "archive" \in Pcs /\ g \in 0..MaxRuns
    BY <2>4 DEF Pcs
  <2>7. /\ sessions' \in [Sessions -> SessionRecords]
        /\ sessions'[s] = [pc |-> "archive", month |-> sessions[s].month,
                           opening |-> sessions[s].opening, run |-> g, next |-> 1]
        /\ \A t \in Sessions \ {s} : sessions'[t] = sessions[t]
    BY <1>0, <2>5, <2>6, PrepareFields
  <2>8. StorageTypeOK' /\ archive' = archive /\ contended' = contended
    BY <1>0, <2>5 DEF StorageTypeOK, storageVars
  <2>9. Len(lineage') <= MaxRuns /\ \A t \in Sessions : sessions'[t].run <= Len(lineage')
    BY <1>0, <2>3, <2>4, <2>7
  <2>10. TypeOK'
    BY <1>0, <2>3, <2>7, <2>8, <2>9 DEF TypeOK
  <2>11. SessionInv'
    <3> SUFFICES ASSUME NEW t \in Sessions
                 PROVE  /\ sessions'[t].pc = "loading" => sessions'[t].month > 1
                        /\ sessions'[t].pc # "write" => sessions'[t].next = 1
                        /\ sessions'[t].pc \in RunPcs =>
                             /\ sessions'[t].run \in 1..Len(lineage')
                             /\ lineage'[sessions'[t].run].month = sessions'[t].month
      BY DEF SessionInv
    <3>1. CASE t = s
      BY <3>1, <2>3, <2>4, <2>7
    <3>2. CASE t # s
      BY <1>0, <3>2, <2>3, <2>7 DEF SessionInv
    <3> QED BY <3>1, <3>2
  <2> QED BY <2>10, <2>11 DEF TypeInv
<1>6. ASSUME NEW s \in Sessions, ArchiveTradeHistory(s) PROVE TypeInv'
  <2>1. sessions[s].run \in Runs
    BY <1>0, <1>6 DEF ArchiveTradeHistory, At, SessionInv, RunPcs, Runs
  <2>2. archive' \in [Months -> Runs \cup {Missing, Torn}]
    BY <1>0, <1>6, <2>1 DEF ArchiveTradeHistory
  <2>3. /\ sessions[s].pc = "archive" /\ Goto(s, "protocol")
        /\ lineage' = lineage /\ contended' = contended /\ StorageTypeOK'
    BY <1>0, <1>6 DEF ArchiveTradeHistory, At, storageVars, StorageTypeOK
  <2> QED BY <1>3, <2>2, <2>3 DEF Pcs, RunPcs
<1>7. ASSUME NEW s \in Sessions, CheckProtocol(s) PROVE TypeInv'
  <2> DEFINE pc == IF cutover = NoMonth THEN "cutover" ELSE "build"
  <2>1. pc \in Pcs /\ pc # "loading" /\ sessions[s].pc \in RunPcs /\ sessions[s].pc # "write"
    BY <1>7 DEF CheckProtocol, At, Pcs, RunPcs
  <2>2. Goto(s, pc) /\ UNCHANGED << storageVars, lineage, archive, contended >>
    BY <1>7 DEF CheckProtocol
  <2>3. StorageTypeOK' /\ archive' = archive /\ lineage' = lineage /\ contended' = contended
    BY <1>0, <2>2 DEF storageVars, StorageTypeOK
  <2> QED BY <1>0, <1>3, <2>1, <2>2, <2>3
<1>8. ASSUME NEW s \in Sessions, WriteProtocol(s) PROVE TypeInv'
  <2>1. StorageTypeOK'
    BY <1>0, <1>8 DEF WriteProtocol, WriteProtocolFile, StorageTypeOK
  <2>2. /\ sessions[s].pc = "cutover" /\ Goto(s, "build")
        /\ archive' = archive /\ lineage' = lineage /\ contended' = contended
    BY <1>8 DEF WriteProtocol, At
  <2> QED BY <1>0, <1>3, <2>1, <2>2 DEF Pcs, RunPcs
<1>9. ASSUME NEW s \in Sessions, BuildGeneration(s) PROVE TypeInv'
  <2>1. /\ sessions[s].pc = "build" /\ Goto(s, "unpublish")
        /\ archive' = archive /\ lineage' = lineage /\ contended' = contended /\ StorageTypeOK'
    BY <1>0, <1>9 DEF BuildGeneration, At, storageVars, StorageTypeOK
  <2> QED BY <1>0, <1>3, <2>1 DEF Pcs, RunPcs
<1>10. ASSUME NEW s \in Sessions, Unpublish(s) PROVE TypeInv'
  <2>1. StorageTypeOK'
    BY <1>0, <1>10 DEF Unpublish, UnpublishMarker, StorageTypeOK
  <2>2. /\ sessions[s].pc = "unpublish" /\ Goto(s, "write")
        /\ archive' = archive /\ lineage' = lineage /\ contended' = contended
    BY <1>10 DEF Unpublish, At
  <2> QED BY <1>0, <1>3, <2>1, <2>2 DEF Pcs, RunPcs
<1>11. ASSUME NEW s \in Sessions, WriteArtifact(s) PROVE TypeInv'
  <2> DEFINE m == sessions[s].month
             k == WriteOrder[sessions[s].next]
             c == Stored(sessions[s].run, k, artifacts[m][k])
  <2>0. sessions[s].pc = "write" /\ sessions[s].next \in 1..11
    BY <1>0, <1>11 DEF WriteArtifact, At
  <2>1. k \in Kinds /\ m \in Months
    BY <1>0, <2>0, WriteOrderFacts
  <2>2. sessions[s].run \in 1..Len(lineage) /\ sessions[s].run \in Runs
        /\ lineage[sessions[s].run].month = m
    BY <1>0, <2>0 DEF SessionInv, RunPcs, Runs
  <2>3. artifacts[m][k] \in Content
    BY <1>0, <2>1 DEF StorageTypeOK
  <2>4. c \in Content
    BY <2>1, <2>2, <2>3, StoredContent
  <2>5. StoreArtifact(m, k, c) /\ UNCHANGED << lineage, archive, contended >>
        /\ Advance(s) /\ sessions[s].next <= 11
    BY <1>11 DEF WriteArtifact
  <2>6. StorageTypeOK'
    <3> HIDE DEF m, k, c
    <3> QED BY <1>0, <2>1, <2>4, <2>5 DEF StorageTypeOK, StoreArtifact
  <2>7. /\ sessions' \in [Sessions -> SessionRecords]
        /\ sessions'[s].pc = "write" /\ sessions'[s].month = m
        /\ sessions'[s].run = sessions[s].run
        /\ \A t \in Sessions \ {s} : sessions'[t] = sessions[t]
    BY <1>0, <2>0, <2>5, AdvanceFields
  <2>8. archive' = archive /\ lineage' = lineage /\ contended' = contended
    BY <2>5
  <2> QED BY <1>0, <2>2, <2>6, <2>7, <2>8, TypeInvFromParts
<1>12. ASSUME NEW s \in Sessions, sessions' = [sessions EXCEPT ![s] = Idle],
              StorageTypeOK', archive' \in [Months -> Runs \cup {Missing, Torn}],
              lineage' = lineage, contended' = contended
       PROVE  TypeInv'
  <2>1. /\ sessions' \in [Sessions -> SessionRecords]
        /\ sessions'[s].pc = "idle" /\ sessions'[s].run = 0 /\ sessions'[s].next = 1
        /\ \A t \in Sessions \ {s} : sessions'[t] = sessions[t]
    BY <1>0, <1>12, IdleFields
  <2>2. sessions'[s].run <= Len(lineage) /\ sessions'[s].pc \notin RunPcs
    BY <1>0, <2>1 DEF RunPcs
  <2> QED BY <1>0, <1>12, <2>1, <2>2, TypeInvFromParts
<1>13. ASSUME NEW s \in Sessions, Publish(s) PROVE TypeInv'
  <2>1. StorageTypeOK'
    BY <1>0, <1>13 DEF Publish, PublishMarker, StorageTypeOK
  <2> QED BY <1>0, <1>12, <1>13, <2>1 DEF Publish
<1>14. ASSUME NEW s \in Sessions, Fail(s) PROVE TypeInv'
  <2>1. StorageTypeOK'
    BY <1>0, <1>14 DEF Fail, storageVars, StorageTypeOK
  <2> QED BY <1>0, <1>12, <1>14, <2>1 DEF Fail
<1>15. ASSUME NEW s \in Sessions, FailWhileArchiving(s) PROVE TypeInv'
  <2>1. StorageTypeOK' /\ archive' \in [Months -> Runs \cup {Missing, Torn}]
    BY <1>0, <1>15 DEF FailWhileArchiving, storageVars, StorageTypeOK
  <2> QED BY <1>0, <1>12, <1>15, <2>1 DEF FailWhileArchiving
<1>16. CASE UNCHANGED vars
  BY <1>16 DEF vars, TypeInv, TypeOK, SessionInv, StorageTypeOK
<1> QED
  BY <1>1, <1>2, <1>4, <1>5, <1>6, <1>7, <1>8, <1>9, <1>10, <1>11, <1>13, <1>14, <1>15, <1>16
  DEF Next, SessionStep

\* Every reachable state is well typed and every running session works for a
\* recorded run of its own month, with any number of sessions.
THEOREM TypeCorrect == Spec => []TypeOK
<1>1. Spec => []TypeInv
  BY InitTypeInv, NextTypeInv, PTL DEF Spec
<1>2. TypeInv => TypeOK
  BY DEF TypeInv
<1> QED BY <1>1, <1>2, PTL

-----------------------------------------------------------------------------
(* Published months. *)

\* The facts about one state that the steps below need.
LEMMA StateFacts ==
  ASSUME TypeInv
  PROVE  /\ artifacts \in [Months -> [Kinds -> Content]]
         /\ marker \subseteq Months
         /\ contended \subseteq Months
         /\ lineage \in Seq(RunRecords)
         /\ Len(lineage) \in 0..MaxRuns
         /\ sessions \in [Sessions -> SessionRecords]
         /\ \A s \in Sessions :
              /\ sessions[s].pc \in Pcs /\ sessions[s].month \in Months
              /\ sessions[s].opening \in Openings
              /\ sessions[s].run \in 0..MaxRuns /\ sessions[s].next \in 1..12
              /\ sessions[s].pc # "write" => sessions[s].next = 1
              /\ sessions[s].pc \in RunPcs =>
                   /\ sessions[s].run \in 1..Len(lineage)
                   /\ sessions[s].run \in Runs
                   /\ lineage[sessions[s].run].month = sessions[s].month
BY BoundsAssumption
   DEF TypeInv, TypeOK, StorageTypeOK, SessionInv, SessionRecords, Runs

\* A write replaces one payload of the session's month and moves on.
LEMMA WriteArtifactEffect ==
  ASSUME TypeInv, NEW s \in Sessions, WriteArtifact(s)
  PROVE  LET m == sessions[s].month
             k == WriteOrder[sessions[s].next]
         IN /\ sessions[s].pc = "write" /\ sessions[s].next \in 1..11
            /\ m \in Months /\ k \in Kinds
            /\ artifacts'[m][k] = Stored(sessions[s].run, k, artifacts[m][k])
            /\ \A n \in Months : \A j \in Kinds :
                 (n # m \/ j # k) => artifacts'[n][j] = artifacts[n][j]
            /\ sessions'[s].pc = "write" /\ sessions'[s].month = m
            /\ sessions'[s].run = sessions[s].run
            /\ sessions'[s].next = sessions[s].next + 1
            /\ \A t \in Sessions \ {s} : sessions'[t] = sessions[t]
            /\ UNCHANGED << cutover, marker, lineage, archive, contended >>
<1> DEFINE m == sessions[s].month
           k == WriteOrder[sessions[s].next]
           c == Stored(sessions[s].run, k, artifacts[m][k])
<1>1. sessions[s].pc = "write" /\ sessions[s].next \in 1..11 /\ sessions[s].next <= 11
  BY StateFacts DEF WriteArtifact, At
<1>2. m \in Months /\ k \in Kinds
  BY <1>1, StateFacts, WriteOrderFacts
<1>3. StoreArtifact(m, k, c) /\ Advance(s) /\ UNCHANGED << lineage, archive, contended >>
  BY DEF WriteArtifact
<1>4. artifacts'[m][k] = c /\ \A n \in Months : \A j \in Kinds :
        (n # m \/ j # k) => artifacts'[n][j] = artifacts[n][j]
  <2> HIDE DEF m, k, c
  <2>1. artifacts \in [Months -> [Kinds -> Content]]
    BY StateFacts
  <2> QED BY <1>2, <1>3, <2>1 DEF StoreArtifact
<1>5. /\ sessions'[s].pc = "write" /\ sessions'[s].month = m
      /\ sessions'[s].run = sessions[s].run
      /\ sessions'[s].next = sessions[s].next + 1
      /\ \A t \in Sessions \ {s} : sessions'[t] = sessions[t]
  <2>1. sessions \in [Sessions -> SessionRecords]
    BY StateFacts
  <2> QED BY <1>1, <1>3, <2>1, AdvanceFields
<1>6. UNCHANGED << cutover, marker >>
  BY <1>3 DEF StoreArtifact
<1> QED BY <1>1, <1>2, <1>3, <1>4, <1>5, <1>6

\* Hiding and marking the session's month.
LEMMA UnpublishEffect ==
  ASSUME TypeInv, NEW s \in Sessions, Unpublish(s)
  PROVE  /\ sessions[s].pc = "unpublish" /\ marker' = marker \ {sessions[s].month}
         /\ sessions'[s].pc = "write" /\ sessions'[s].month = sessions[s].month
         /\ sessions'[s].run = sessions[s].run /\ sessions'[s].next = 1
         /\ \A t \in Sessions \ {s} : sessions'[t] = sessions[t]
         /\ UNCHANGED << artifacts, cutover, lineage, archive, contended >>
<1>1. sessions \in [Sessions -> SessionRecords] /\ "write" \in Pcs
  BY StateFacts DEF Pcs
<1>2. Goto(s, "write") /\ sessions[s].pc = "unpublish"
  BY DEF Unpublish, At
<1>3. sessions[s].next = 1
  BY <1>2, StateFacts
<1> QED BY <1>1, <1>2, <1>3, GotoFields DEF Unpublish, UnpublishMarker, At

LEMMA PublishEffect ==
  ASSUME TypeInv, NEW s \in Sessions, Publish(s)
  PROVE  /\ sessions[s].pc = "write" /\ sessions[s].next = 12
         /\ marker' = marker \cup {sessions[s].month}
         /\ sessions'[s].pc = "idle"
         /\ \A t \in Sessions \ {s} : sessions'[t] = sessions[t]
         /\ UNCHANGED << artifacts, cutover, lineage, archive, contended >>
<1>1. sessions \in [Sessions -> SessionRecords]
  BY StateFacts
<1> QED BY <1>1, IdleFields DEF Publish, PublishMarker, At

\* Every other step of a session keeps payloads, markers and recorded runs, and
\* does not bring it to the writes; the session stays on its month, or starts on
\* one and records the contention.
QuietStep(s) ==
  /\ artifacts' = artifacts /\ marker' = marker /\ contended \subseteq contended'
  /\ \A t \in Sessions \ {s} : sessions'[t] = sessions[t]
  /\ sessions'[s].pc # "write"
  /\ Len(lineage') \in Nat /\ Len(lineage) <= Len(lineage')
  /\ \A g \in 1..Len(lineage) : lineage'[g] = lineage[g]
  /\ sessions'[s].pc # "idle" =>
       \/ sessions[s].pc # "idle" /\ sessions'[s].month = sessions[s].month
       \/ \A t \in Sessions : AtWorkOn(t, sessions'[s].month) => sessions'[s].month \in contended'

LEMMA StepCases ==
  ASSUME TypeInv, NEW s \in Sessions, SessionStep(s)
  PROVE  QuietStep(s) \/ Unpublish(s) \/ WriteArtifact(s) \/ Publish(s)
<1>0. /\ sessions \in [Sessions -> SessionRecords]
      /\ Len(lineage) \in Nat /\ lineage \in Seq(RunRecords)
      /\ \A t \in Sessions :
           /\ sessions[t].pc \in Pcs /\ sessions[t].month \in Months
           /\ sessions[t].opening \in Openings /\ sessions[t].run \in 0..MaxRuns
  BY StateFacts, BoundsAssumption
<1>1. ASSUME NEW m \in Months, DiscoverPredecessor(s, m) PROVE QuietStep(s)
  <2> DEFINE pc == IF HasPredecessor(m) THEN "loading" ELSE "prepared"
  <2>1. Prepare(s, pc, m, Bootstrap, 0) /\ UNCHANGED << storageVars, lineage, archive >>
    BY <1>1 DEF DiscoverPredecessor
  <2>2. pc \in Pcs /\ Bootstrap \in Openings /\ 0 \in 0..MaxRuns /\ pc # "write"
    BY BoundsAssumption DEF Pcs, Openings
  <2>3. /\ sessions'[s] = [pc |-> pc, month |-> m, opening |-> Bootstrap, run |-> 0, next |-> 1]
        /\ \A t \in Sessions \ {s} : sessions'[t] = sessions[t]
    BY <1>0, <2>1, <2>2, PrepareFields
  <2>4. contended \subseteq contended' /\ \A t \in Sessions : AtWorkOn(t, m) => m \in contended'
    BY <1>1 DEF DiscoverPredecessor
  <2> QED BY <1>0, <2>1, <2>2, <2>3, <2>4 DEF QuietStep, storageVars
<1>2. ASSUME NEW pc \in Pcs, NEW m \in Months, NEW opening \in Openings, NEW run \in 0..MaxRuns,
             Prepare(s, pc, m, opening, run), pc # "write",
             sessions[s].pc # "idle", m = sessions[s].month,
             artifacts' = artifacts, marker' = marker, contended' = contended,
             Len(lineage') \in Nat, Len(lineage) <= Len(lineage'),
             \A g \in 1..Len(lineage) : lineage'[g] = lineage[g]
      PROVE  QuietStep(s)
  <2>1. /\ sessions'[s] = [pc |-> pc, month |-> m, opening |-> opening, run |-> run, next |-> 1]
        /\ \A t \in Sessions \ {s} : sessions'[t] = sessions[t]
    BY <1>0, <1>2, PrepareFields
  <2> QED BY <1>2, <2>1 DEF QuietStep
<1>3. ASSUME LoadPredecessor(s) PROVE QuietStep(s)
  <2> DEFINE m == sessions[s].month
             opening == artifacts[m - 1]["lot-book"]
  <2>1. m \in Months /\ m - 1 \in Months
    BY <1>0, <1>3, BoundsAssumption DEF LoadPredecessor, At, TypeInv, SessionInv, Months
  <2>2. opening \in Openings
    <3>1. "lot-book" \in Kinds
      BY WriteOrderFacts DEF WriteOrder
    <3>2. artifacts \in [Months -> [Kinds -> Content]]
      BY StateFacts
    <3> QED BY <2>1, <3>1, <3>2 DEF Content, Openings
  <2>3. /\ Prepare(s, "prepared", m, opening, 0) /\ sessions[s].pc = "loading"
        /\ UNCHANGED << storageVars, lineage, archive, contended >>
    BY <1>3 DEF LoadPredecessor, At
  <2>4. "prepared" \in Pcs /\ 0 \in 0..MaxRuns
    BY BoundsAssumption DEF Pcs
  <2> QED BY <1>0, <1>2, <2>1, <2>2, <2>3, <2>4 DEF storageVars
<1>4. ASSUME RunPipeline(s) PROVE QuietStep(s)
  <2>1. PICK outcome \in Outcomes :
        lineage' = Append(lineage, [month |-> sessions[s].month,
                                    opening |-> sessions[s].opening,
                                    outcome |-> outcome])
    BY <1>4 DEF RunPipeline
  <2>2. Len(lineage') = Len(lineage) + 1 /\ \A g \in 1..Len(lineage) : lineage'[g] = lineage[g]
    BY <1>0, <2>1
  <2>3. Len(lineage) + 1 \in 0..MaxRuns /\ "archive" \in Pcs
    BY <1>0, <1>4, BoundsAssumption DEF RunPipeline, Pcs
  <2>4. /\ Prepare(s, "archive", sessions[s].month, sessions[s].opening, Len(lineage) + 1)
        /\ sessions[s].pc = "confirmed" /\ UNCHANGED << storageVars, archive, contended >>
    BY <1>4 DEF RunPipeline, At
  <2> QED BY <1>0, <1>2, <2>2, <2>3, <2>4 DEF storageVars
<1>5. ASSUME NEW pc \in Pcs, Goto(s, pc), pc # "write", sessions[s].pc # "idle",
             artifacts' = artifacts, marker' = marker, contended' = contended, lineage' = lineage
      PROVE  QuietStep(s)
  <2>1. /\ sessions'[s].pc = pc /\ sessions'[s].month = sessions[s].month
        /\ \A t \in Sessions \ {s} : sessions'[t] = sessions[t]
    BY <1>0, <1>5, GotoFields
  <2> QED BY <1>0, <1>5, <2>1 DEF QuietStep
<1>6. ASSUME PassGuard(s) PROVE QuietStep(s)
  BY <1>5, <1>6 DEF PassGuard, At, Pcs, storageVars
<1>7. ASSUME ArchiveTradeHistory(s) PROVE QuietStep(s)
  BY <1>5, <1>7 DEF ArchiveTradeHistory, At, Pcs, storageVars
<1>8. ASSUME CheckProtocol(s) PROVE QuietStep(s)
  <2> DEFINE pc == IF cutover = NoMonth THEN "cutover" ELSE "build"
  <2>1. pc \in Pcs /\ pc # "write" /\ Goto(s, pc) /\ sessions[s].pc # "idle"
    BY <1>8 DEF CheckProtocol, At, Pcs
  <2> QED BY <1>5, <1>8, <2>1 DEF CheckProtocol, storageVars
<1>9. ASSUME WriteProtocol(s) PROVE QuietStep(s)
  BY <1>5, <1>9 DEF WriteProtocol, WriteProtocolFile, At, Pcs
<1>10. ASSUME BuildGeneration(s) PROVE QuietStep(s)
  BY <1>5, <1>10 DEF BuildGeneration, At, Pcs, storageVars
<1>11. ASSUME sessions' = [sessions EXCEPT ![s] = Idle],
              artifacts' = artifacts, marker' = marker, contended' = contended, lineage' = lineage
       PROVE  QuietStep(s)
  <2>1. sessions'[s].pc = "idle" /\ \A t \in Sessions \ {s} : sessions'[t] = sessions[t]
    BY <1>0, <1>11, IdleFields
  <2> QED BY <1>0, <1>11, <2>1 DEF QuietStep
<1>12. ASSUME Fail(s) PROVE QuietStep(s)
  BY <1>11, <1>12 DEF Fail, storageVars
<1>13. ASSUME FailWhileArchiving(s) PROVE QuietStep(s)
  BY <1>11, <1>13 DEF FailWhileArchiving, storageVars
<1> QED
  BY <1>1, <1>3, <1>4, <1>6, <1>7, <1>8, <1>9, <1>10, <1>12, <1>13 DEF SessionStep

-----------------------------------------------------------------------------
(***************************************************************************)
(* Completeness.  The inductive part: a session at its i-th write has      *)
(* stored every mandatory payload before it, and no step ever removes one. *)
(***************************************************************************)
WrittenInv ==
  \A s \in Sessions : sessions[s].pc = "write" =>
    \A i \in 1..11 : i < sessions[s].next /\ WriteOrder[i] \notin Optional =>
      artifacts[sessions[s].month][WriteOrder[i]] # Missing

CompleteInv == WrittenInv /\ PublishedComplete

LEMMA MandatoryKept ==
  ASSUME TypeInv, [Next]_vars, NEW m \in Months, NEW k \in Kinds \ Optional,
         artifacts[m][k] # Missing
  PROVE  artifacts'[m][k] # Missing
<1>1. ASSUME NEW s \in Sessions, WriteArtifact(s) PROVE artifacts'[m][k] # Missing
  <2>1. sessions[s].run \in Nat /\ sessions[s].run # Missing
    BY <1>1, WriteArtifactEffect, StateFacts, ContentAssumption DEF RunPcs, Runs
  <2>2. Stored(sessions[s].run, k, artifacts[m][k]) = sessions[s].run
    BY DEF Stored, Payload, Produces, Optional
  <2> QED BY <1>1, <2>1, <2>2, WriteArtifactEffect
<1>2. ASSUME NEW s \in Sessions, SessionStep(s), ~WriteArtifact(s) PROVE artifacts' = artifacts
  <2>1. QuietStep(s) \/ Unpublish(s) \/ Publish(s)
    BY <1>2, StepCases
  <2> QED BY <2>1, UnpublishEffect, PublishEffect DEF QuietStep
<1>3. CASE UNCHANGED vars
  BY <1>3 DEF vars
<1> QED BY <1>1, <1>2, <1>3 DEF Next

LEMMA InitCompleteInv == Init => CompleteInv
BY DEF Init, StorageInit, Idle, CompleteInv, WrittenInv, PublishedComplete

LEMMA NextCompleteInv == TypeInv /\ CompleteInv /\ [Next]_vars => CompleteInv'
<1> SUFFICES ASSUME TypeInv, CompleteInv, [Next]_vars PROVE CompleteInv'
  OBVIOUS
<1>0. /\ \A t \in Sessions : sessions[t].month \in Months
      /\ marker \subseteq Months
      /\ \A i \in 1..11 : WriteOrder[i] \in Kinds
  BY StateFacts, WriteOrderFacts
\* A writing session keeps what it has written when it does not move.
<1>1. ASSUME NEW t \in Sessions, sessions'[t] = sessions[t], sessions'[t].pc = "write",
             NEW i \in 1..11, i < sessions'[t].next, WriteOrder[i] \notin Optional
      PROVE  artifacts'[sessions'[t].month][WriteOrder[i]] # Missing
  <2>1. artifacts[sessions[t].month][WriteOrder[i]] # Missing
    BY <1>1 DEF CompleteInv, WrittenInv
  <2> QED BY <1>0, <1>1, <2>1, MandatoryKept
<1>2. ASSUME NEW m \in marker, NEW k \in Kinds \ Optional
      PROVE  artifacts'[m][k] # Missing
  BY <1>0, <1>2, MandatoryKept DEF CompleteInv, PublishedComplete
<1>3. ASSUME NEW s \in Sessions, QuietStep(s) PROVE CompleteInv'
  <2>1. WrittenInv'
    BY <1>1, <1>3 DEF QuietStep, WrittenInv
  <2>2. PublishedComplete'
    BY <1>2, <1>3 DEF QuietStep, PublishedComplete
  <2> QED BY <2>1, <2>2 DEF CompleteInv
<1>4. ASSUME NEW s \in Sessions, Unpublish(s) PROVE CompleteInv'
  <2>1. WrittenInv'
    BY <1>1, <1>4, UnpublishEffect DEF WrittenInv
  <2>2. PublishedComplete'
    BY <1>2, <1>4, UnpublishEffect DEF PublishedComplete
  <2> QED BY <2>1, <2>2 DEF CompleteInv
<1>5. ASSUME NEW s \in Sessions, WriteArtifact(s) PROVE CompleteInv'
  <2>0. /\ sessions'[s].pc = "write" /\ sessions'[s].month = sessions[s].month
        /\ sessions'[s].next = sessions[s].next + 1 /\ sessions[s].next \in 1..11
        /\ sessions[s].pc = "write"
    BY <1>5, WriteArtifactEffect
  <2>1. WrittenInv'
    <3> SUFFICES ASSUME NEW t \in Sessions, sessions'[t].pc = "write",
                        NEW i \in 1..11, i < sessions'[t].next, WriteOrder[i] \notin Optional
                 PROVE  artifacts'[sessions'[t].month][WriteOrder[i]] # Missing
      BY DEF WrittenInv
    <3>1. CASE t # s
      BY <1>1, <1>5, <3>1, WriteArtifactEffect
    <3>2. CASE t = s /\ i < sessions[s].next
      <4>1. artifacts[sessions[s].month][WriteOrder[i]] # Missing
        BY <2>0, <3>2 DEF CompleteInv, WrittenInv
      <4> QED BY <1>0, <2>0, <3>2, <4>1, MandatoryKept
    <3>3. CASE t = s /\ i = sessions[s].next
      <4>1. artifacts'[sessions[s].month][WriteOrder[i]]
              = Stored(sessions[s].run, WriteOrder[i], artifacts[sessions[s].month][WriteOrder[i]])
        BY <1>5, <3>3, WriteArtifactEffect
      <4>2. sessions[s].run # Missing
        BY <2>0, StateFacts, ContentAssumption DEF RunPcs, Runs
      <4>3. Stored(sessions[s].run, WriteOrder[i], artifacts[sessions[s].month][WriteOrder[i]])
              = sessions[s].run
        BY DEF Stored, Payload, Produces, Optional
      <4> QED BY <2>0, <3>3, <4>1, <4>2, <4>3
    <3> QED BY <2>0, <3>1, <3>2, <3>3
  <2>2. PublishedComplete'
    BY <1>2, <1>5, WriteArtifactEffect DEF PublishedComplete
  <2> QED BY <2>1, <2>2 DEF CompleteInv
<1>6. ASSUME NEW s \in Sessions, Publish(s) PROVE CompleteInv'
  <2>1. WrittenInv'
    BY <1>1, <1>6, PublishEffect DEF WrittenInv
  <2>2. \A k \in Kinds \ Optional : artifacts[sessions[s].month][k] # Missing
    <3> SUFFICES ASSUME NEW k \in Kinds \ Optional
                 PROVE  artifacts[sessions[s].month][k] # Missing
      OBVIOUS
    <3>1. PICK i \in 1..11 : k = WriteOrder[i]
      BY WriteOrderFacts
    <3> QED BY <1>6, <3>1, PublishEffect DEF CompleteInv, WrittenInv
  <2>3. PublishedComplete'
    BY <1>2, <1>6, <2>2, PublishEffect DEF PublishedComplete
  <2> QED BY <2>1, <2>3 DEF CompleteInv
<1>7. CASE UNCHANGED vars
  BY <1>7 DEF vars, CompleteInv, WrittenInv, PublishedComplete
<1> QED BY <1>3, <1>4, <1>5, <1>6, <1>7, StepCases DEF Next

\* The readers of a marked month find every mandatory artifact, with any number
\* of sessions racing on it and whatever failed before.
THEOREM MarkedMonthsAreComplete == Spec => []PublishedComplete
<1>1. Spec => [](TypeInv /\ CompleteInv)
  BY InitTypeInv, NextTypeInv, InitCompleteInv, NextCompleteInv, PTL DEF Spec
<1>2. CompleteInv => PublishedComplete
  BY DEF CompleteInv
<1> QED BY <1>1, <1>2, PTL

-----------------------------------------------------------------------------
(***************************************************************************)
(* Wholeness.  Two sessions on one month have recorded their contention;   *)
(* on an uncontended month the writing session has hidden the marker and   *)
(* stored its own payloads so far, so it publishes one whole generation.   *)
(***************************************************************************)
ExclusiveInv ==
  \A s, t \in Sessions :
    s # t /\ sessions[s].pc # "idle" /\ sessions[t].pc # "idle"
      /\ sessions[s].month = sessions[t].month => sessions[s].month \in contended

WrittenSoFar(s) ==
  \A i \in 1..11 : i < sessions[s].next /\ WriteOrder[i] # "audit" =>
    artifacts[sessions[s].month][WriteOrder[i]] = Payload(sessions[s].run, WriteOrder[i])

Writing(s) == sessions[s].pc = "write" /\ sessions[s].month \notin contended

WritingInv ==
  \A s \in Sessions :
    Writing(s) => sessions[s].month \notin marker /\ WrittenSoFar(s)

WholeInv == ExclusiveInv /\ WritingInv /\ PublishedWhole

LEMMA InitWholeInv == Init => WholeInv
BY DEF Init, StorageInit, Idle, WholeInv, ExclusiveInv, WritingInv, Writing, PublishedWhole

LEMMA NextExclusiveInv == TypeInv /\ ExclusiveInv /\ [Next]_vars => ExclusiveInv'
<1> SUFFICES ASSUME TypeInv, ExclusiveInv, [Next]_vars PROVE ExclusiveInv'
  OBVIOUS
<1>1. ASSUME NEW s \in Sessions, QuietStep(s) PROVE ExclusiveInv'
  <2> SUFFICES ASSUME NEW t \in Sessions, t # s,
                      sessions'[s].pc # "idle", sessions'[t].pc # "idle",
                      sessions'[s].month = sessions'[t].month
               PROVE  sessions'[s].month \in contended'
    BY <1>1 DEF QuietStep, ExclusiveInv
  <2>1. sessions'[t] = sessions[t]
    BY <1>1 DEF QuietStep
  <2>2. CASE sessions[s].pc # "idle" /\ sessions'[s].month = sessions[s].month
    BY <1>1, <2>1, <2>2 DEF QuietStep, ExclusiveInv
  <2>3. CASE AtWorkOn(t, sessions'[s].month) => sessions'[s].month \in contended'
    BY <2>1, <2>3 DEF AtWorkOn, At
  <2> QED BY <1>1, <2>2, <2>3 DEF QuietStep
<1>2. ASSUME NEW s \in Sessions, Unpublish(s) PROVE ExclusiveInv'
  BY <1>2, UnpublishEffect DEF ExclusiveInv
<1>3. ASSUME NEW s \in Sessions, WriteArtifact(s) PROVE ExclusiveInv'
  BY <1>3, WriteArtifactEffect DEF ExclusiveInv
<1>4. ASSUME NEW s \in Sessions, Publish(s) PROVE ExclusiveInv'
  BY <1>4, PublishEffect DEF ExclusiveInv
<1>5. CASE UNCHANGED vars
  BY <1>5 DEF vars, ExclusiveInv
<1> QED BY <1>1, <1>2, <1>3, <1>4, <1>5, StepCases DEF Next

\* The outcome of a recorded run never changes.
LEMMA PayloadKept ==
  ASSUME TypeInv, [Next]_vars, NEW g \in 1..Len(lineage), NEW k
  PROVE  /\ g \in 1..Len(lineage') /\ lineage'[g] = lineage[g]
         /\ Payload(g, k)' = Payload(g, k)
<1>1. Len(lineage) \in Nat
  BY StateFacts, BoundsAssumption
<1>2. g \in 1..Len(lineage') /\ lineage'[g] = lineage[g]
  <2>1. ASSUME NEW s \in Sessions, QuietStep(s)
        PROVE  g \in 1..Len(lineage') /\ lineage'[g] = lineage[g]
    BY <1>1, <2>1 DEF QuietStep
  <2>2. ASSUME NEW s \in Sessions, Unpublish(s) \/ WriteArtifact(s) \/ Publish(s)
        PROVE  lineage' = lineage
    BY <2>2, UnpublishEffect, WriteArtifactEffect, PublishEffect
  <2>3. CASE UNCHANGED vars
    BY <2>3 DEF vars
  <2> QED BY <2>1, <2>2, <2>3, StepCases DEF Next
<1> QED BY <1>2 DEF Payload, Produces

LEMMA NextWritingInv == TypeInv /\ ExclusiveInv /\ WritingInv /\ [Next]_vars => WritingInv'
<1> SUFFICES ASSUME TypeInv, ExclusiveInv, WritingInv, [Next]_vars PROVE WritingInv'
  OBVIOUS
<1>0. /\ \A t \in Sessions : sessions[t].month \in Months
      /\ \A t \in Sessions : sessions[t].pc = "write" => sessions[t].run \in 1..Len(lineage)
      /\ \A i \in 1..11 : WriteOrder[i] \in Kinds
      /\ marker \subseteq Months
  BY StateFacts, WriteOrderFacts DEF RunPcs
\* A session that does not move keeps what it has written.
<1>1. ASSUME NEW t \in Sessions, sessions'[t] = sessions[t], Writing(t)',
             contended \subseteq contended',
             \A k \in Kinds : artifacts'[sessions[t].month][k] = artifacts[sessions[t].month][k],
             sessions[t].month \in marker' => sessions[t].month \in marker
      PROVE  sessions'[t].month \notin marker' /\ WrittenSoFar(t)'
  <2>1. Writing(t)
    BY <1>1 DEF Writing
  <2>2. sessions[t].run \in 1..Len(lineage)
    BY <1>0, <2>1 DEF Writing
  <2>3. \A i \in 1..11 : Payload(sessions[t].run, WriteOrder[i])'
                           = Payload(sessions[t].run, WriteOrder[i])
    BY <1>1, <2>2, PayloadKept, ZenonT(60) DEF Payload, Produces
  <2>4. WrittenSoFar(t)'
    BY <1>0, <1>1, <2>1, <2>3 DEF WritingInv, WrittenSoFar
  <2> QED BY <1>1, <2>1, <2>4 DEF WritingInv
\* On an uncontended month nobody else is at work.
<1>2. ASSUME NEW s \in Sessions, NEW t \in Sessions, s # t, sessions[s].pc # "idle",
             sessions'[t] = sessions[t], contended' = contended, Writing(t)'
      PROVE  sessions[t].month # sessions[s].month
  BY <1>2 DEF ExclusiveInv, Writing
<1>3. ASSUME NEW s \in Sessions, QuietStep(s) PROVE WritingInv'
  <2> SUFFICES ASSUME NEW t \in Sessions, Writing(t)'
               PROVE  sessions'[t].month \notin marker' /\ WrittenSoFar(t)'
    BY DEF WritingInv
  <2>1. t # s /\ sessions'[t] = sessions[t]
    BY <1>3 DEF QuietStep, Writing
  <2> QED BY <1>1, <1>3, <2>1 DEF QuietStep
<1>4. ASSUME NEW s \in Sessions, Unpublish(s) PROVE WritingInv'
  <2> SUFFICES ASSUME NEW t \in Sessions, Writing(t)'
               PROVE  sessions'[t].month \notin marker' /\ WrittenSoFar(t)'
    BY DEF WritingInv
  <2>1. CASE t = s
    <3>1. sessions'[s].next = 1 /\ sessions'[s].month \notin marker'
      BY <1>4, UnpublishEffect
    <3> QED BY <2>1, <3>1 DEF WrittenSoFar
  <2>2. CASE t # s
    BY <1>1, <1>4, <2>2, UnpublishEffect
  <2> QED BY <2>1, <2>2
<1>5. ASSUME NEW s \in Sessions, WriteArtifact(s) PROVE WritingInv'
  <2> SUFFICES ASSUME NEW t \in Sessions, Writing(t)'
               PROVE  sessions'[t].month \notin marker' /\ WrittenSoFar(t)'
    BY DEF WritingInv
  <2> DEFINE m == sessions[s].month
             k == WriteOrder[sessions[s].next]
  <2>0. /\ sessions[s].pc = "write" /\ sessions[s].next \in 1..11
        /\ m \in Months /\ k \in Kinds
        /\ artifacts'[m][k] = Stored(sessions[s].run, k, artifacts[m][k])
        /\ \A n \in Months : \A j \in Kinds :
             (n # m \/ j # k) => artifacts'[n][j] = artifacts[n][j]
        /\ sessions'[s].pc = "write" /\ sessions'[s].month = m
        /\ sessions'[s].run = sessions[s].run
        /\ sessions'[s].next = sessions[s].next + 1
        /\ \A u \in Sessions \ {s} : sessions'[u] = sessions[u]
        /\ marker' = marker /\ lineage' = lineage /\ contended' = contended
    BY <1>5, WriteArtifactEffect
  <2>1. CASE t = s
    <3>1. Writing(s)
      BY <2>0, <2>1 DEF Writing
    <3>2. m \notin marker' /\ WrittenSoFar(s)
      BY <2>0, <3>1 DEF WritingInv
    <3>3. ASSUME NEW i \in 1..11, i < sessions[s].next, WriteOrder[i] # "audit"
          PROVE  artifacts'[m][WriteOrder[i]] = Payload(sessions[s].run, WriteOrder[i])
      <4>1. WriteOrder[i] # k
        BY <2>0, <3>3, WriteOrderFacts
      <4> QED BY <1>0, <2>0, <3>2, <3>3, <4>1 DEF WrittenSoFar
    <3>4. k # "audit" => artifacts'[m][k] = Payload(sessions[s].run, k)
      BY <2>0 DEF Stored
    <3>5. \A i \in 1..11 : i < sessions'[s].next => i < sessions[s].next \/ i = sessions[s].next
      BY <2>0
    <3>6. WrittenSoFar(s)'
      BY <2>0, <3>3, <3>4, <3>5, ZenonT(60) DEF WrittenSoFar, Payload, Produces
    <3> QED BY <2>0, <2>1, <3>2, <3>6
  <2>2. CASE t # s
    <3>1. sessions[t].month # m
      BY <1>2, <2>0, <2>2
    <3> QED BY <1>0, <1>1, <2>0, <2>2, <3>1
  <2> QED BY <2>1, <2>2
<1>6. ASSUME NEW s \in Sessions, Publish(s) PROVE WritingInv'
  <2> SUFFICES ASSUME NEW t \in Sessions, Writing(t)'
               PROVE  sessions'[t].month \notin marker' /\ WrittenSoFar(t)'
    BY DEF WritingInv
  <2>0. /\ sessions[s].pc = "write" /\ sessions'[s].pc = "idle"
        /\ marker' = marker \cup {sessions[s].month}
        /\ \A u \in Sessions \ {s} : sessions'[u] = sessions[u]
        /\ artifacts' = artifacts /\ contended' = contended
    BY <1>6, PublishEffect
  <2>1. t # s
    BY <2>0 DEF Writing
  <2>2. sessions[t].month # sessions[s].month
    BY <1>2, <2>0, <2>1
  <2> QED BY <1>1, <2>0, <2>1, <2>2
<1>7. CASE UNCHANGED vars
  BY <1>7 DEF vars, WritingInv, Writing, WrittenSoFar, Payload, Produces
<1> QED BY <1>3, <1>4, <1>5, <1>6, <1>7, StepCases DEF Next

LEMMA NextPublishedWhole ==
  TypeInv /\ ExclusiveInv /\ WritingInv /\ PublishedWhole /\ [Next]_vars => PublishedWhole'
<1> SUFFICES ASSUME TypeInv, ExclusiveInv, WritingInv, PublishedWhole, [Next]_vars
             PROVE  PublishedWhole'
  OBVIOUS
<1>0. /\ marker \subseteq Months /\ Len(lineage) \in Nat
      /\ \A i \in 1..11 : WriteOrder[i] \in Kinds
  BY StateFacts, WriteOrderFacts, BoundsAssumption
\* A whole month that nobody touches stays whole.
<1>1. ASSUME NEW m \in marker, m \notin contended,
             \A k \in Kinds : artifacts'[m][k] = artifacts[m][k]
      PROVE  WholeGeneration(m)'
  <2>1. PICK g \in 1..Len(lineage) :
          /\ lineage[g].month = m
          /\ \A k \in Kinds \ {"audit"} : artifacts[m][k] = Payload(g, k)
    BY <1>1 DEF PublishedWhole, WholeGeneration
  <2>2. /\ g \in 1..Len(lineage') /\ lineage'[g] = lineage[g]
        /\ \A k \in Kinds : Payload(g, k)' = Payload(g, k)
    BY PayloadKept
  <2> QED BY <1>1, <2>1, <2>2 DEF WholeGeneration
<1>2. ASSUME NEW s \in Sessions, QuietStep(s) PROVE PublishedWhole'
  BY <1>1, <1>2 DEF QuietStep, PublishedWhole
<1>3. ASSUME NEW s \in Sessions, Unpublish(s) PROVE PublishedWhole'
  BY <1>1, <1>3, UnpublishEffect DEF PublishedWhole
<1>4. ASSUME NEW s \in Sessions, WriteArtifact(s) PROVE PublishedWhole'
  <2>1. /\ sessions[s].pc = "write" /\ marker' = marker /\ contended' = contended
        /\ \A n \in Months : \A j \in Kinds :
             n # sessions[s].month => artifacts'[n][j] = artifacts[n][j]
    BY <1>4, WriteArtifactEffect
  <2>2. \A m \in marker \ contended : m # sessions[s].month
    BY <2>1 DEF WritingInv, Writing
  <2> QED BY <1>0, <1>1, <2>1, <2>2 DEF PublishedWhole
<1>5. ASSUME NEW s \in Sessions, Publish(s) PROVE PublishedWhole'
  <2> PICK m \in Months : m = sessions[s].month
    BY StateFacts
  <2>0. /\ sessions[s].pc = "write" /\ sessions[s].next = 12
        /\ marker' = marker \cup {m} /\ UNCHANGED << artifacts, lineage, contended >>
    BY <1>5, PublishEffect
  <2>1. sessions[s].run \in 1..Len(lineage) /\ lineage[sessions[s].run].month = m
    BY <2>0, StateFacts DEF RunPcs
  <2>2. ASSUME m \notin contended PROVE WholeGeneration(m)'
    <3>1. WrittenSoFar(s)
      BY <2>0, <2>2 DEF WritingInv, Writing
    <3>2. \A k \in Kinds \ {"audit"} : artifacts[m][k] = Payload(sessions[s].run, k)
      <4> SUFFICES ASSUME NEW k \in Kinds \ {"audit"}
                   PROVE  artifacts[m][k] = Payload(sessions[s].run, k)
        OBVIOUS
      <4>1. PICK i \in 1..11 : k = WriteOrder[i]
        BY WriteOrderFacts
      <4> QED BY <2>0, <3>1, <4>1 DEF WrittenSoFar
    <3>3. WholeGeneration(m)
      BY <2>1, <3>2 DEF WholeGeneration
    <3> QED BY <2>0, <3>3 DEF WholeGeneration, Payload, Produces
  <2> QED BY <1>1, <2>0, <2>2 DEF PublishedWhole
<1>6. CASE UNCHANGED vars
  BY <1>6 DEF vars, PublishedWhole, WholeGeneration, Payload, Produces
<1> QED BY <1>2, <1>3, <1>4, <1>5, <1>6, StepCases DEF Next

\* A marked month that no two sessions were at work on at once holds the
\* payloads of one run of that month, through every crash, retry and rerun.
THEOREM UncontendedMonthsAreWhole == Spec => []PublishedWhole
<1>1. TypeInv /\ WholeInv /\ [Next]_vars => WholeInv'
  BY NextExclusiveInv, NextWritingInv, NextPublishedWhole DEF WholeInv
<1>2. Spec => [](TypeInv /\ WholeInv)
  BY InitTypeInv, NextTypeInv, InitWholeInv, <1>1, PTL DEF Spec
<1>3. WholeInv => PublishedWhole
  BY DEF WholeInv
<1> QED BY <1>2, <1>3, PTL

-----------------------------------------------------------------------------
(* One session at a time, behind the guard. *)

OneWizard == Wizards = Sessions /\ \A s, t \in Sessions : s = t

Archived == {"protocol", "cutover", "build", "unpublish", "write"}
Guarded == {"confirmed", "archive"} \cup Archived

\* Behind the guard a session's month carries no marker; behind the archiving
\* the archive is its own; the cutover is written once, before the writes.
GuardedSession(s) ==
  /\ sessions[s].pc \in Guarded => sessions[s].month \notin marker
  /\ sessions[s].pc \in Archived => archive[sessions[s].month] = sessions[s].run
  /\ sessions[s].pc = "cutover" => cutover = NoMonth
  /\ sessions[s].pc \in {"build", "unpublish", "write"} => cutover # NoMonth

WizardInv ==
  /\ contended = {}
  /\ cutover = NoMonth => marker = {}
  /\ ArchiveMatchesProvenance
  /\ \A s \in Sessions : GuardedSession(s)

Inv == TypeInv /\ CompleteInv /\ WholeInv /\ WizardInv

-----------------------------------------------------------------------------
\* Where one step of a session leaves it, when it neither ends nor writes.
LEMMA Proceeds ==
  ASSUME TypeInv, NEW s \in Sessions, SessionStep(s),
         ~(\E m \in Months : DiscoverPredecessor(s, m)),
         ~Fail(s), ~FailWhileArchiving(s), ~Publish(s)
  PROVE  /\ sessions[s].pc # "idle" /\ sessions'[s].pc # "idle"
         /\ sessions'[s].month = sessions[s].month
         /\ \/ LoadPredecessor(s) /\ sessions'[s].pc = "prepared"
                 /\ sessions'[s].opening = artifacts[sessions[s].month - 1]["lot-book"]
            \/ /\ sessions'[s].opening = sessions[s].opening
               /\ \/ PassGuard(s) /\ sessions'[s].pc = "confirmed"
                  \/ /\ RunPipeline(s) /\ sessions'[s].pc = "archive"
                     /\ sessions'[s].run = Len(lineage) + 1
                  \/ /\ sessions'[s].run = sessions[s].run
                     /\ \/ ArchiveTradeHistory(s) /\ sessions'[s].pc = "protocol"
                        \/ /\ CheckProtocol(s)
                           /\ sessions'[s].pc = IF cutover = NoMonth THEN "cutover" ELSE "build"
                        \/ WriteProtocol(s) /\ sessions'[s].pc = "build"
                        \/ BuildGeneration(s) /\ sessions'[s].pc = "unpublish"
                        \/ Unpublish(s) /\ sessions'[s].pc = "write"
                        \/ WriteArtifact(s) /\ sessions'[s].pc = "write"
<1>0. /\ sessions \in [Sessions -> SessionRecords] /\ Len(lineage) \in 0..MaxRuns
      /\ artifacts \in [Months -> [Kinds -> Content]] /\ "lot-book" \in Kinds
      /\ sessions[s].month \in Months /\ sessions[s].opening \in Openings
      /\ 0 \in 0..MaxRuns /\ MaxRuns \in Nat
  BY StateFacts, WriteOrderFacts, BoundsAssumption DEF WriteOrder
<1>1. ASSUME LoadPredecessor(s)
      PROVE  /\ sessions[s].pc = "loading" /\ sessions'[s].pc = "prepared"
             /\ sessions'[s].month = sessions[s].month
             /\ sessions'[s].opening = artifacts[sessions[s].month - 1]["lot-book"]
  <2> DEFINE m == sessions[s].month
             opening == artifacts[m - 1]["lot-book"]
  <2>1. m \in Months /\ m - 1 \in Months
    BY <1>0, <1>1, BoundsAssumption DEF LoadPredecessor, At, TypeInv, SessionInv, Months
  <2>2. opening \in Openings
    BY <1>0, <2>1 DEF Content, Openings
  <2>3. "prepared" \in Pcs /\ Prepare(s, "prepared", m, opening, 0) /\ sessions[s].pc = "loading"
    BY <1>1 DEF LoadPredecessor, Pcs, At
  <2> HIDE DEF m, opening
  <2>4. sessions'[s] = [pc |-> "prepared", month |-> m, opening |-> opening, run |-> 0, next |-> 1]
    BY <1>0, <2>1, <2>2, <2>3, PrepareFields
  <2> QED BY <2>3, <2>4 DEF m, opening
<1>2. ASSUME RunPipeline(s)
      PROVE  /\ sessions[s].pc = "confirmed" /\ sessions'[s].pc = "archive"
             /\ sessions'[s].month = sessions[s].month
             /\ sessions'[s].opening = sessions[s].opening
             /\ sessions'[s].run = Len(lineage) + 1
  <2>1. /\ Prepare(s, "archive", sessions[s].month, sessions[s].opening, Len(lineage) + 1)
        /\ sessions[s].pc = "confirmed" /\ Len(lineage) + 1 \in 0..MaxRuns /\ "archive" \in Pcs
    BY <1>0, <1>2 DEF RunPipeline, At, Pcs
  <2>2. sessions'[s] = [pc |-> "archive", month |-> sessions[s].month,
                        opening |-> sessions[s].opening, run |-> Len(lineage) + 1, next |-> 1]
    BY <1>0, <2>1, PrepareFields
  <2> QED BY <2>1, <2>2
<1>3. ASSUME NEW pc \in Pcs, Goto(s, pc)
      PROVE  /\ sessions'[s].pc = pc /\ sessions'[s].month = sessions[s].month
             /\ sessions'[s].opening = sessions[s].opening /\ sessions'[s].run = sessions[s].run
  BY <1>0, <1>3, GotoFields
<1>4. CASE PassGuard(s)
  <2>1. Goto(s, "confirmed") /\ "confirmed" \in Pcs /\ sessions[s].pc = "prepared"
    BY <1>4 DEF PassGuard, Pcs, At
  <2> QED BY <1>3, <1>4, <2>1
<1>5. CASE ArchiveTradeHistory(s)
  <2>1. Goto(s, "protocol") /\ "protocol" \in Pcs /\ sessions[s].pc = "archive"
    BY <1>5 DEF ArchiveTradeHistory, Pcs, At
  <2> QED BY <1>3, <1>5, <2>1
<1>6. CASE CheckProtocol(s)
  <2> DEFINE pc == IF cutover = NoMonth THEN "cutover" ELSE "build"
  <2>1. Goto(s, pc) /\ pc \in Pcs /\ sessions[s].pc = "protocol" /\ pc # "idle"
    BY <1>6 DEF CheckProtocol, Pcs, At
  <2> QED BY <1>3, <1>6, <2>1
<1>7. CASE WriteProtocol(s)
  <2>1. Goto(s, "build") /\ "build" \in Pcs /\ sessions[s].pc = "cutover"
    BY <1>7 DEF WriteProtocol, Pcs, At
  <2> QED BY <1>3, <1>7, <2>1
<1>8. CASE BuildGeneration(s)
  <2>1. Goto(s, "unpublish") /\ "unpublish" \in Pcs /\ sessions[s].pc = "build"
    BY <1>8 DEF BuildGeneration, Pcs, At
  <2> QED BY <1>3, <1>8, <2>1
<1>9. CASE Unpublish(s)
  <2>1. Goto(s, "write") /\ "write" \in Pcs /\ sessions[s].pc = "unpublish"
    BY <1>9 DEF Unpublish, Pcs, At
  <2> QED BY <1>3, <1>9, <2>1
<1>10. CASE WriteArtifact(s)
  <2>1. Advance(s) /\ sessions[s].pc = "write"
    BY <1>10 DEF WriteArtifact, At
  <2>2. /\ sessions'[s].pc = "write" /\ sessions'[s].month = sessions[s].month
        /\ sessions'[s].opening = sessions[s].opening /\ sessions'[s].run = sessions[s].run
    BY <1>0, <2>1 DEF Advance, SessionRecords
  <2> QED BY <1>10, <2>1, <2>2
<1>11. CASE LoadPredecessor(s)
  BY <1>1, <1>11
<1>12. CASE RunPipeline(s)
  BY <1>2, <1>12
<1> QED
  BY <1>4, <1>5, <1>6, <1>7, <1>8, <1>9, <1>10, <1>11, <1>12 DEF SessionStep

\* Where a session stands that starts or ends.
LEMMA StartsOrEnds ==
  ASSUME TypeInv, NEW s \in Sessions,
         \/ \E m \in Months : DiscoverPredecessor(s, m)
         \/ Fail(s) \/ FailWhileArchiving(s) \/ Publish(s)
  PROVE  /\ sessions'[s].pc \in {"idle", "loading", "prepared"}
         /\ sessions'[s].pc # "idle" =>
              \E m \in Months :
                /\ DiscoverPredecessor(s, m)
                /\ sessions'[s].month = m /\ sessions'[s].opening = Bootstrap
                /\ sessions'[s].pc = IF HasPredecessor(m) THEN "loading" ELSE "prepared"
<1>0. sessions \in [Sessions -> SessionRecords]
  BY StateFacts
<1>1. ASSUME NEW m \in Months, DiscoverPredecessor(s, m)
      PROVE  /\ sessions'[s].month = m /\ sessions'[s].opening = Bootstrap
             /\ sessions'[s].pc = IF HasPredecessor(m) THEN "loading" ELSE "prepared"
  <2> DEFINE pc == IF HasPredecessor(m) THEN "loading" ELSE "prepared"
  <2>1. Prepare(s, pc, m, Bootstrap, 0)
    BY <1>1 DEF DiscoverPredecessor
  <2>2. pc \in Pcs /\ Bootstrap \in Openings /\ 0 \in 0..MaxRuns
    BY BoundsAssumption DEF Pcs, Openings
  <2> HIDE DEF pc
  <2>3. sessions'[s] = [pc |-> pc, month |-> m, opening |-> Bootstrap, run |-> 0, next |-> 1]
    BY <1>0, <2>1, <2>2, PrepareFields
  <2> QED BY <2>3 DEF pc
<1>2. ASSUME Fail(s) \/ FailWhileArchiving(s) \/ Publish(s) PROVE sessions'[s].pc = "idle"
  BY <1>0, <1>2, IdleFields DEF Fail, FailWhileArchiving, Publish
<1> QED BY <1>1, <1>2

-----------------------------------------------------------------------------
LEMMA InitWizardInv == Init => WizardInv
BY DEF Init, StorageInit, Idle, WizardInv, GuardedSession, Guarded, Archived, ArchiveMatchesProvenance

\* A month with its marker blocks the guard.
LEMMA MarkedBlocks ==
  ASSUME TypeInv, CompleteInv, NEW m \in marker
  PROVE  BackfillBlocked(m)
<1>1. m \in Months /\ m >= m
  BY StateFacts DEF Months
<1>2. "lot-book" \in Kinds \ Optional
  BY WriteOrderFacts DEF WriteOrder, Optional
<1>3. m \in AuthoritativePeriods
  BY <1>1, <1>2 DEF CompleteInv, PublishedComplete, AuthoritativePeriods, Exists, IsMonthPublished
<1> QED BY <1>1, <1>3 DEF BackfillBlocked

\* What a session publishes carries the archive's provenance.
LEMMA PublishedArchive ==
  ASSUME Inv, NEW s \in Sessions, Publish(s)
  PROVE  archive[sessions[s].month] = artifacts[sessions[s].month]["provenance"]
<1>1. sessions[s].pc = "write" /\ sessions[s].next = 12
  BY PublishEffect DEF Inv
<1>2. WrittenSoFar(s)
  BY <1>1 DEF Inv, WizardInv, WholeInv, WritingInv, Writing
<1>3. 7 \in 1..11 /\ WriteOrder[7] = "provenance" /\ 7 < 12
  BY DEF WriteOrder
<1>4. artifacts[sessions[s].month]["provenance"] = Payload(sessions[s].run, "provenance")
  BY <1>1, <1>2, <1>3 DEF WrittenSoFar
<1>5. Payload(sessions[s].run, "provenance") = sessions[s].run
  BY DEF Payload, Produces
<1> QED BY <1>1, <1>4, <1>5 DEF Inv, WizardInv, GuardedSession, Archived

LEMMA NextWizardInv ==
  ASSUME OneWizard, Inv, [Next]_vars
  PROVE  WizardInv'
<1>0. /\ TypeInv /\ CompleteInv /\ marker \subseteq Months
      /\ archive \in [Months -> Runs \cup {Missing, Torn}]
  BY DEF Inv, TypeInv, TypeOK, StorageTypeOK
<1> DEFINE Kept == /\ contended' = {}
                   /\ cutover' = NoMonth => marker' = {}
                   /\ ArchiveMatchesProvenance'
<1>1. ASSUME NEW s \in Sessions, Kept, GuardedSession(s)' PROVE WizardInv'
  BY <1>1 DEF OneWizard, WizardInv
<1>2. ASSUME NEW s \in Sessions,
             UNCHANGED << artifacts, cutover, marker, archive, contended >>
      PROVE  Kept
  BY <1>2 DEF Inv, WizardInv, ArchiveMatchesProvenance
<1>3. ASSUME NEW s \in Sessions, sessions'[s].pc \in {"idle", "loading", "prepared"}
      PROVE  GuardedSession(s)'
  BY <1>3 DEF GuardedSession, Guarded, Archived
<1>4. ASSUME NEW s \in Sessions, NEW m \in Months, DiscoverPredecessor(s, m) PROVE WizardInv'
  <2>1. ~(\E t \in Sessions : AtWorkOn(t, m))
    BY <1>4 DEF DiscoverPredecessor, OneWizard, AtWorkOn, At
  <2>2. Kept
    BY <1>2, <1>4, <2>1 DEF DiscoverPredecessor, storageVars
  <2>3. GuardedSession(s)'
    BY <1>0, <1>3, <1>4, StartsOrEnds
  <2> QED BY <1>1, <2>2, <2>3
<1>5. ASSUME NEW s \in Sessions, Fail(s) PROVE WizardInv'
  <2>1. Kept
    BY <1>2, <1>5 DEF Fail, storageVars
  <2> QED BY <1>0, <1>1, <1>3, <1>5, <2>1, StartsOrEnds
<1>6. ASSUME NEW s \in Sessions, FailWhileArchiving(s) PROVE WizardInv'
  <2>1. /\ sessions[s].month \notin marker
        /\ archive' = [archive EXCEPT ![sessions[s].month] = Torn]
        /\ UNCHANGED << artifacts, cutover, marker, contended >>
    BY <1>6 DEF FailWhileArchiving, At, Inv, WizardInv, GuardedSession, Guarded, storageVars
  <2>2. \A m \in marker : archive'[m] = archive[m]
    BY <1>0, <2>1
  <2>3. Kept
    BY <2>1, <2>2 DEF Inv, WizardInv, ArchiveMatchesProvenance
  <2> QED BY <1>0, <1>1, <1>3, <1>6, <2>3, StartsOrEnds
<1>7. ASSUME NEW s \in Sessions, Publish(s) PROVE WizardInv'
  <2>1. /\ marker' = marker \cup {sessions[s].month} /\ sessions[s].pc = "write"
        /\ UNCHANGED << artifacts, cutover, archive, contended >>
    BY <1>0, <1>7, PublishEffect
  <2>2. cutover # NoMonth
    BY <2>1 DEF Inv, WizardInv, GuardedSession
  <2>3. Kept
    BY <1>7, <2>1, <2>2, PublishedArchive DEF Inv, WizardInv, ArchiveMatchesProvenance
  <2> QED BY <1>0, <1>1, <1>3, <1>7, <2>3, StartsOrEnds
<1>8. ASSUME NEW s \in Sessions, SessionStep(s),
             ~(\E m \in Months : DiscoverPredecessor(s, m)),
             ~Fail(s), ~FailWhileArchiving(s), ~Publish(s)
      PROVE  WizardInv'
  <2>0. sessions'[s].month = sessions[s].month /\ sessions[s].month \in Months
    BY <1>0, <1>8, Proceeds, StateFacts
  <2>1. CASE LoadPredecessor(s) /\ sessions'[s].pc = "prepared"
    <3>1. Kept
      BY <1>2, <2>1 DEF LoadPredecessor, storageVars
    <3> QED BY <1>1, <1>3, <2>1, <3>1
  <2>2. CASE PassGuard(s) /\ sessions'[s].pc = "confirmed"
    <3>1. Kept /\ marker' = marker
      BY <1>2, <2>2 DEF PassGuard, storageVars
    <3>2. sessions[s].month \notin marker
      BY <1>0, <2>2, MarkedBlocks DEF PassGuard, OneWizard
    <3>3. GuardedSession(s)'
      BY <2>0, <2>2, <3>1, <3>2 DEF GuardedSession, Archived
    <3> QED BY <1>1, <3>1, <3>3
  <2>3. CASE RunPipeline(s) /\ sessions'[s].pc = "archive"
    <3>1. Kept /\ marker' = marker /\ sessions[s].pc = "confirmed"
      BY <1>2, <2>3 DEF RunPipeline, storageVars, At
    <3>2. GuardedSession(s)'
      BY <2>0, <2>3, <3>1 DEF GuardedSession, Guarded, Archived, Inv, WizardInv
    <3> QED BY <1>1, <3>1, <3>2
  <2>4. CASE ArchiveTradeHistory(s) /\ sessions'[s].pc = "protocol" /\ sessions'[s].run = sessions[s].run
    <3>1. /\ archive' = [archive EXCEPT ![sessions[s].month] = sessions[s].run]
          /\ UNCHANGED << artifacts, cutover, marker, contended >> /\ sessions[s].pc = "archive"
      BY <2>4 DEF ArchiveTradeHistory, storageVars, At
    <3>2. sessions[s].month \notin marker
      BY <3>1 DEF GuardedSession, Guarded, Inv, WizardInv
    <3>3. archive'[sessions[s].month] = sessions[s].run /\ \A m \in marker : archive'[m] = archive[m]
      BY <1>0, <2>0, <3>1, <3>2
    <3>4. Kept
      BY <3>1, <3>3 DEF Inv, WizardInv, ArchiveMatchesProvenance
    <3>5. GuardedSession(s)'
      BY <2>0, <2>4, <3>1, <3>2, <3>3 DEF GuardedSession
    <3> QED BY <1>1, <3>4, <3>5
  <2>5. CASE /\ CheckProtocol(s) /\ sessions'[s].run = sessions[s].run
             /\ sessions'[s].pc = IF cutover = NoMonth THEN "cutover" ELSE "build"
    <3>1. Kept /\ UNCHANGED << cutover, marker, archive >> /\ sessions[s].pc = "protocol"
      BY <1>2, <2>5 DEF CheckProtocol, storageVars, At
    <3>2. GuardedSession(s)'
      BY <2>0, <2>5, <3>1 DEF GuardedSession, Guarded, Archived, Inv, WizardInv
    <3> QED BY <1>1, <3>1, <3>2
  <2>6. CASE WriteProtocol(s) /\ sessions'[s].pc = "build" /\ sessions'[s].run = sessions[s].run
    <3>1. /\ cutover' = sessions[s].month /\ sessions[s].pc = "cutover"
          /\ UNCHANGED << artifacts, marker, archive, contended >>
      BY <2>6 DEF WriteProtocol, WriteProtocolFile, At
    <3>2. cutover' # NoMonth
      BY <2>0, <3>1, BoundsAssumption DEF Months, NoMonth
    <3>3. Kept
      BY <3>1, <3>2 DEF Inv, WizardInv, ArchiveMatchesProvenance
    <3>4. GuardedSession(s)'
      BY <2>0, <2>6, <3>1, <3>2 DEF GuardedSession, Guarded, Archived, Inv, WizardInv
    <3> QED BY <1>1, <3>3, <3>4
  <2>7. CASE BuildGeneration(s) /\ sessions'[s].pc = "unpublish" /\ sessions'[s].run = sessions[s].run
    <3>1. Kept /\ UNCHANGED << cutover, marker, archive >> /\ sessions[s].pc = "build"
      BY <1>2, <2>7 DEF BuildGeneration, storageVars, At
    <3>2. GuardedSession(s)'
      BY <2>0, <2>7, <3>1 DEF GuardedSession, Guarded, Archived, Inv, WizardInv
    <3> QED BY <1>1, <3>1, <3>2
  <2>8. CASE Unpublish(s) /\ sessions'[s].pc = "write" /\ sessions'[s].run = sessions[s].run
    <3>1. /\ sessions[s].pc = "unpublish" /\ marker' = marker \ {sessions[s].month}
          /\ UNCHANGED << artifacts, cutover, archive, contended >>
      BY <1>0, <2>8, UnpublishEffect
    <3>2. Kept
      BY <3>1 DEF Inv, WizardInv, ArchiveMatchesProvenance
    <3>3. GuardedSession(s)'
      BY <2>0, <2>8, <3>1 DEF GuardedSession, Guarded, Archived, Inv, WizardInv
    <3> QED BY <1>1, <3>2, <3>3
  <2>9. CASE WriteArtifact(s) /\ sessions'[s].pc = "write" /\ sessions'[s].run = sessions[s].run
    <3>1. /\ sessions[s].pc = "write" /\ UNCHANGED << cutover, marker, archive, contended >>
          /\ \A n \in Months : \A j \in Kinds :
               n # sessions[s].month => artifacts'[n][j] = artifacts[n][j]
      BY <1>0, <2>9, WriteArtifactEffect
    <3>2. sessions[s].month \notin marker
      BY <3>1 DEF GuardedSession, Guarded, Archived, Inv, WizardInv
    <3>3. "provenance" \in Kinds
      BY WriteOrderFacts DEF WriteOrder
    <3>4. Kept
      BY <1>0, <3>1, <3>2, <3>3 DEF Inv, WizardInv, ArchiveMatchesProvenance
    <3>5. GuardedSession(s)'
      BY <2>0, <2>9, <3>1 DEF GuardedSession, Guarded, Archived, Inv, WizardInv
    <3> QED BY <1>1, <3>4, <3>5
  <2> QED
    BY <1>0, <1>8, <2>1, <2>2, <2>3, <2>4, <2>5, <2>6, <2>7, <2>8, <2>9, Proceeds
<1>9. CASE UNCHANGED vars
  BY <1>9 DEF vars, Inv, WizardInv, GuardedSession, ArchiveMatchesProvenance
<1> QED BY <1>4, <1>5, <1>6, <1>7, <1>8, <1>9 DEF Next

LEMMA InvHolds == OneWizard => (Init => Inv) /\ (Inv /\ [Next]_vars => Inv')
<1>1. Init => Inv
  BY InitTypeInv, InitCompleteInv, InitWholeInv, InitWizardInv DEF Inv
<1>2. ASSUME OneWizard, Inv, [Next]_vars PROVE Inv'
  <2>1. TypeInv' /\ CompleteInv'
    BY <1>2, NextTypeInv, NextCompleteInv DEF Inv
  <2>2. WholeInv'
    BY <1>2, NextExclusiveInv, NextWritingInv, NextPublishedWhole DEF Inv, WholeInv
  <2>3. WizardInv'
    BY <1>2, NextWizardInv
  <2> QED BY <2>1, <2>2, <2>3 DEF Inv
<1> QED BY <1>1, <1>2

\* The archived trade history of a published month is the file its provenance
\* names: the next month's check of prior deliveries cannot refuse it.
THEOREM ArchivesMatchTheirProvenance == OneWizard => (Spec => []ArchiveMatchesProvenance)
<1> SUFFICES ASSUME OneWizard PROVE Spec => []ArchiveMatchesProvenance
  OBVIOUS
<1>1. (Init => Inv) /\ (Inv /\ [Next]_vars => Inv')
  BY InvHolds
<1>2. Inv => ArchiveMatchesProvenance
  BY DEF Inv, WizardInv
<1> QED BY <1>1, <1>2, PTL DEF Spec

\* What one step leaves of a published month.
LEMMA PublishedKept ==
  ASSUME OneWizard, Inv, [Next]_vars, NEW m \in marker
  PROVE  m \in marker' /\ artifacts'[m] = artifacts[m]
<1>0. TypeInv /\ TypeInv' /\ m \in Months
  BY InvHolds, StateFacts DEF Inv
<1>1. ASSUME NEW s \in Sessions, Unpublish(s) PROVE m \in marker' /\ artifacts'[m] = artifacts[m]
  BY <1>0, <1>1, UnpublishEffect DEF Inv, WizardInv, GuardedSession, Guarded, Archived
<1>2. ASSUME NEW s \in Sessions, WriteArtifact(s) PROVE m \in marker' /\ artifacts'[m] = artifacts[m]
  <2>1. /\ sessions[s].pc = "write" /\ marker' = marker
        /\ \A n \in Months : \A j \in Kinds :
             n # sessions[s].month => artifacts'[n][j] = artifacts[n][j]
    BY <1>0, <1>2, WriteArtifactEffect
  <2>2. m # sessions[s].month
    BY <2>1 DEF Inv, WizardInv, GuardedSession, Guarded, Archived
  <2>3. artifacts[m] \in [Kinds -> Content] /\ artifacts'[m] \in [Kinds -> Content]
    BY <1>0 DEF TypeInv, TypeOK, StorageTypeOK
  <2> QED BY <1>0, <2>1, <2>2, <2>3
<1>3. ASSUME NEW s \in Sessions, Publish(s) PROVE m \in marker' /\ artifacts'[m] = artifacts[m]
  BY <1>0, <1>3, PublishEffect
<1>4. ASSUME NEW s \in Sessions, QuietStep(s) PROVE m \in marker' /\ artifacts'[m] = artifacts[m]
  BY <1>4 DEF QuietStep
<1>5. CASE UNCHANGED vars
  BY <1>5 DEF vars
<1> QED BY <1>0, <1>1, <1>2, <1>3, <1>4, <1>5, StepCases DEF Next

-----------------------------------------------------------------------------
(***************************************************************************)
(* Any number of sessions, with the wizard or without.                     *)
(***************************************************************************)
\* What one step leaves of a published month that nobody is past the guard on.
LEMMA FinalMonth ==
  ASSUME TypeInv, CompleteInv, NEW s \in Sessions, SessionStep(s), NEW m \in marker,
         \A t \in Sessions : ~PastGuard(t, m)
  PROVE  /\ m \in marker' /\ artifacts'[m] = artifacts[m] /\ archive'[m] = archive[m]
         /\ \A t \in Wizards : ~PastGuard(t, m)'
<1>0. /\ m \in Months /\ sessions[s].month \in Months
      /\ artifacts \in [Months -> [Kinds -> Content]]
      /\ archive \in [Months -> Runs \cup {Missing, Torn}]
  BY StateFacts DEF TypeInv, TypeOK
<1>1. TypeInv'
  BY NextTypeInv DEF Next
\* Whoever writes or archives is past the guard, on another month.
<1>2. sessions[s].pc \notin {"idle", "loading", "prepared"} => sessions[s].month # m
  BY DEF PastGuard, AtWorkOn, At
<1>3. m \in marker' /\ artifacts'[m] = artifacts[m]
  <2>1. CASE QuietStep(s)
    BY <2>1 DEF QuietStep
  <2>2. CASE Unpublish(s)
    BY <1>2, <2>2, UnpublishEffect
  <2>3. CASE WriteArtifact(s)
    <3>1. /\ sessions[s].pc = "write" /\ marker' = marker
          /\ \A n \in Months : \A j \in Kinds :
               n # sessions[s].month => artifacts'[n][j] = artifacts[n][j]
      BY <2>3, WriteArtifactEffect
    <3>2. artifacts[m] \in [Kinds -> Content] /\ artifacts'[m] \in [Kinds -> Content]
      BY <1>0, <1>1 DEF TypeInv, TypeOK, StorageTypeOK
    <3> QED BY <1>0, <1>2, <3>1, <3>2
  <2>4. CASE Publish(s)
    BY <2>4, PublishEffect
  <2> QED BY <2>1, <2>2, <2>3, <2>4, StepCases
<1>4. archive'[m] = archive[m]
  <2>1. CASE ArchiveTradeHistory(s) \/ FailWhileArchiving(s)
    BY <1>0, <1>2, <2>1 DEF ArchiveTradeHistory, FailWhileArchiving, At
  <2>2. CASE ~(ArchiveTradeHistory(s) \/ FailWhileArchiving(s))
    BY <2>2 DEF SessionStep, DiscoverPredecessor, LoadPredecessor, PassGuard, RunPipeline,
                CheckProtocol, WriteProtocol, BuildGeneration, Unpublish, WriteArtifact, Publish, Fail
  <2> QED BY <2>1, <2>2
<1>5. \A t \in Sessions \ {s} : sessions'[t] = sessions[t]
  BY StepCases, UnpublishEffect, WriteArtifactEffect, PublishEffect DEF QuietStep
<1>6. ASSUME s \in Wizards, PastGuard(s, m)' PROVE FALSE
  <2>1. /\ sessions'[s].pc \notin {"idle", "loading", "prepared"} /\ sessions'[s].month = m
    BY <1>6 DEF PastGuard, AtWorkOn, At
  <2>2. /\ sessions[s].pc # "idle" /\ sessions'[s].month = sessions[s].month
        /\ \/ PassGuard(s) \/ RunPipeline(s) \/ ArchiveTradeHistory(s) \/ CheckProtocol(s)
           \/ WriteProtocol(s) \/ BuildGeneration(s) \/ Unpublish(s) \/ WriteArtifact(s)
    BY <2>1, StartsOrEnds, Proceeds
  <2>3. CASE PassGuard(s)
    BY <1>6, <2>1, <2>2, <2>3, MarkedBlocks DEF PassGuard
  <2>4. CASE ~PassGuard(s)
    <3>1. sessions[s].pc \notin {"loading", "prepared"}
      BY <2>2, <2>4
         DEF RunPipeline, ArchiveTradeHistory, CheckProtocol, WriteProtocol, BuildGeneration,
             Unpublish, WriteArtifact, At
    <3> QED BY <1>2, <2>1, <2>2, <3>1
  <2> QED BY <2>3, <2>4
<1>7. ASSUME NEW t \in Wizards PROVE ~PastGuard(t, m)'
  <2>1. t \in Sessions
    BY WizardsAssumption
  <2>2. CASE t # s
    <3>1. sessions'[t] = sessions[t]
      BY <1>5, <2>1, <2>2
    <3> QED BY <2>1, <3>1 DEF PastGuard, AtWorkOn, At
  <2> QED BY <1>6, <1>7, <2>2
<1> QED BY <1>3, <1>4, <1>7

\* A published month that nobody is past the guard on keeps its marker, its
\* payloads and its archive, and no further tab of the wizard gets through to it,
\* with any number of tabs and of direct calls at work.
THEOREM PublishedMonthsAreKept == Spec => PublishedMonthsAreFinal
<1> DEFINE I == TypeInv /\ CompleteInv
<1>1. Init => I
  BY InitTypeInv, InitCompleteInv
<1>2. I /\ [Next]_vars => I'
  BY NextTypeInv, NextCompleteInv
<1>3. I /\ [Next]_vars =>
        [\A m \in marker :
           (\A s \in Sessions : ~PastGuard(s, m)) =>
             /\ m \in marker' /\ artifacts'[m] = artifacts[m] /\ archive'[m] = archive[m]
             /\ \A s \in Wizards : ~PastGuard(s, m)']_vars
  BY FinalMonth DEF Next
<1> QED BY <1>1, <1>2, <1>3, PTL DEF Spec, PublishedMonthsAreFinal

Settled(m, payloads) ==
  m \in marker /\ artifacts[m] = payloads /\ \A s \in Sessions : ~PastGuard(s, m)

\* Where all calls come through the wizard, a published month that nobody is past
\* the guard on shows these payloads for ever, however many tabs are opened later.
THEOREM SettledForGood ==
  ASSUME NEW m, NEW payloads, Wizards = Sessions
  PROVE  Spec => [](Settled(m, payloads) => []Settled(m, payloads))
<1> DEFINE I == TypeInv /\ CompleteInv
           F == Settled(m, payloads)
<1>1. Init => I
  BY InitTypeInv, InitCompleteInv
<1>2. I /\ [Next]_vars => I'
  BY NextTypeInv, NextCompleteInv
<1>3. I /\ F /\ [Next]_vars => F'
  <2> SUFFICES ASSUME I, F, [Next]_vars PROVE F'
    OBVIOUS
  <2>1. CASE UNCHANGED vars
    BY <2>1 DEF vars, Settled, PastGuard, AtWorkOn, At
  <2>2. CASE Next
    BY <2>2, FinalMonth DEF Next, Settled
  <2> QED BY <2>1, <2>2
<1> QED BY <1>1, <1>2, <1>3, PTL DEF Spec

-----------------------------------------------------------------------------
(***************************************************************************)
(* A page that is loaded while months are finalized.                       *)
(***************************************************************************)
LEMMA FirstIsTheLeast ==
  ASSUME NEW S \in SUBSET Months, S # {}
  PROVE  First(S) \in S
<1> DEFINE Less == { ss \in Nat \X Nat : ss[1] < ss[2] }
<1>1. S \subseteq Nat
  BY BoundsAssumption DEF Months
<1>2. IsWellFoundedOn(Less, Nat)
  BY NatLessThanWellFounded DEF OpToRel
<1>3. PICK x \in S : \A y \in S : ~(<< y, x >> \in Less)
  <2> HIDE DEF Less
  <2> QED BY <1>1, <1>2, WFMin
<1>4. ASSUME NEW y \in S PROVE x <= y
  <2>1. << y, x >> \in Nat \X Nat /\ << y, x >>[1] = y /\ << y, x >>[2] = x
    BY <1>1, <1>3
  <2>2. ~(<< y, x >>[1] < << y, x >>[2])
    BY <1>3, <2>1
  <2> QED BY <1>1, <1>3, <2>1, <2>2
<1> QED BY <1>3, <1>4 DEF First

ReaderPcs == { "idle", "list", "check", "read", "mismatch", "period", "marker", "load", "done" }

ReaderRecords ==
  [pc : ReaderPcs, kind : ReaderKinds, cut : [ReaderKinds -> Months \cup {NoMonth}],
   todo : SUBSET Months, keys : [ReaderKinds -> SUBSET Months],
   loaded : [ReaderKinds -> [Months -> Content]]]

Shows(k, m) == reader.loaded[k][m] = artifacts[m][k]

\* The locals of the page with one more payload read.
Noted(k, f) == [reader.loaded EXCEPT ![k][f] = artifacts[f][k]]

Reading(kind) == reader.pc = "read" /\ reader.kind = kind

\* A month the realized pass counted under the cutover it read.
Protected(m) ==
  /\ reader.cut["realized"] # NoMonth /\ m >= reader.cut["realized"]
  /\ m \in reader.keys["realized"]

\* Where the load stands with such a month: what has been read of it is what is
\* stored, and nothing that is still to be read of it can be skipped.
LoadOf(m) ==
  /\ m \in marker
  /\ reader.pc = "check" /\ reader.kind = "forex" => m \in reader.todo \cup reader.keys["forex"]
  /\ reader.pc = "read" => m \in reader.keys["forex"]
  /\ Reading("realized") => m \in reader.todo \/ Shows("realized", m)
  /\ Reading("forex") => Shows("realized", m) /\ (m \in reader.todo \/ Shows("forex", m))
  /\ reader.pc \in {"period", "marker", "load", "done"} => Shows("realized", m) /\ Shows("forex", m)
  /\ reader.pc \in {"period", "marker", "load"} => m \in reader.todo \/ Shows("lifecycle", m)
  /\ reader.pc = "done" => Shows("lifecycle", m)

ReaderInv ==
  /\ reader \in ReaderRecords
  /\ reader.pc \in {"marker", "load"} => reader.todo # {}
  /\ \A m \in Months : Protected(m) => LoadOf(m)

LEMMA InitReaderInv == Init /\ reader = NothingLoaded => ReaderInv
BY DEF NothingLoaded, ReaderInv, ReaderRecords, ReaderPcs, ReaderKinds, Protected, Content, NoMonth

\* Finalizing goes on while the page is loaded: no published month changes.
LEMMA FinalizingKeepsReaderInv ==
  ASSUME OneWizard, Inv, [Next]_vars, reader' = reader, ReaderInv
  PROVE  ReaderInv'
<1>1. \A m \in marker : m \in marker' /\ artifacts'[m] = artifacts[m]
  BY PublishedKept
<1> QED BY <1>1 DEF ReaderInv, Protected, LoadOf, Shows, Reading

\* Reading one more payload keeps what has been read.
LEMMA NotedFacts ==
  ASSUME Inv, ReaderInv, NEW k \in ReaderKinds, NEW f \in Months
  PROVE  /\ Noted(k, f) \in [ReaderKinds -> [Months -> Content]]
         /\ Noted(k, f)[k][f] = artifacts[f][k]
         /\ \A m \in Months : \A j \in ReaderKinds :
              Shows(j, m) => Noted(k, f)[j][m] = artifacts[m][j]
<1>1. /\ artifacts[f][k] \in Content
      /\ reader.loaded \in [ReaderKinds -> [Months -> Content]]
  BY WriteOrderFacts DEF Inv, TypeInv, TypeOK, StorageTypeOK, ReaderInv, ReaderRecords, ReaderKinds, WriteOrder
<1> QED BY <1>1 DEF Shows, Noted

LEMMA ReadingKeepsReaderInv ==
  ASSUME Inv, ReaderStep, UNCHANGED vars, ReaderInv
  PROVE  ReaderInv'
<1>0. /\ reader \in ReaderRecords /\ marker \subseteq Months
      /\ artifacts \in [Months -> [Kinds -> Content]]
      /\ ReaderKinds \subseteq Kinds \ Optional
      /\ cutover \in Months \cup {NoMonth}
      /\ {"realized", "forex", "lifecycle"} \subseteq ReaderKinds
  BY WriteOrderFacts DEF Inv, TypeInv, TypeOK, StorageTypeOK, ReaderInv, WriteOrder, ReaderKinds, Optional
<1>1. \A m \in marker : \A k \in ReaderKinds : Exists(m, k)
  BY <1>0 DEF Inv, CompleteInv, PublishedComplete, Exists
<1>2. UNCHANGED << artifacts, cutover, marker >>
  BY DEF vars
<1>3. reader.todo # {} => First(reader.todo) \in reader.todo /\ First(reader.todo) \in Months
  BY <1>0, FirstIsTheLeast DEF ReaderRecords
<1>4. CASE ReadCutover
  BY <1>0, <1>4 DEF ReadCutover, NothingLoaded, ReaderInv, ReaderRecords, ReaderPcs, ReaderKinds,
                    Protected, Content, NoMonth
<1>5. CASE ListKeys
  <2>1. reader' \in ReaderRecords
    BY <1>0, <1>5 DEF ListKeys, ReaderRecords, ReaderPcs
  <2>2. ASSUME NEW m \in Months, Protected(m)' PROVE LoadOf(m)'
    <3>1. Protected(m) /\ m \in marker
      BY <1>0, <1>5, <2>2 DEF ListKeys, ReaderRecords, ReaderInv, Protected, LoadOf
    <3> QED BY <1>0, <1>1, <1>2, <1>5, <3>1 DEF ListKeys, ReaderRecords, LoadOf, Reading
  <2> QED BY <1>0, <1>5, <2>1, <2>2 DEF ListKeys, ReaderRecords, ReaderInv
<1>6. CASE CheckMarker
  <2> DEFINE f == First(reader.todo)
             c == reader.cut[reader.kind]
             counted == c = NoMonth \/ f < c \/ f \in marker
  <2>0. /\ reader.pc = "check" /\ f \in reader.todo /\ f \in Months /\ reader.kind \in ReaderKinds
        /\ reader' = [reader EXCEPT !.todo = @ \ {f},
                        !.keys[reader.kind] = IF counted THEN @ \cup {f} ELSE @]
    BY <1>0, <1>3, <1>6 DEF CheckMarker, ReaderRecords
  <2> HIDE DEF f
  <2>1. reader' \in ReaderRecords
    BY <1>0, <2>0 DEF ReaderRecords
  <2>2. /\ reader'.pc = "check" /\ reader'.kind = reader.kind /\ reader'.cut = reader.cut
        /\ reader'.todo = reader.todo \ {f}
        /\ \A k \in ReaderKinds \ {reader.kind} : reader'.keys[k] = reader.keys[k]
        /\ reader'.keys[reader.kind] = IF counted THEN reader.keys[reader.kind] \cup {f}
                                       ELSE reader.keys[reader.kind]
    BY <1>0, <2>0 DEF ReaderRecords
  <2>3. ASSUME NEW m \in Months, Protected(m)' PROVE LoadOf(m)'
    <3>1. reader.cut["realized"] \in Int /\ f \in Int
      BY <1>0, <2>0, BoundsAssumption DEF ReaderRecords, ReaderKinds, Months, NoMonth
    <3>2. m \in marker
      <4>1. CASE Protected(m)
        BY <4>1 DEF ReaderInv, LoadOf
      <4>2. CASE ~Protected(m)
        <5>1. reader.kind = "realized" /\ m = f /\ counted
          BY <2>2, <2>3, <4>2 DEF Protected, ReaderKinds
        <5> QED BY <2>2, <2>3, <3>1, <5>1 DEF Protected
      <4> QED BY <4>1, <4>2
    <3>3. ASSUME reader.kind = "forex" PROVE m \in reader'.todo \cup reader'.keys["forex"]
      <4>1. Protected(m)
        BY <2>2, <2>3, <3>3 DEF Protected, ReaderKinds
      <4>2. m \in reader.todo \cup reader.keys["forex"]
        BY <2>0, <3>3, <4>1 DEF ReaderInv, LoadOf
      <4> QED BY <2>2, <3>2, <3>3, <4>2
    <3> QED BY <1>2, <2>2, <3>2, <3>3 DEF LoadOf, Reading
  <2> QED BY <2>1, <2>2, <2>3 DEF ReaderInv
<1>7. CASE ReadCutoverAgain
  <2>1. reader' \in ReaderRecords
    BY <1>0, <1>7 DEF ReadCutoverAgain, ReaderRecords, ReaderPcs, ReaderKinds
  <2>2. /\ reader'.pc = "list" /\ reader'.keys = reader.keys
        /\ reader'.cut["realized"] = reader.cut["realized"]
    BY <1>0, <1>7 DEF ReadCutoverAgain, ReaderRecords, ReaderKinds
  <2> QED BY <1>2, <2>1, <2>2 DEF ReaderInv, Protected, LoadOf, Reading
<1>8. CASE StartLoading
  <2>1. CASE reader' = NothingLoaded
    BY <2>1 DEF NothingLoaded, ReaderInv, ReaderRecords, ReaderPcs, ReaderKinds, Protected, Content, NoMonth
  <2>2. CASE reader' = [reader EXCEPT !.pc = "read", !.kind = "realized", !.todo = reader.keys["realized"]]
    <3>1. reader' \in ReaderRecords
      BY <1>0, <2>2 DEF ReaderRecords, ReaderPcs, ReaderKinds
    <3>2. /\ reader.pc = "check" /\ reader.kind = "forex" /\ reader.todo = {}
          /\ reader'.pc = "read" /\ reader'.kind = "realized" /\ reader'.keys = reader.keys
          /\ reader'.cut = reader.cut /\ reader'.todo = reader.keys["realized"]
      BY <1>0, <1>8, <2>2 DEF StartLoading, ReaderRecords
    <3> QED BY <1>2, <3>1, <3>2 DEF ReaderInv, Protected, LoadOf, Reading
  <2> QED BY <1>8, <2>1, <2>2 DEF StartLoading
<1>10. CASE LoadRealized
  <2> DEFINE f == First(reader.todo)
  <2>0. Reading("realized") /\ f \in reader.todo /\ f \in Months
    BY <1>3, <1>10 DEF LoadRealized, Reading
  <2>a. reader' = [reader EXCEPT !.todo = reader.todo \ {f}, !.loaded = Noted("realized", f)]
    BY <1>0, <1>10 DEF LoadRealized, Noted, ReaderRecords
  <2> HIDE DEF f
  <2>1. /\ reader'.pc = "read" /\ reader'.kind = "realized" /\ reader'.cut = reader.cut
        /\ reader'.keys = reader.keys /\ reader'.todo = reader.todo \ {f}
        /\ reader'.loaded = Noted("realized", f)
    BY <1>0, <2>0, <2>a DEF ReaderRecords, Reading
  <2>2. /\ Noted("realized", f) \in [ReaderKinds -> [Months -> Content]]
        /\ Noted("realized", f)["realized"][f] = artifacts[f]["realized"]
        /\ \A m \in Months : \A j \in ReaderKinds :
             Shows(j, m) => Noted("realized", f)[j][m] = artifacts[m][j]
    BY <1>0, <2>0, NotedFacts
  <2>3. reader' \in ReaderRecords
    BY <1>0, <2>0, <2>a, <2>2 DEF ReaderRecords
  <2>4. ASSUME NEW m \in Months, Protected(m)' PROVE LoadOf(m)'
    <3>1. LoadOf(m)
      BY <2>1, <2>4 DEF ReaderInv, Protected
    <3> QED BY <1>0, <1>2, <2>0, <2>1, <2>2, <3>1 DEF LoadOf, Reading, Shows
  <2> QED BY <2>1, <2>3, <2>4 DEF ReaderInv
<1>11. CASE TurnToForex
  <2>1. reader' \in ReaderRecords
    BY <1>0, <1>11 DEF TurnToForex, ReaderRecords, ReaderKinds
  <2>2. /\ reader'.pc = "read" /\ reader'.kind = "forex" /\ reader'.keys = reader.keys
        /\ reader'.cut = reader.cut /\ reader'.loaded = reader.loaded
        /\ reader'.todo = reader.keys["forex"] /\ Reading("realized") /\ reader.todo = {}
    BY <1>0, <1>11 DEF TurnToForex, ReaderRecords, Reading
  <2> QED BY <1>2, <2>1, <2>2 DEF ReaderInv, Protected, LoadOf, Reading, Shows
<1>12. CASE LoadForex
  <2> DEFINE f == First(reader.todo)
  <2>0. Reading("forex") /\ f \in reader.todo /\ f \in Months
    BY <1>3, <1>12 DEF LoadForex, Reading
  <2>1. CASE reader' = [reader EXCEPT !.pc = "mismatch"]
    <3>1. reader' \in ReaderRecords
      BY <1>0, <2>1 DEF ReaderRecords, ReaderPcs
    <3>2. reader'.pc = "mismatch" /\ reader'.keys = reader.keys /\ reader'.cut = reader.cut
      BY <1>0, <2>1 DEF ReaderRecords
    <3> QED BY <1>2, <3>1, <3>2 DEF ReaderInv, Protected, LoadOf, Reading, Shows
  <2>2. CASE reader' = [reader EXCEPT !.todo = @ \ {f}, !.loaded["forex"][f] = artifacts[f]["forex"]]
    <3> HIDE DEF f
    <3>a. reader' = [reader EXCEPT !.todo = reader.todo \ {f}, !.loaded = Noted("forex", f)]
      BY <1>0, <2>2 DEF Noted, ReaderRecords
    <3>1. /\ reader'.pc = "read" /\ reader'.kind = "forex" /\ reader'.cut = reader.cut
          /\ reader'.keys = reader.keys /\ reader'.todo = reader.todo \ {f}
          /\ reader'.loaded = Noted("forex", f)
      BY <1>0, <2>0, <3>a DEF ReaderRecords, Reading
    <3>2. /\ Noted("forex", f) \in [ReaderKinds -> [Months -> Content]]
          /\ Noted("forex", f)["forex"][f] = artifacts[f]["forex"]
          /\ \A m \in Months : \A j \in ReaderKinds :
               Shows(j, m) => Noted("forex", f)[j][m] = artifacts[m][j]
      BY <1>0, <2>0, NotedFacts
    <3>3. reader' \in ReaderRecords
      BY <1>0, <3>a, <3>2 DEF ReaderRecords
    <3>4. ASSUME NEW m \in Months, Protected(m)' PROVE LoadOf(m)'
      <4>1. LoadOf(m)
        BY <3>1, <3>4 DEF ReaderInv, Protected
      <4> QED BY <1>0, <1>2, <2>0, <3>1, <3>2, <4>1, ZenonT(60) DEF LoadOf, Reading, Shows
    <3> QED BY <3>1, <3>3, <3>4 DEF ReaderInv
  <2> QED BY <1>12, <2>1, <2>2 DEF LoadForex
<1>13. CASE ListLifecycle
  <2>1. reader' \in ReaderRecords
    BY <1>0, <1>13 DEF ListLifecycle, ReaderRecords, ReaderKinds, ReaderPcs
  <2>2. /\ reader'.pc = "period" /\ reader'.keys = reader.keys /\ reader'.cut = reader.cut
        /\ reader'.loaded = reader.loaded
        /\ reader'.todo = {m \in Months : Exists(m, "lifecycle")}
        /\ Reading("forex") /\ reader.todo = {}
    BY <1>0, <1>13 DEF ListLifecycle, ReaderRecords, Reading
  <2> QED BY <1>1, <1>2, <2>1, <2>2 DEF ReaderInv, Protected, LoadOf, Reading, Shows, ReaderKinds
<1>14. CASE ReadCutoverOfPeriod
  <2>1. reader' \in ReaderRecords
    BY <1>0, <1>14 DEF ReadCutoverOfPeriod, ReaderRecords, ReaderKinds, ReaderPcs
  <2>2. /\ reader'.pc = "marker" /\ reader'.keys = reader.keys /\ reader'.todo = reader.todo
        /\ reader'.cut["realized"] = reader.cut["realized"] /\ reader'.loaded = reader.loaded
        /\ reader.pc = "period" /\ reader.todo # {}
    BY <1>0, <1>14 DEF ReadCutoverOfPeriod, ReaderRecords, ReaderKinds
  <2> QED BY <1>2, <2>1, <2>2 DEF ReaderInv, Protected, LoadOf, Reading, Shows
<1>15. CASE CheckPeriod
  <2> DEFINE f == First(reader.todo)
  <2>0. reader.pc = "marker" /\ f \in reader.todo
    BY <1>3, <1>15 DEF CheckPeriod, ReaderInv
  <2>1. CASE reader' = [reader EXCEPT !.pc = "load"]
    <3>1. reader' \in ReaderRecords
      BY <1>0, <2>1 DEF ReaderRecords, ReaderPcs
    <3>2. /\ reader'.pc = "load" /\ reader'.keys = reader.keys /\ reader'.todo = reader.todo
          /\ reader'.cut = reader.cut /\ reader'.loaded = reader.loaded
      BY <1>0, <2>1 DEF ReaderRecords
    <3> QED BY <1>2, <2>0, <3>1, <3>2 DEF ReaderInv, Protected, LoadOf, Reading, Shows
  <2>2. CASE f \notin marker /\ reader' = [reader EXCEPT !.pc = "period", !.todo = @ \ {f}]
    <3>1. reader' \in ReaderRecords
      BY <1>0, <2>2 DEF ReaderRecords, ReaderPcs
    <3>2. /\ reader'.pc = "period" /\ reader'.keys = reader.keys /\ reader'.todo = reader.todo \ {f}
          /\ reader'.cut = reader.cut /\ reader'.loaded = reader.loaded
      BY <1>0, <2>2 DEF ReaderRecords
    <3> QED BY <1>2, <2>0, <2>2, <3>1, <3>2 DEF ReaderInv, Protected, LoadOf, Reading, Shows
  <2> QED BY <1>15, <2>1, <2>2 DEF CheckPeriod
<1>16. CASE LoadPeriod
  <2> DEFINE f == First(reader.todo)
  <2>0. reader.pc = "load" /\ f \in reader.todo /\ f \in Months
    BY <1>3, <1>16 DEF LoadPeriod, ReaderInv
  <2>a. reader' = [reader EXCEPT !.pc = "period", !.todo = reader.todo \ {f},
                     !.keys = [reader.keys EXCEPT !["lifecycle"] = @ \cup {f}],
                     !.loaded = Noted("lifecycle", f)]
    BY <1>0, <1>16 DEF LoadPeriod, Noted, ReaderRecords
  <2> HIDE DEF f
  <2>1. /\ reader'.pc = "period" /\ reader'.cut = reader.cut
        /\ reader'.keys["realized"] = reader.keys["realized"] /\ reader'.todo = reader.todo \ {f}
        /\ reader'.loaded = Noted("lifecycle", f)
    BY <1>0, <2>0, <2>a DEF ReaderRecords, ReaderKinds
  <2>2. /\ Noted("lifecycle", f) \in [ReaderKinds -> [Months -> Content]]
        /\ Noted("lifecycle", f)["lifecycle"][f] = artifacts[f]["lifecycle"]
        /\ \A m \in Months : \A j \in ReaderKinds :
             Shows(j, m) => Noted("lifecycle", f)[j][m] = artifacts[m][j]
    BY <1>0, <2>0, NotedFacts
  <2>3. reader' \in ReaderRecords
    <3>1. reader'.keys \in [ReaderKinds -> SUBSET Months]
      BY <1>0, <2>0, <2>a DEF ReaderRecords, ReaderKinds
    <3> QED BY <1>0, <2>0, <2>a, <2>1, <2>2, <3>1 DEF ReaderRecords, ReaderPcs
  <2>4. ASSUME NEW m \in Months, Protected(m)' PROVE LoadOf(m)'
    <3>1. LoadOf(m)
      BY <2>1, <2>4 DEF ReaderInv, Protected
    <3>2. /\ m \in marker /\ Shows("realized", m) /\ Shows("forex", m)
          /\ m \in reader.todo \/ Shows("lifecycle", m)
      BY <2>0, <3>1 DEF LoadOf
    <3>3. Shows("realized", m)' /\ Shows("forex", m)'
      BY <1>0, <1>2, <2>1, <2>2, <3>2 DEF Shows
    <3>4. m \in reader'.todo \/ Shows("lifecycle", m)'
      BY <1>0, <1>2, <2>1, <2>2, <3>2 DEF Shows
    <3> QED BY <1>2, <2>1, <3>2, <3>3, <3>4 DEF LoadOf, Reading
  <2> QED BY <2>1, <2>3, <2>4 DEF ReaderInv
<1>17. CASE FinishLoading
  <2>1. reader' \in ReaderRecords
    BY <1>0, <1>17 DEF FinishLoading, ReaderRecords, ReaderPcs
  <2>2. /\ reader'.pc = "done" /\ reader'.keys = reader.keys /\ reader'.cut = reader.cut
        /\ reader'.loaded = reader.loaded /\ reader.pc = "period" /\ reader.todo = {}
    BY <1>0, <1>17 DEF FinishLoading, ReaderRecords
  <2> QED BY <1>2, <2>1, <2>2 DEF ReaderInv, Protected, LoadOf, Reading, Shows
<1>18. CASE RerunScript
  BY <1>18 DEF RerunScript, NothingLoaded, ReaderInv, ReaderRecords, ReaderPcs, ReaderKinds,
               Protected, Content, NoMonth
<1> QED
  BY <1>4, <1>5, <1>6, <1>7, <1>8, <1>10, <1>11, <1>12, <1>13, <1>14, <1>15, <1>16, <1>17, <1>18
  DEF ReaderStep

\* A published month stores one run under all three keys that are read.
LEMMA OneRunIsStored ==
  ASSUME Inv, NEW m \in marker
  PROVE  \E g \in Runs : lineage[g].month = m /\ \A k \in ReaderKinds : artifacts[m][k] = g
<1>1. PICK g \in 1..Len(lineage) :
        lineage[g].month = m /\ \A k \in Kinds \ {"audit"} : artifacts[m][k] = Payload(g, k)
  BY DEF Inv, WizardInv, WholeInv, PublishedWhole, WholeGeneration
<1>2. \A k \in ReaderKinds : k \in Kinds \ {"audit"} /\ Payload(g, k) = g
  BY WriteOrderFacts DEF ReaderKinds, WriteOrder, Payload, Produces
<1>3. g \in Runs
  BY StateFacts, BoundsAssumption DEF Inv, Runs
<1> QED BY <1>1, <1>2, <1>3

\* While the wizard finalizes months one after the other, a page that knew the
\* cutover shows one run of every protected month, in all three histories.
THEOREM LoadsAreWhole == OneWizard => (ReaderSpec => []LoadedMonthIsWhole)
<1> SUFFICES ASSUME OneWizard PROVE ReaderSpec => []LoadedMonthIsWhole
  OBVIOUS
<1>1. ReaderInit => Inv /\ ReaderInv
  BY InvHolds, InitReaderInv DEF ReaderInit
<1>2. Inv /\ ReaderInv /\ [ReaderNext]_readerVars => Inv' /\ ReaderInv'
  <2> SUFFICES ASSUME Inv, ReaderInv, [ReaderNext]_readerVars PROVE Inv' /\ ReaderInv'
    OBVIOUS
  <2>1. CASE ReaderStep /\ UNCHANGED vars
    BY <2>1, InvHolds, ReadingKeepsReaderInv
  <2>2. CASE Next /\ UNCHANGED reader
    BY <2>2, InvHolds, FinalizingKeepsReaderInv
  <2>3. CASE UNCHANGED readerVars
    BY <2>3, InvHolds, FinalizingKeepsReaderInv DEF readerVars, vars
  <2> QED BY <2>1, <2>2, <2>3 DEF ReaderNext
<1>3. Inv /\ ReaderInv => LoadedMonthIsWhole
  <2> SUFFICES ASSUME Inv, ReaderInv, reader.pc = "done", reader.cut["realized"] # NoMonth,
                      NEW m \in reader.keys["realized"], m >= reader.cut["realized"]
               PROVE  LET g == reader.loaded["realized"][m]
                      IN /\ g \in Runs /\ lineage[g].month = m
                         /\ \A k \in ReaderKinds : reader.loaded[k][m] = g
    BY DEF LoadedMonthIsWhole
  <2>1. m \in Months
    BY DEF ReaderInv, ReaderRecords, ReaderKinds
  <2>2. m \in marker /\ \A k \in ReaderKinds : Shows(k, m)
    BY <2>1 DEF ReaderInv, Protected, LoadOf, ReaderKinds
  <2>3. PICK g \in Runs : lineage[g].month = m /\ \A k \in ReaderKinds : artifacts[m][k] = g
    BY <2>2, OneRunIsStored
  <2>4. "realized" \in ReaderKinds
    BY DEF ReaderKinds
  <2> QED BY <2>2, <2>3, <2>4 DEF Shows
<1> QED BY <1>1, <1>2, <1>3, PTL DEF ReaderSpec

-----------------------------------------------------------------------------
(***************************************************************************)
(* The lot books that readers see implement LotLedger.                     *)
(***************************************************************************)
PredecessorBook(m) ==
  IF m > 1 /\ VisibleBook[m - 1] # Missing THEN VisibleBook[m - 1] ELSE Bootstrap

\* A session's opening state stays the predecessor's book while it runs, no
\* later month is visible behind the guard, and its own is not before it is
\* written.
LedgerSession(s) ==
  LET m == sessions[s].month IN
  /\ sessions[s].pc = "loading" => m > 1 /\ VisibleBook[m - 1] # Missing
  /\ sessions[s].pc \in {"prepared", "confirmed"} => sessions[s].opening = PredecessorBook(m)
  /\ sessions[s].pc \in RunPcs => lineage[sessions[s].run].opening = PredecessorBook(m)
  /\ sessions[s].pc \in Guarded => \A p \in Months : p > m => VisibleBook[p] = Missing
  /\ sessions[s].pc \in Guarded /\ sessions[s].next <= 5 => VisibleBook[m] = Missing

LedgerInv ==
  /\ \A s \in Sessions : LedgerSession(s)
  /\ \A m \in Months : artifacts[m]["lot-book"] \in Runs => artifacts[m]["lot-book"] <= Len(lineage)

LEMMA VisibleFacts ==
  ASSUME TypeInv
  PROVE  /\ VisibleBook \in [Months -> Content]
         /\ \A m \in Months :
              /\ VisibleBook[m] # Missing <=> m \in AuthoritativePeriods
              /\ VisibleBook[m] # Missing => VisibleBook[m] = artifacts[m]["lot-book"]
<1>1. artifacts \in [Months -> [Kinds -> Content]] /\ "lot-book" \in Kinds
  BY StateFacts, WriteOrderFacts DEF WriteOrder
<1> QED BY <1>1 DEF VisibleBook, AuthoritativePeriods, Exists, Content

LEMMA InitLedgerInv == Init => LedgerInv
<1> SUFFICES ASSUME Init PROVE LedgerInv
  OBVIOUS
<1>1. "lot-book" \in Kinds
  BY WriteOrderFacts DEF WriteOrder
<1>2. \A m \in Months : artifacts[m]["lot-book"] \in {Legacy, Missing}
  BY <1>1 DEF Init, StorageInit
<1>3. \A m \in Months : artifacts[m]["lot-book"] \notin Runs
  BY <1>2, ContentAssumption, BoundsAssumption DEF Runs
<1> QED BY <1>3 DEF Init, Idle, LedgerInv, LedgerSession, RunPcs, Guarded, Archived

\* What a step leaves of the visible books: all, or all but the session's own
\* month, which nothing shows before and its run afterwards.
BookAppended(s) ==
  LET m == sessions[s].month
  IN /\ sessions[s].pc = "write" /\ VisibleBook[m] = Missing
     /\ VisibleBook' = [VisibleBook EXCEPT ![m] = sessions[s].run]
     /\ lineage' = lineage
     /\ sessions'[s].pc = "idle" \/ (sessions'[s].pc = "write" /\ sessions'[s].next > 5)

LEMMA SameBooks ==
  ASSUME UNCHANGED << artifacts, cutover, marker >>
  PROVE  VisibleBook' = VisibleBook
BY DEF VisibleBook, AuthoritativePeriods, Exists, IsMonthPublished, RequiresMarker

LEMMA BooksStep ==
  ASSUME OneWizard, Inv, LedgerInv, NEW s \in Sessions, SessionStep(s)
  PROVE  VisibleBook' = VisibleBook \/ BookAppended(s)
<1>0. /\ TypeInv /\ sessions[s].month \in Months /\ "lot-book" \in Kinds
      /\ GuardedSession(s) /\ LedgerSession(s)
      /\ artifacts \in [Months -> [Kinds -> Content]]
  BY StateFacts, WriteOrderFacts DEF Inv, WizardInv, LedgerInv, WriteOrder
<1>1. CASE WriteProtocol(s)
  <2>1. /\ sessions[s].pc = "cutover" /\ cutover' = sessions[s].month
        /\ artifacts' = artifacts /\ marker' = marker
    BY <1>1 DEF WriteProtocol, WriteProtocolFile, At
  <2>2. cutover = NoMonth /\ marker = {} /\ sessions[s].next = 1
    BY <1>0, <2>1, StateFacts DEF GuardedSession, Inv, WizardInv
  <2>3. \A p \in Months : p >= sessions[s].month => p \notin AuthoritativePeriods
    <3>1. \A p \in Months : p >= sessions[s].month => VisibleBook[p] = Missing
      BY <1>0, <2>1, <2>2, BoundsAssumption DEF LedgerSession, Guarded, Archived, Months
    <3> QED BY <1>0, <3>1, VisibleFacts
  <2>4. sessions[s].month # NoMonth
    BY <1>0, BoundsAssumption DEF Months, NoMonth
  <2>5. \A p \in Months : p \in AuthoritativePeriods' <=> p \in AuthoritativePeriods
    BY <2>1, <2>2, <2>3, <2>4 DEF AuthoritativePeriods, Exists, IsMonthPublished, RequiresMarker
  <2> QED BY <2>1, <2>5 DEF VisibleBook
<1>2. CASE Unpublish(s)
  <2>1. /\ sessions[s].pc = "unpublish" /\ marker' = marker \ {sessions[s].month}
        /\ UNCHANGED << artifacts, cutover >>
    BY <1>0, <1>2, UnpublishEffect
  <2>2. sessions[s].month \notin marker
    BY <1>0, <2>1 DEF GuardedSession, Guarded, Archived
  <2>3. marker' = marker
    BY <2>1, <2>2
  <2> QED BY <2>1, <2>3, SameBooks
<1>3. CASE WriteArtifact(s)
  <2> DEFINE m == sessions[s].month
             k == WriteOrder[sessions[s].next]
  <2>0. /\ sessions[s].pc = "write" /\ sessions[s].next \in 1..11
        /\ artifacts'[m][k] = Stored(sessions[s].run, k, artifacts[m][k])
        /\ \A n \in Months : \A j \in Kinds :
             (n # m \/ j # k) => artifacts'[n][j] = artifacts[n][j]
        /\ sessions'[s].pc = "write" /\ sessions'[s].next = sessions[s].next + 1
        /\ UNCHANGED << cutover, marker, lineage >>
    BY <1>0, <1>3, WriteArtifactEffect
  <2>1. CASE k # "lot-book"
    <3>1. \A n \in Months : artifacts'[n]["lot-book"] = artifacts[n]["lot-book"]
      BY <1>0, <2>0, <2>1
    <3> QED BY <2>0, <3>1 DEF VisibleBook, AuthoritativePeriods, Exists, IsMonthPublished, RequiresMarker
  <2>2. CASE k = "lot-book"
    <3>1. sessions[s].next = 5
      BY <2>0, <2>2, WriteOrderFacts DEF WriteOrder
    <3>2. VisibleBook[m] = Missing
      BY <1>0, <2>0, <3>1 DEF LedgerSession, Guarded, Archived
    <3>3. artifacts'[m]["lot-book"] = sessions[s].run
      BY <2>0, <2>2 DEF Stored, Payload, Produces
    <3>4. \A n \in Months : n # m => artifacts'[n]["lot-book"] = artifacts[n]["lot-book"]
      BY <1>0, <2>0
    <3> HIDE DEF m, k
    <3>5. \A n \in Months : n # m => VisibleBook'[n] = VisibleBook[n]
      BY <2>0, <3>4 DEF VisibleBook, AuthoritativePeriods, Exists, IsMonthPublished, RequiresMarker
    <3>6. VisibleBook'[m] = sessions[s].run \/ VisibleBook'[m] = Missing
      BY <1>0, <3>3 DEF VisibleBook, m
    <3>7. DOMAIN VisibleBook' = Months /\ DOMAIN VisibleBook = Months
      BY DEF VisibleBook
    <3>8. VisibleBook' = [n \in Months |-> VisibleBook'[n]] /\ VisibleBook = [n \in Months |-> VisibleBook[n]]
      BY DEF VisibleBook
    <3>9. CASE VisibleBook'[m] = Missing
      <4>1. \A n \in Months : VisibleBook'[n] = VisibleBook[n]
        BY <3>2, <3>5, <3>9
      <4> QED BY <3>8, <4>1
    <3>10. CASE VisibleBook'[m] = sessions[s].run
      <4>1. VisibleBook' = [VisibleBook EXCEPT ![m] = sessions[s].run]
        BY <3>5, <3>8, <3>10
      <4> QED BY <2>0, <3>1, <3>2, <4>1 DEF BookAppended, m
    <3> QED BY <3>6, <3>9, <3>10
  <2> QED BY <2>1, <2>2
<1>4. CASE Publish(s)
  <2> DEFINE m == sessions[s].month
  <2>0. /\ sessions[s].pc = "write" /\ sessions[s].next = 12 /\ marker' = marker \cup {m}
        /\ sessions'[s].pc = "idle" /\ UNCHANGED << artifacts, cutover, lineage >>
    BY <1>0, <1>4, PublishEffect
  <2>1. WrittenSoFar(s)
    BY <2>0 DEF Inv, WizardInv, WholeInv, WritingInv, Writing
  <2>2. 5 \in 1..11 /\ 5 < 12 /\ WriteOrder[5] = "lot-book"
    BY DEF WriteOrder
  <2>3. artifacts[m]["lot-book"] = Payload(sessions[s].run, "lot-book")
    BY <2>0, <2>1, <2>2 DEF WrittenSoFar
  <2>4. artifacts[m]["lot-book"] = sessions[s].run
    BY <2>3 DEF Payload, Produces
  <2> HIDE DEF m
  <2>5. \A n \in Months : n # m => VisibleBook'[n] = VisibleBook[n]
    BY <2>0 DEF VisibleBook, AuthoritativePeriods, Exists, IsMonthPublished, RequiresMarker
  <2>6. VisibleBook'[m] = sessions[s].run
    BY <1>0, <2>0, <2>4, StateFacts, ContentAssumption
       DEF VisibleBook, AuthoritativePeriods, Exists, IsMonthPublished, RequiresMarker, m, Runs, RunPcs
  <2>7. VisibleBook' = [n \in Months |-> VisibleBook'[n]] /\ VisibleBook = [n \in Months |-> VisibleBook[n]]
    BY DEF VisibleBook
  <2>8. CASE VisibleBook[m] = Missing
    <3>1. VisibleBook' = [VisibleBook EXCEPT ![m] = sessions[s].run]
      BY <2>5, <2>6, <2>7
    <3> QED BY <2>0, <2>8, <3>1 DEF BookAppended, m
  <2>9. CASE VisibleBook[m] # Missing
    <3>1. VisibleBook[m] = sessions[s].run
      BY <1>0, <2>4, <2>9, VisibleFacts DEF m
    <3>2. \A n \in Months : VisibleBook'[n] = VisibleBook[n]
      BY <2>5, <2>6, <3>1
    <3> QED BY <2>7, <3>2
  <2> QED BY <2>8, <2>9
<1>5. CASE UNCHANGED storageVars
  BY <1>5, SameBooks DEF storageVars
<1> QED
  BY <1>1, <1>2, <1>3, <1>4, <1>5
  DEF SessionStep, DiscoverPredecessor, LoadPredecessor, PassGuard, RunPipeline,
      ArchiveTradeHistory, CheckProtocol, BuildGeneration, Fail, FailWhileArchiving

-----------------------------------------------------------------------------
\* Every stored lot book comes from a run that has been recorded.
LEMMA NextBooksRecorded ==
  ASSUME Inv, LedgerInv, NEW s \in Sessions, SessionStep(s)
  PROVE  /\ \A m \in Months : artifacts'[m]["lot-book"] \in Runs
                             => artifacts'[m]["lot-book"] <= Len(lineage')
         /\ Len(lineage) <= Len(lineage')
         /\ \A g \in 1..Len(lineage) : lineage'[g] = lineage[g]
<1>0. /\ TypeInv /\ "lot-book" \in Kinds /\ Len(lineage) \in Nat /\ Runs \subseteq Nat
      /\ sessions[s].month \in Months
      /\ sessions[s].pc \in RunPcs => sessions[s].run \in 1..Len(lineage)
  BY StateFacts, WriteOrderFacts, BoundsAssumption DEF Inv, WriteOrder, Runs
<1>1. \A m \in Months : artifacts[m]["lot-book"] \in Runs => artifacts[m]["lot-book"] <= Len(lineage)
  BY DEF LedgerInv
<1>2. CASE QuietStep(s)
  <2>1. /\ artifacts' = artifacts /\ Len(lineage') \in Nat /\ Len(lineage) <= Len(lineage')
        /\ \A g \in 1..Len(lineage) : lineage'[g] = lineage[g]
    BY <1>2 DEF QuietStep
  <2>2. ASSUME NEW m \in Months, artifacts[m]["lot-book"] \in Runs
        PROVE  artifacts[m]["lot-book"] <= Len(lineage')
    <3>1. artifacts[m]["lot-book"] \in Nat /\ artifacts[m]["lot-book"] <= Len(lineage)
      BY <1>0, <1>1, <2>2
    <3> QED BY <1>0, <2>1, <3>1
  <2> QED BY <2>1, <2>2
<1>3. CASE Unpublish(s) \/ Publish(s)
  BY <1>0, <1>3, <1>1, UnpublishEffect, PublishEffect
<1>4. CASE WriteArtifact(s)
  <2> DEFINE m == sessions[s].month
             k == WriteOrder[sessions[s].next]
  <2>1. /\ sessions[s].pc = "write" /\ lineage' = lineage
        /\ artifacts'[m][k] = Stored(sessions[s].run, k, artifacts[m][k])
        /\ \A n \in Months : \A j \in Kinds :
             (n # m \/ j # k) => artifacts'[n][j] = artifacts[n][j]
    BY <1>0, <1>4, WriteArtifactEffect
  <2>2. k = "lot-book" => artifacts'[m]["lot-book"] = sessions[s].run
    BY <2>1 DEF Stored, Payload, Produces
  <2>3. sessions[s].run <= Len(lineage)
    BY <1>0, <2>1 DEF RunPcs
  <2> HIDE DEF m, k
  <2>4. \A n \in Months : artifacts'[n]["lot-book"] = artifacts[n]["lot-book"]
                          \/ artifacts'[n]["lot-book"] = sessions[s].run
    BY <1>0, <2>1, <2>2
  <2> QED BY <1>0, <2>1, <2>3, <2>4, <1>1
<1> QED BY <1>0, <1>2, <1>3, <1>4, StepCases

\* Neither the predecessor's book nor a later month changes under a session.
LEMMA NeighboursKept ==
  ASSUME TypeInv, NEW s \in Sessions, VisibleBook' = VisibleBook \/ BookAppended(s)
  PROVE  LET m == sessions[s].month IN
         /\ PredecessorBook(m) = IF m > 1 /\ VisibleBook'[m - 1] # Missing
                                 THEN VisibleBook'[m - 1] ELSE Bootstrap
         /\ \A p \in Months : p > m => VisibleBook'[p] = VisibleBook[p]
<1> DEFINE m == sessions[s].month
<1>1. /\ m \in Int /\ Months \subseteq Int /\ DOMAIN VisibleBook = Months
      /\ m > 1 => m - 1 \in Months
  BY StateFacts, BoundsAssumption DEF Months, VisibleBook
<1>2. \A p \in Months : p # m => VisibleBook'[p] = VisibleBook[p]
  BY <1>1 DEF BookAppended
<1> HIDE DEF m
<1>3. m > 1 => VisibleBook'[m - 1] = VisibleBook[m - 1]
  BY <1>1, <1>2
<1>4. \A p \in Months : p > m => VisibleBook'[p] = VisibleBook[p]
  BY <1>1, <1>2
<1>5. PredecessorBook(m) = IF m > 1 /\ VisibleBook'[m - 1] # Missing
                           THEN VisibleBook'[m - 1] ELSE Bootstrap
  BY <1>3 DEF PredecessorBook
<1> QED BY <1>4, <1>5 DEF m

LEMMA NextLedgerSession ==
  ASSUME OneWizard, Inv, LedgerInv, NEW s \in Sessions, SessionStep(s)
  PROVE  LedgerSession(s)'
<1> DEFINE m == sessions[s].month
<1>0. /\ TypeInv /\ m \in Months /\ "lot-book" \in Kinds /\ LedgerSession(s) /\ s \in Wizards
      /\ Months \subseteq Int /\ sessions[s].next \in 1..12
      /\ sessions[s].pc # "write" => sessions[s].next = 1
      /\ lineage \in Seq(RunRecords)
  BY StateFacts, WriteOrderFacts DEF Inv, LedgerInv, WriteOrder, OneWizard, Months
<1>1. VisibleBook' = VisibleBook \/ BookAppended(s)
  BY BooksStep
<1>2. CASE sessions'[s].pc = "idle"
  BY <1>2 DEF LedgerSession, RunPcs, Guarded, Archived
<1>3. ASSUME NEW n \in Months, DiscoverPredecessor(s, n), sessions'[s].month = n,
             sessions'[s].opening = Bootstrap,
             sessions'[s].pc = IF HasPredecessor(n) THEN "loading" ELSE "prepared"
      PROVE  LedgerSession(s)'
  <2>1. VisibleBook' = VisibleBook
    BY <1>3, SameBooks DEF DiscoverPredecessor, storageVars
  <2>2. HasPredecessor(n) <=> n > 1 /\ VisibleBook[n - 1] # Missing
    <3>1. n - 1 \in Months <=> n > 1
      BY BoundsAssumption DEF Months
    <3>2. \A p \in Months : VisibleBook[p] # Missing <=> p \in AuthoritativePeriods
      BY <1>0, VisibleFacts
    <3>3. AuthoritativePeriods \subseteq Months
      BY DEF AuthoritativePeriods
    <3> QED BY <3>1, <3>2, <3>3 DEF HasPredecessor
  <2> QED BY <1>3, <2>1, <2>2 DEF LedgerSession, PredecessorBook, RunPcs, Guarded, Archived
<1>4. ASSUME LoadPredecessor(s), sessions'[s].pc = "prepared", sessions'[s].month = m,
             sessions'[s].opening = artifacts[m - 1]["lot-book"]
      PROVE  LedgerSession(s)'
  <2>1. VisibleBook' = VisibleBook
    BY <1>4, SameBooks DEF LoadPredecessor, storageVars
  <2>2. m > 1 /\ VisibleBook[m - 1] # Missing
    BY <1>0, <1>4 DEF LoadPredecessor, At, LedgerSession
  <2>3. m - 1 \in Months
    BY <1>0, <2>2, BoundsAssumption DEF Months
  <2>4. VisibleBook[m - 1] = artifacts[m - 1]["lot-book"]
    BY <1>0, <2>2, <2>3, VisibleFacts
  <2> QED BY <1>4, <2>1, <2>2, <2>4 DEF LedgerSession, PredecessorBook, RunPcs, Guarded, Archived
<1>5. ASSUME PassGuard(s), sessions'[s].pc = "confirmed", sessions'[s].month = m,
             sessions'[s].opening = sessions[s].opening
      PROVE  LedgerSession(s)'
  <2>1. VisibleBook' = VisibleBook /\ sessions[s].pc = "prepared" /\ ~BackfillBlocked(m)
    BY <1>0, <1>5, SameBooks DEF PassGuard, storageVars, At
  <2>2. \A p \in Months : p >= m => VisibleBook[p] = Missing
    BY <1>0, <2>1, VisibleFacts DEF BackfillBlocked
  <2>3. sessions[s].opening = PredecessorBook(m)
    BY <1>0, <2>1 DEF LedgerSession
  <2>4. m \in Months /\ m >= m /\ \A p \in Months : p > m => p >= m
    <3>1. m \in Int /\ \A p \in Months : p \in Int
      BY <1>0
    <3> HIDE DEF m
    <3> QED BY <1>0, <3>1
  <2>5. VisibleBook[m] = Missing /\ \A p \in Months : p > m => VisibleBook[p] = Missing
    BY <2>2, <2>4
  <2> HIDE DEF m
  <2> QED BY <1>5, <2>1, <2>3, <2>5 DEF LedgerSession, PredecessorBook, RunPcs
<1>6. ASSUME RunPipeline(s), sessions'[s].pc = "archive", sessions'[s].month = m,
             sessions'[s].run = Len(lineage) + 1
      PROVE  LedgerSession(s)'
  <2>1. /\ VisibleBook' = VisibleBook /\ sessions[s].pc = "confirmed" /\ sessions[s].next = 1
    BY <1>0, <1>6, SameBooks DEF RunPipeline, storageVars, At
  <2>2. PICK outcome \in Outcomes :
        lineage' = Append(lineage, [month |-> m, opening |-> sessions[s].opening, outcome |-> outcome])
    BY <1>6 DEF RunPipeline
  <2>3. lineage'[sessions'[s].run].opening = sessions[s].opening
    BY <1>0, <1>6, <2>2
  <2>4. /\ sessions[s].opening = PredecessorBook(m)
        /\ \A p \in Months : p > m => VisibleBook[p] = Missing
        /\ VisibleBook[m] = Missing
    BY <1>0, <2>1 DEF LedgerSession, Guarded
  <2> QED BY <1>6, <2>1, <2>3, <2>4 DEF LedgerSession, PredecessorBook, RunPcs
<1>7. ASSUME sessions[s].pc \in RunPcs, sessions'[s].pc \in RunPcs, sessions'[s].month = m,
             sessions'[s].run = sessions[s].run, sessions'[s].next \in Int,
             sessions'[s].next <= 5 => sessions[s].next <= 5
      PROVE  LedgerSession(s)'
  <2>1. lineage'[sessions'[s].run] = lineage[sessions[s].run]
    <3>1. sessions[s].run \in 1..Len(lineage)
      BY <1>0, <1>7, StateFacts
    <3> QED BY <1>7, <3>1, NextBooksRecorded
  <2>2. /\ lineage[sessions[s].run].opening = PredecessorBook(m)
        /\ \A p \in Months : p > m => VisibleBook[p] = Missing
        /\ sessions[s].next <= 5 => VisibleBook[m] = Missing
    BY <1>0, <1>7 DEF LedgerSession, RunPcs, Guarded, Archived
  <2>3. /\ PredecessorBook(m) = IF m > 1 /\ VisibleBook'[m - 1] # Missing
                                THEN VisibleBook'[m - 1] ELSE Bootstrap
        /\ \A p \in Months : p > m => VisibleBook'[p] = VisibleBook[p]
    BY <1>0, <1>1, NeighboursKept
  <2>4. sessions'[s].next <= 5 => VisibleBook'[m] = Missing
    BY <1>1, <1>7, <2>2 DEF BookAppended, RunPcs
  <2>5. lineage'[sessions'[s].run].opening = IF m > 1 /\ VisibleBook'[m - 1] # Missing
                                            THEN VisibleBook'[m - 1] ELSE Bootstrap
    BY <2>1, <2>2, <2>3
  <2>6. \A p \in Months : p > m => VisibleBook'[p] = Missing
    BY <2>2, <2>3
  <2> HIDE DEF m
  <2> QED BY <1>7, <2>4, <2>5, <2>6 DEF LedgerSession, PredecessorBook, RunPcs
<1>8. sessions'[s].pc # "write" => sessions'[s].next = 1
  BY NextTypeInv DEF Inv, TypeInv, SessionInv, Next
<1>9. ASSUME ~(\E n \in Months : DiscoverPredecessor(s, n)),
             ~Fail(s), ~FailWhileArchiving(s), ~Publish(s)
      PROVE  LedgerSession(s)'
  <2>0. sessions'[s].month = m
    BY <1>0, <1>9, Proceeds
  <2>1. CASE LoadPredecessor(s) /\ sessions'[s].pc = "prepared"
               /\ sessions'[s].opening = artifacts[sessions[s].month - 1]["lot-book"]
    BY <1>4, <2>0, <2>1
  <2>2. CASE PassGuard(s) /\ sessions'[s].pc = "confirmed" /\ sessions'[s].opening = sessions[s].opening
    BY <1>5, <2>0, <2>2
  <2>3. CASE RunPipeline(s) /\ sessions'[s].pc = "archive" /\ sessions'[s].run = Len(lineage) + 1
    BY <1>6, <2>0, <2>3
  <2>4. ASSUME sessions'[s].run = sessions[s].run, sessions'[s].pc \in RunPcs \ {"write"},
               sessions[s].pc \in RunPcs \ {"write"}
        PROVE  LedgerSession(s)'
    <3>1. sessions[s].next = 1 /\ sessions'[s].next = 1
      BY <1>0, <1>8, <2>4
    <3> QED BY <1>7, <2>0, <2>4, <3>1
  <2>5. CASE ArchiveTradeHistory(s) /\ sessions'[s].pc = "protocol" /\ sessions'[s].run = sessions[s].run
    BY <2>4, <2>5 DEF ArchiveTradeHistory, At, RunPcs
  <2>6. CASE /\ CheckProtocol(s) /\ sessions'[s].run = sessions[s].run
             /\ sessions'[s].pc = IF cutover = NoMonth THEN "cutover" ELSE "build"
    BY <2>4, <2>6 DEF CheckProtocol, At, RunPcs
  <2>7. CASE WriteProtocol(s) /\ sessions'[s].pc = "build" /\ sessions'[s].run = sessions[s].run
    BY <2>4, <2>7 DEF WriteProtocol, At, RunPcs
  <2>8. CASE BuildGeneration(s) /\ sessions'[s].pc = "unpublish" /\ sessions'[s].run = sessions[s].run
    BY <2>4, <2>8 DEF BuildGeneration, At, RunPcs
  <2>9. CASE Unpublish(s)
    <3>1. /\ sessions[s].pc = "unpublish" /\ sessions'[s].pc = "write"
          /\ sessions'[s].run = sessions[s].run /\ sessions'[s].next = 1
      BY <1>0, <2>9, UnpublishEffect
    <3>2. sessions[s].next = 1
      BY <1>0, <3>1
    <3> QED BY <1>7, <2>0, <3>1, <3>2 DEF RunPcs
  <2>10. CASE WriteArtifact(s)
    <3>1. /\ sessions[s].pc = "write" /\ sessions'[s].pc = "write"
          /\ sessions'[s].run = sessions[s].run /\ sessions'[s].next = sessions[s].next + 1
      BY <1>0, <2>10, WriteArtifactEffect
    <3>2. sessions'[s].next \in Int /\ (sessions'[s].next <= 5 => sessions[s].next <= 5)
      BY <1>0, <3>1
    <3> QED BY <1>7, <2>0, <3>1, <3>2 DEF RunPcs
  <2> QED
    BY <1>0, <1>9, <2>1, <2>2, <2>3, <2>5, <2>6, <2>7, <2>8, <2>9, <2>10, Proceeds
<1> QED BY <1>0, <1>2, <1>3, <1>9, StartsOrEnds

LEMMA NextLedgerInv ==
  ASSUME OneWizard, Inv, LedgerInv, [Next]_vars
  PROVE  LedgerInv'
<1>1. ASSUME NEW s \in Sessions, SessionStep(s) PROVE LedgerInv'
  <2>1. LedgerSession(s)'
    BY <1>1, NextLedgerSession
  <2>2. \A m \in Months : artifacts'[m]["lot-book"] \in Runs
                         => artifacts'[m]["lot-book"] <= Len(lineage')
    BY <1>1, NextBooksRecorded
  <2> QED BY <2>1, <2>2 DEF OneWizard, LedgerInv
<1>2. CASE UNCHANGED vars
  <2>1. VisibleBook' = VisibleBook /\ UNCHANGED << artifacts, sessions, lineage >>
    BY <1>2, SameBooks DEF vars
  <2> QED BY <2>1 DEF LedgerInv, LedgerSession, PredecessorBook
<1> QED BY <1>1, <1>2 DEF Next

LEMMA LedgerInit ==
  ASSUME Init
  PROVE  Ledger!Init
<1>1. /\ TypeInv /\ "lot-book" \in Kinds
      /\ \A m \in Months : artifacts[m]["lot-book"] \in {Legacy, Missing}
  BY InitTypeInv, WriteOrderFacts, SMTT(40) DEF WriteOrder, Init, StorageInit
<1>2. VisibleBook \in [Months -> Content]
  BY <1>1, VisibleFacts
<1>3. \A m \in Months : VisibleBook[m] \notin Runs
  BY <1>1, ContentAssumption, BoundsAssumption DEF VisibleBook, Runs
<1>4. OpeningOfBook = VisibleBook
  BY <1>2, <1>3 DEF OpeningOfBook
<1> QED BY <1>2, <1>4 DEF Ledger!Init, Ledger!Months, Months

\* While the visible books stay, so do the openings recorded for them.
LEMMA OpeningsKept ==
  ASSUME Inv, LedgerInv, VisibleBook' = VisibleBook, Len(lineage) <= Len(lineage'),
         \A g \in 1..Len(lineage) : lineage'[g] = lineage[g]
  PROVE  OpeningOfBook' = OpeningOfBook
<1>1. ASSUME NEW m \in Months, VisibleBook[m] \in Runs
      PROVE  lineage'[VisibleBook[m]] = lineage[VisibleBook[m]]
  <2>1. VisibleBook[m] # Missing
    BY <1>1, ContentAssumption, BoundsAssumption DEF Runs
  <2>2. VisibleBook[m] = artifacts[m]["lot-book"]
    BY <2>1, VisibleFacts DEF Inv
  <2>3. VisibleBook[m] <= Len(lineage)
    BY <1>1, <2>2 DEF LedgerInv
  <2>4. VisibleBook[m] \in 1..Len(lineage)
    BY <1>1, <2>3, StateFacts, BoundsAssumption DEF Runs, Inv
  <2> QED BY <2>4
<1> QED BY <1>1 DEF OpeningOfBook

LEMMA LedgerStep ==
  ASSUME OneWizard, Inv, LedgerInv, [Next]_vars
  PROVE  [Ledger!Next]_(Ledger!vars)
<1>1. ASSUME NEW s \in Sessions, SessionStep(s), BookAppended(s)
      PROVE  Ledger!Next
  <2> DEFINE m == sessions[s].month
             run == sessions[s].run
  <2>1. /\ m \in Months /\ run \in 1..Len(lineage) /\ run \in Runs /\ run \in Content \ {Missing}
        /\ Months = 1..LastMonth /\ TypeInv
    BY <1>1, StateFacts, ContentAssumption, BoundsAssumption
       DEF BookAppended, RunPcs, Inv, Runs, Content, Months
  <2>2. /\ lineage[run].opening = PredecessorBook(m)
        /\ \A p \in Months : p > m => VisibleBook[p] = Missing
    BY <1>1 DEF BookAppended, LedgerInv, LedgerSession, RunPcs, Guarded, Archived
  <2>3. /\ VisibleBook[m] = Missing /\ VisibleBook' = [VisibleBook EXCEPT ![m] = run]
        /\ lineage' = lineage
    BY <1>1 DEF BookAppended
  <2> HIDE DEF m, run
  <2>4. \A later \in m..LastMonth : VisibleBook[later] = Missing
    BY <2>1, <2>2, <2>3, BoundsAssumption
  <2>5. OpeningOfBook' = [OpeningOfBook EXCEPT ![m] = PredecessorBook(m)]
    <3>1. DOMAIN VisibleBook = Months
      BY DEF VisibleBook
    <3> QED BY <2>1, <2>2, <2>3, <3>1 DEF OpeningOfBook
  <2>6. Ledger!Predecessor(m) = PredecessorBook(m)
    BY DEF Ledger!Predecessor, PredecessorBook
  <2>7. Ledger!AppendMonth(m, run)
    BY <2>3, <2>4, <2>5, <2>6 DEF Ledger!AppendMonth
  <2> QED BY <2>1, <2>7 DEF Ledger!Next, Ledger!Months
<1>2. ASSUME NEW s \in Sessions, SessionStep(s), VisibleBook' = VisibleBook
      PROVE  UNCHANGED Ledger!vars
  BY <1>2, NextBooksRecorded, OpeningsKept DEF Ledger!vars
<1>3. CASE UNCHANGED vars
  <2>1. VisibleBook' = VisibleBook /\ lineage' = lineage
    BY <1>3, SameBooks DEF vars
  <2> QED BY <2>1 DEF Ledger!vars, OpeningOfBook
<1> QED BY <1>1, <1>2, <1>3, BooksStep DEF Next

\* The months that readers see grow one at a time at the end, each opened from
\* the book of the month before it: finalization implements LotLedger.
THEOREM VisibleBooksAreALedger == OneWizard => (Spec => LedgerChain)
<1> SUFFICES ASSUME OneWizard PROVE Spec => LedgerChain
  OBVIOUS
<1>1. Init => Ledger!Init /\ Inv /\ LedgerInv
  BY InvHolds, InitLedgerInv, LedgerInit
<1>2. Inv /\ LedgerInv /\ [Next]_vars => Inv' /\ LedgerInv' /\ [Ledger!Next]_(Ledger!vars)
  BY InvHolds, NextLedgerInv, LedgerStep
<1> QED BY <1>1, <1>2, PTL DEF Spec, LedgerChain, Ledger!Spec
=============================================================================
