--------------------------- MODULE DirectoryProofs ---------------------------
(***************************************************************************)
(* Proofs about the Directory, for any numbers of commits, scans, moves,   *)
(* tags, readers and registry calls that fail.                             *)
(***************************************************************************)
EXTENDS Directory, FiniteSetTheorems, SequenceTheorems, TLAPS

\* A step of a behaviour is a step of its subject.
LEMMA SubjectSteps ==
    ASSUME [Next]_vars
    PROVE  /\ subject' = subject
           /\ subject = "evidence" => [Evid!Next]_(Evid!vars)
           /\ subject = "history" => [Hist!Next]_(Hist!vars)
           /\ subject = "versions" => [Vers!Next]_(Vers!vars)
           /\ \A reader \in Readers :
                  subject = reader => [Pages(reader)!Next]_(Pages(reader)!vars)
  <1>1. CASE UNCHANGED vars
    BY <1>1 DEF vars, ofEvidence, ofHistory, ofPages, ofVersions, Evid!vars,
                Hist!vars, Hist!world, Hist!page, Pages!vars,
                Vers!vars, Vers!registry, Vers!request, Vers!reader
  <1>2. CASE Next
    BY <1>2, DirectoryAssumption DEF Next
  <1> QED
    BY <1>1, <1>2

-----------------------------------------------------------------------------
(***************************************************************************)
(* The evidence.  The scans on a digest rise in rank and in time, so the   *)
(* record that finished last is the best one; each document is that of a   *)
(* commit whose run is done.                                               *)
(***************************************************************************)

Steps == {"build", "judge vuln", "attest vuln", "judge vex", "attest vex", "done", "failed"}

EvidenceType ==
    /\ commits \in Seq(Evid!Pins)
    /\ pc \in Seq(Steps) /\ Len(pc) = Len(commits)
    /\ finished \in Seq(Nat) /\ Len(finished) = Len(commits)
    /\ clock \in Nat
    /\ scans \in Seq([db : Nat, finished : Nat])
    /\ documents \in Seq(SUBSET Vulns)

\* The runs of all commits but the newest have ended.
OneLive == \A c \in 1..Len(commits) : c < Len(commits) => pc[c] \in {"done", "failed"}

ScansRise ==
    /\ \A n \in 1..Len(scans) : scans[n].finished <= clock
    /\ \A m, n \in 1..Len(scans) :
          m < n => scans[m].finished < scans[n].finished /\ scans[m].db < scans[n].db

ScansKnown ==
    \A c \in 1..Len(commits) :
        /\ pc[c] \in {"judge vuln", "attest vuln"} =>
              /\ finished[c] <= clock
              /\ \A n \in 1..Len(scans) : scans[n].finished < finished[c]
        /\ pc[c] = "attest vuln" => \A n \in 1..Len(scans) : scans[n].db < commits[c].db
        /\ pc[c] \in {"judge vex", "attest vex", "done"} =>
              scans # <<>> /\ scans[Len(scans)].db >= commits[c].db

DocumentsDone ==
    \A n \in 1..Len(documents) :
        \E b \in 1..Len(commits) : pc[b] = "done" /\ documents[n] = commits[b].vex

EvidenceInv ==
    /\ EvidenceType /\ OneLive /\ ScansRise /\ ScansKnown
    /\ DocumentsDone /\ Evid!NewDocumentSpeaks

\* Of a digest without evidence the invariant holds, ...
LEMMA EvidenceBegins == Evid!Init => EvidenceInv
  <1> SUFFICES ASSUME Evid!Init PROVE EvidenceInv
    OBVIOUS
  <1> USE DEF Evid!Init
  <1>1. EvidenceType
    BY DEF EvidenceType
  <1>2. OneLive /\ ScansRise /\ ScansKnown /\ DocumentsDone
    BY DEF OneLive, ScansRise, ScansKnown, DocumentsDone
  <1>3. Evid!NewDocumentSpeaks
    BY DEF Evid!NewDocumentSpeaks, Evid!Commits
  <1> QED
    BY <1>1, <1>2, <1>3 DEF EvidenceInv

\* Where the sequences of the evidence have their elements.
LEMMA EvidenceDomains ==
    ASSUME EvidenceType
    PROVE  /\ Len(commits) \in Nat /\ DOMAIN commits = 1..Len(commits)
           /\ DOMAIN pc = 1..Len(commits) /\ DOMAIN finished = 1..Len(commits)
           /\ Len(scans) \in Nat /\ DOMAIN scans = 1..Len(scans)
           /\ Len(documents) \in Nat /\ DOMAIN documents = 1..Len(documents)
           /\ \A c \in 1..Len(commits) :
                  commits[c] \in Evid!Pins /\ commits[c].db \in Nat
                  /\ commits[c].vex \in SUBSET Vulns
                  /\ pc[c] \in Steps /\ finished[c] \in Nat
           /\ \A n \in 1..Len(scans) : scans[n].db \in Nat /\ scans[n].finished \in Nat
  <1>1. /\ commits \in Seq(Evid!Pins) /\ pc \in Seq(Steps) /\ finished \in Seq(Nat)
        /\ scans \in Seq([db : Nat, finished : Nat]) /\ documents \in Seq(SUBSET Vulns)
        /\ Len(pc) = Len(commits) /\ Len(finished) = Len(commits)
    BY DEF EvidenceType
  <1>2. \A p \in Evid!Pins : p.db \in Nat /\ p.vex \in SUBSET Vulns
    BY DirectoryAssumption DEF Evid!Pins, Evid!EvidenceAssumption
  <1>3. /\ Len(commits) \in Nat /\ DOMAIN commits = 1..Len(commits)
        /\ DOMAIN pc = 1..Len(commits) /\ DOMAIN finished = 1..Len(commits)
    BY <1>1, LenProperties
  <1>4. /\ Len(scans) \in Nat /\ DOMAIN scans = 1..Len(scans)
        /\ Len(documents) \in Nat /\ DOMAIN documents = 1..Len(documents)
    BY <1>1, LenProperties
  <1>5. ASSUME NEW c \in 1..Len(commits)
        PROVE  commits[c] \in Evid!Pins /\ pc[c] \in Steps /\ finished[c] \in Nat
    BY <1>1, ElementOfSeq
  <1>6. ASSUME NEW n \in 1..Len(scans)
        PROVE  scans[n].db \in Nat /\ scans[n].finished \in Nat
    <2>1. scans[n] \in [db : Nat, finished : Nat]
      BY <1>1, ElementOfSeq
    <2> QED
      BY <2>1
  <1> QED
    BY <1>2, <1>3, <1>4, <1>5, <1>6

\* A new commit comes when the runs of the earlier ones have ended.
LEMMA CommitStep ==
    ASSUME EvidenceInv, NEW pin \in Evid!Pins, Evid!Commit(pin)
    PROVE  EvidenceInv'
  <1> DEFINE N == Len(commits)
  <1>1. EvidenceType /\ OneLive /\ ScansRise /\ ScansKnown /\ DocumentsDone
        /\ Evid!NewDocumentSpeaks
    BY DEF EvidenceInv
  <1>2. /\ N \in Nat /\ DOMAIN commits = 1..N
        /\ Len(documents) \in Nat
    BY <1>1, EvidenceDomains
  <1>3. /\ commits' = Append(commits, pin) /\ pc' = Append(pc, "build")
        /\ finished' = Append(finished, 0)
        /\ UNCHANGED <<clock, scans, documents>>
        /\ \A c \in 1..N : pc[c] \in {"done", "failed"}
    BY <1>2 DEF Evid!Commit, Evid!Commits, Evid!Ended
  <1>4. /\ commits' \in Seq(Evid!Pins) /\ Len(commits') = N + 1
        /\ \A c \in 1..N : commits'[c] = commits[c]
    BY <1>1, <1>3, AppendProperties DEF EvidenceType
  <1>5. /\ pc' \in Seq(Steps) /\ Len(pc') = N + 1
        /\ \A c \in 1..N : pc'[c] = pc[c]
        /\ pc'[N + 1] = "build"
    <2>1. "build" \in Steps
      BY DEF Steps
    <2> QED
      BY <1>1, <1>3, <2>1, AppendProperties DEF EvidenceType
  <1>6. /\ finished' \in Seq(Nat) /\ Len(finished') = N + 1
        /\ \A c \in 1..N : finished'[c] = finished[c]
    BY <1>1, <1>3, AppendProperties DEF EvidenceType
  <1>7. EvidenceType'
    BY <1>1, <1>3, <1>4, <1>5, <1>6 DEF EvidenceType
  <1> HIDE DEF N
  <1>8. 1..(N + 1) = (1..N) \cup {N + 1} /\ N + 1 \notin 1..N
    BY <1>2
  <1>9. Len(commits) = N /\ Len(commits') = N + 1
    BY <1>4 DEF N
  <1>10. OneLive'
    BY <1>2, <1>3, <1>5, <1>8, <1>9 DEF OneLive
  <1>11. ScansRise'
    BY <1>1, <1>3 DEF ScansRise
  <1>12. ScansKnown'
    <2>1. ASSUME NEW c \in 1..Len(commits'), c \in 1..N
          PROVE  commits'[c] = commits[c] /\ pc'[c] = pc[c] /\ finished'[c] = finished[c]
      BY <2>1, <1>4, <1>5, <1>6
    <2>2. ASSUME NEW c \in 1..Len(commits'), c \notin 1..N
          PROVE  pc'[c] = "build"
      BY <2>2, <1>5, <1>8, <1>9
    <2> QED
      BY <1>1, <1>3, <1>9, <2>1, <2>2 DEF ScansKnown
  <1>13. DocumentsDone'
    <2> SUFFICES ASSUME NEW n \in 1..Len(documents)
                 PROVE  \E b \in 1..(N + 1) : pc'[b] = "done" /\ documents[n] = commits'[b].vex
      BY <1>3, <1>9 DEF DocumentsDone
    <2>1. PICK b \in 1..N : pc[b] = "done" /\ documents[n] = commits[b].vex
      BY <1>1, <1>9 DEF DocumentsDone
    <2> QED
      BY <2>1, <1>4, <1>5, <1>8
  <1>14. (Evid!NewDocumentSpeaks)'
    <2> SUFFICES ASSUME NEW c \in 1..(N + 1), pc'[c] = "done", commits'[c].vex # {},
                        \A b \in 1..(c - 1) : commits'[b].vex # commits'[c].vex,
                        \A b \in 1..(N + 1) : b > c => pc'[b] = "build"
                 PROVE  (Evid!Silenced)' = commits'[c].vex
      <3>1. DOMAIN commits' = 1..(N + 1)
        BY <1>7, <1>9, EvidenceDomains
      <3> QED
        BY <3>1 DEF Evid!NewDocumentSpeaks, Evid!Commits, Evid!HasTarget
    <2>1. c \in 1..N
      BY <1>5, <1>8
    <2>2. \A b \in 1..(c - 1) : commits[b].vex # commits[c].vex
      BY <2>1, <1>2, <1>4
    <2>3. \A b \in 1..N : b > c => pc[b] = "build"
      BY <1>5, <1>8
    <2>4. Evid!Silenced = commits[c].vex
      BY <1>1, <1>2, <1>4, <1>5, <2>1, <2>2, <2>3 DEF Evid!NewDocumentSpeaks, Evid!Commits,
         Evid!HasTarget
    <2> QED
      BY <1>3, <1>4, <2>1, <2>4 DEF Evid!Silenced, Evid!NewestStatement
  <1> QED
    BY <1>7, <1>10, <1>11, <1>12, <1>13, <1>14 DEF EvidenceInv

\* A run that has not ended is that of the newest commit.
LEMMA RunIsNewest ==
    ASSUME EvidenceInv, NEW c \in 1..MaxCommits, Evid!RunStep(c)
    PROVE  /\ c = Len(commits) /\ c \in 1..Len(commits)
           /\ pc[c] \notin {"done", "failed"}
           /\ commits' = commits
           /\ \E step \in Steps : pc' = [pc EXCEPT ![c] = step]
  <1>1. /\ c \in Evid!Commits /\ pc[c] \notin {"done", "failed"} /\ commits' = commits
    BY DEF Evid!RunStep, Evid!Build, Evid!JudgeVuln, Evid!AttestVuln, Evid!JudgeVex,
           Evid!AttestVex, Evid!RunFails, Evid!At, Evid!Ended
  <1>2. \E step \in Steps : pc' = [pc EXCEPT ![c] = step]
    BY DEF Evid!RunStep, Evid!Build, Evid!JudgeVuln, Evid!AttestVuln, Evid!JudgeVex,
           Evid!AttestVex, Evid!RunFails, Evid!Goto, Steps
  <1>3. EvidenceType /\ OneLive
    BY DEF EvidenceInv
  <1>4. Len(commits) \in Nat /\ c \in 1..Len(commits)
    BY <1>1, <1>3, EvidenceDomains DEF Evid!Commits
  <1>5. c = Len(commits)
    BY <1>1, <1>3, <1>4 DEF OneLive
  <1> QED
    BY <1>1, <1>2, <1>4, <1>5

\* The steps of a run keep the invariant.
LEMMA RunStepKeeps ==
    ASSUME EvidenceInv, NEW c \in 1..MaxCommits, Evid!RunStep(c)
    PROVE  EvidenceInv'
  <1>1. EvidenceType /\ OneLive /\ ScansRise /\ ScansKnown /\ DocumentsDone
        /\ Evid!NewDocumentSpeaks
    BY DEF EvidenceInv
  <1>2. /\ c = Len(commits) /\ c \in 1..Len(commits) /\ commits' = commits
        /\ pc[c] \notin {"done", "failed"}
    BY RunIsNewest
  <1>3. /\ pc' \in Seq(Steps) /\ Len(pc') = Len(commits)
        /\ \A b \in 1..Len(commits) : b # c => pc'[b] = pc[b]
    <2>1. PICK step \in Steps : pc' = [pc EXCEPT ![c] = step]
      BY RunIsNewest
    <2> QED
      BY <1>1, <1>2, <2>1, ExceptSeq DEF EvidenceType
  <1>4. \A step : Evid!Goto(c, step) => pc'[c] = step
    BY <1>1, <1>2, EvidenceDomains DEF Evid!Goto
  <1>5. Len(commits) \in Nat /\ Len(scans) \in Nat /\ Len(documents) \in Nat /\ clock \in Nat
    BY <1>1, EvidenceDomains DEF EvidenceType
  <1>15. /\ DOMAIN commits = 1..Len(commits) /\ DOMAIN scans = 1..Len(scans)
         /\ DOMAIN documents = 1..Len(documents)
    BY <1>1, EvidenceDomains
  <1>16. \A b \in 1..Len(commits) :
            commits[b].db \in Nat /\ commits[b].vex \in SUBSET Vulns /\ finished[b] \in Nat
    BY <1>1, EvidenceDomains
  <1>17. \A n \in 1..Len(scans) : scans[n].db \in Nat /\ scans[n].finished \in Nat
    BY <1>1, EvidenceDomains
  <1>6. OneLive'
    BY <1>1, <1>2, <1>3 DEF OneLive
  <1>7. pc'[c] \notin {"build", "done"} => (Evid!NewDocumentSpeaks)'
    <2> SUFFICES ASSUME pc'[c] \notin {"build", "done"},
                        NEW b \in 1..Len(commits), pc'[b] = "done",
                        \A d \in 1..Len(commits) : d > b => pc'[d] = "build"
                 PROVE  FALSE
      BY <1>2, <1>15 DEF Evid!NewDocumentSpeaks, Evid!Commits
    <2> QED
      BY <1>2, <1>5
  <1>8. pc'[c] # "done" /\ documents' = documents => DocumentsDone'
    BY <1>1, <1>2, <1>3 DEF DocumentsDone
  <1>9. CASE Evid!Build(c)
    <2>1. /\ clock' = clock + 1 /\ finished' = [finished EXCEPT ![c] = clock + 1]
          /\ scans' = scans /\ documents' = documents
      BY <1>9 DEF Evid!Build
    <2>6. pc'[c] = "judge vuln"
      BY <1>4, <1>9 DEF Evid!Build
    <2>2. /\ finished' \in Seq(Nat) /\ Len(finished') = Len(commits)
          /\ \A b \in 1..Len(commits) : b # c => finished'[b] = finished[b]
          /\ finished'[c] = clock + 1
      <3>1. finished \in Seq(Nat) /\ c \in 1..Len(finished) /\ clock + 1 \in Nat
            /\ Len(finished) = Len(commits)
        BY <1>1, <1>2 DEF EvidenceType
      <3> QED
        BY <2>1, <3>1, ExceptSeq
    <2>3. EvidenceType'
      BY <1>1, <1>2, <1>3, <2>1, <2>2 DEF EvidenceType
    <2>4. ScansRise'
      BY <1>1, <1>5, <1>17, <2>1 DEF ScansRise
    <2>5. ScansKnown'
      <3> SUFFICES ASSUME NEW b \in 1..Len(commits)
                   PROVE  /\ pc'[b] \in {"judge vuln", "attest vuln"} =>
                                 /\ finished'[b] <= clock'
                                 /\ \A n \in 1..Len(scans) : scans[n].finished < finished'[b]
                          /\ pc'[b] = "attest vuln" =>
                                 \A n \in 1..Len(scans) : scans[n].db < commits[b].db
                          /\ pc'[b] \in {"judge vex", "attest vex", "done"} =>
                                 scans # <<>> /\ scans[Len(scans)].db >= commits[b].db
        BY <1>2, <2>1 DEF ScansKnown
      <3>1. CASE b = c
        <4>1. finished'[c] = clock + 1 /\ clock' = clock + 1
          BY <2>1, <2>2
        <4>2. \A n \in 1..Len(scans) : scans[n].finished <= clock
          BY <1>1 DEF ScansRise
        <4>3. finished'[c] <= clock' /\ \A n \in 1..Len(scans) : scans[n].finished < finished'[c]
          BY <1>5, <1>17, <4>1, <4>2
        <4> QED
          BY <3>1, <2>6, <4>3
      <3>2. CASE b # c
        <4>1. finished'[b] = finished[b] /\ pc'[b] = pc[b]
          BY <3>2, <1>3, <2>2
        <4>2. finished[b] <= clock => finished'[b] <= clock'
          BY <1>5, <1>16, <2>1, <4>1
        <4> QED
          BY <1>1, <4>1, <4>2 DEF ScansKnown
      <3> QED
        BY <3>1, <3>2
    <2> QED
      BY <1>6, <1>7, <1>8, <2>1, <2>6, <2>3, <2>4, <2>5 DEF EvidenceInv
  <1>10. CASE Evid!JudgeVuln(c)
    <2>1. /\ pc'[c] = IF Evid!StaleVuln(c) THEN "attest vuln" ELSE "judge vex"
          /\ pc[c] = "judge vuln"
          /\ finished' = finished /\ clock' = clock /\ scans' = scans /\ documents' = documents
      BY <1>4, <1>10 DEF Evid!JudgeVuln, Evid!At
    <2>2. EvidenceType'
      BY <1>1, <1>2, <1>3, <2>1 DEF EvidenceType
    <2>3. ScansRise'
      BY <1>1, <2>1 DEF ScansRise
    <2>4. CASE Evid!StaleVuln(c)
      <3>1. \A n \in 1..Len(scans) : scans[n].db < commits[c].db
        BY <1>15, <2>4 DEF Evid!StaleVuln
      <3>2. ScansKnown'
        BY <1>1, <1>2, <1>3, <2>1, <2>4, <3>1 DEF ScansKnown
      <3> QED
        BY <1>6, <1>7, <1>8, <2>1, <2>2, <2>3, <2>4, <3>2 DEF EvidenceInv
    <2>5. CASE ~Evid!StaleVuln(c)
      <3>1. PICK n \in 1..Len(scans) : ~(scans[n].db < commits[c].db)
        BY <1>15, <2>5 DEF Evid!StaleVuln
      <3>2. scans # <<>> /\ scans[Len(scans)].db >= commits[c].db
        <4>1. Len(scans) # 0 /\ Len(scans) \in 1..Len(scans)
          BY <1>5, <3>1
        <4>2. n = Len(scans) \/ n < Len(scans)
          BY <1>5, <3>1
        <4>3. scans[Len(scans)].db >= scans[n].db
          BY <1>1, <1>17, <3>1, <4>1, <4>2 DEF ScansRise
        <4> QED
          BY <1>2, <1>16, <1>17, <3>1, <4>1, <4>3
      <3>3. ScansKnown'
        BY <1>1, <1>2, <1>3, <2>1, <2>5, <3>2 DEF ScansKnown
      <3> QED
        BY <1>6, <1>7, <1>8, <2>1, <2>2, <2>3, <2>5, <3>3 DEF EvidenceInv
    <2> QED
      BY <2>4, <2>5
  <1>11. CASE Evid!AttestVuln(c)
    <2> DEFINE e == [db |-> commits[c].db, finished |-> finished[c]]
    <2>1. /\ pc'[c] = "judge vex" /\ pc[c] = "attest vuln"
          /\ scans' = Append(scans, e)
          /\ finished' = finished /\ clock' = clock /\ documents' = documents
      BY <1>4, <1>11 DEF Evid!AttestVuln, Evid!At
    <2>2. e \in [db : Nat, finished : Nat]
      BY <1>2, <1>16
    <2>3. /\ scans' \in Seq([db : Nat, finished : Nat]) /\ Len(scans') = Len(scans) + 1
          /\ \A n \in 1..Len(scans) : scans'[n] = scans[n]
          /\ scans'[Len(scans) + 1] = e /\ scans' # <<>>
      <3>1. scans \in Seq([db : Nat, finished : Nat])
        BY <1>1 DEF EvidenceType
      <3>2. scans' = Append(scans, e)
        BY <2>1
      <3> HIDE DEF e
      <3> QED
        BY <2>2, <3>1, <3>2, AppendProperties
    <2>4. EvidenceType'
      BY <1>1, <1>2, <1>3, <2>1, <2>3 DEF EvidenceType
    <2>5. /\ e.finished = finished[c] /\ e.db = commits[c].db
          /\ finished[c] <= clock
          /\ \A n \in 1..Len(scans) : scans[n].finished < finished[c]
                                      /\ scans[n].db < commits[c].db
      BY <1>1, <1>2, <2>1 DEF ScansKnown
    <2> HIDE DEF e
    <2>6. \A n \in 1..Len(scans') : n \in 1..Len(scans) \/ n = Len(scans) + 1
      BY <1>5, <2>3
    <2>7. ScansRise'
      <3>1. ASSUME NEW n \in 1..Len(scans)
            PROVE  /\ scans'[n].finished = scans[n].finished /\ scans'[n].db = scans[n].db
                   /\ scans[n].finished <= clock
        BY <1>1, <2>3 DEF ScansRise
      <3>2. /\ scans'[Len(scans) + 1].finished = finished[c]
            /\ scans'[Len(scans) + 1].db = commits[c].db
        BY <2>3, <2>5
      <3>3. clock' = clock
        BY <2>1
      <3>4. \A n \in 1..Len(scans') : scans'[n].finished <= clock'
        BY <2>5, <2>6, <3>1, <3>2, <3>3
      <3>5. ASSUME NEW m \in 1..Len(scans'), NEW n \in 1..Len(scans'), m < n
            PROVE  scans'[m].finished < scans'[n].finished /\ scans'[m].db < scans'[n].db
        <4>1. m \in 1..Len(scans)
          BY <1>5, <2>6, <3>5
        <4>2. CASE n \in 1..Len(scans)
          <5>1. scans[m].finished < scans[n].finished /\ scans[m].db < scans[n].db
            BY <1>1, <3>5, <4>1, <4>2 DEF ScansRise
          <5> QED
            BY <3>1, <4>1, <4>2, <5>1
        <4>3. CASE n = Len(scans) + 1
          BY <2>5, <3>1, <3>2, <4>1, <4>3
        <4> QED
          BY <2>6, <4>2, <4>3
      <3> QED
        BY <3>4, <3>5 DEF ScansRise
    <2>8. ScansKnown'
      <3> SUFFICES ASSUME NEW b \in 1..Len(commits)
                   PROVE  /\ pc'[b] \notin {"judge vuln", "attest vuln"}
                          /\ pc'[b] \in {"judge vex", "attest vex", "done"} =>
                                 scans'[Len(scans')].db >= commits[b].db
        BY <1>2, <2>3 DEF ScansKnown
      <3>1. CASE b = c
        <4>1. scans'[Len(scans')].db = commits[c].db
          BY <2>3, <2>5
        <4>2. scans'[Len(scans')].db >= commits[c].db
          BY <1>2, <1>16, <4>1
        <4>3. pc'[c] = "judge vex"
          BY <2>1
        <4> QED
          BY <3>1, <4>2, <4>3
      <3>2. CASE b # c
        <4>1. pc'[b] = pc[b] /\ pc[b] \in {"done", "failed"}
          BY <3>2, <1>1, <1>2, <1>3, <1>5 DEF OneLive
        <4>2. CASE pc[b] = "done"
          <5>1. scans # <<>> /\ scans[Len(scans)].db >= commits[b].db
            BY <1>1, <4>2 DEF ScansKnown
          <5>2. Len(scans) \in 1..Len(scans)
            BY <1>1, <1>5, <5>1, EmptySeq DEF EvidenceType
          <5> QED
            <6>1. scans'[Len(scans')].db = commits[c].db
              BY <2>3, <2>5
            <6>2. scans[Len(scans)].db < commits[c].db
              BY <2>5, <5>2
            <6>3. scans'[Len(scans')].db >= commits[b].db
              BY <1>2, <1>16, <1>17, <5>1, <5>2, <6>1, <6>2
            <6> QED
              BY <4>1, <4>2, <6>3
        <4> QED
          BY <4>1, <4>2
      <3> QED
        BY <3>1, <3>2
    <2> QED
      BY <1>6, <1>7, <1>8, <2>1, <2>4, <2>7, <2>8 DEF EvidenceInv
  <1>12. CASE Evid!JudgeVex(c)
    <2>1. /\ pc'[c] = IF Evid!HasTarget(c) /\ Evid!StaleOpenvex(c) THEN "attest vex" ELSE "done"
          /\ pc[c] = "judge vex"
          /\ finished' = finished /\ clock' = clock /\ scans' = scans /\ documents' = documents
      BY <1>4, <1>12 DEF Evid!JudgeVex, Evid!At
    <2>2. EvidenceType'
      BY <1>1, <1>2, <1>3, <2>1 DEF EvidenceType
    <2>3. ScansRise'
      BY <1>1, <2>1 DEF ScansRise
    <2>4. ScansKnown'
      BY <1>1, <1>2, <1>3, <2>1 DEF ScansKnown
    <2>5. DocumentsDone'
      BY <1>1, <1>2, <1>3, <2>1 DEF DocumentsDone
    <2>6. (Evid!NewDocumentSpeaks)'
      <3>1. CASE pc'[c] = "done"
        <4> SUFFICES ASSUME NEW b \in 1..Len(commits), pc'[b] = "done", commits[b].vex # {},
                            \A d \in 1..(b - 1) : commits[d].vex # commits[b].vex,
                            \A d \in 1..Len(commits) : d > b => pc'[d] = "build"
                     PROVE  FALSE
          BY <1>2, <1>15 DEF Evid!NewDocumentSpeaks, Evid!Commits, Evid!HasTarget
        <4>1. b = c
          BY <1>2, <1>5, <3>1
        <4>2. PICK n \in 1..Len(documents) : documents[n] = commits[c].vex
          BY <1>15, <2>1, <3>1, <4>1 DEF Evid!HasTarget, Evid!StaleOpenvex
        <4>3. PICK d \in 1..Len(commits) : pc[d] = "done" /\ documents[n] = commits[d].vex
          BY <1>1 DEF DocumentsDone
        <4>4. d # c
          BY <2>1, <4>3
        <4>5. d \in 1..(c - 1)
          BY <1>2, <1>5, <4>4
        <4> QED
          BY <4>1, <4>2, <4>3, <4>5
      <3>2. CASE pc'[c] # "done"
        BY <1>7, <2>1, <3>2
      <3> QED
        BY <3>1, <3>2
    <2> QED
      BY <1>6, <2>2, <2>3, <2>4, <2>5, <2>6 DEF EvidenceInv
  <1>13. CASE Evid!AttestVex(c)
    <2>1. /\ pc'[c] = "done" /\ pc[c] = "attest vex"
          /\ documents' = Append(documents, commits[c].vex)
          /\ finished' = finished /\ clock' = clock /\ scans' = scans
      BY <1>4, <1>13 DEF Evid!AttestVex, Evid!At
    <2>2. /\ documents' \in Seq(SUBSET Vulns) /\ Len(documents') = Len(documents) + 1
          /\ \A n \in 1..Len(documents) : documents'[n] = documents[n]
          /\ documents'[Len(documents')] = commits[c].vex /\ documents' # <<>>
      <3>1. documents \in Seq(SUBSET Vulns) /\ commits[c].vex \in SUBSET Vulns
        BY <1>1, <1>2, <1>16 DEF EvidenceType
      <3>2. documents' = Append(documents, commits[c].vex)
        BY <2>1
      <3> QED
        BY <3>1, <3>2, AppendProperties
    <2>3. EvidenceType'
      BY <1>1, <1>2, <1>3, <2>1, <2>2 DEF EvidenceType
    <2>4. ScansRise'
      BY <1>1, <2>1 DEF ScansRise
    <2>5. ScansKnown'
      BY <1>1, <1>2, <1>3, <2>1 DEF ScansKnown
    <2>6. DocumentsDone'
      <3> SUFFICES ASSUME NEW n \in 1..Len(documents')
                   PROVE  \E b \in 1..Len(commits) : pc'[b] = "done" /\ documents'[n] = commits[b].vex
        BY <1>2 DEF DocumentsDone
      <3>1. CASE n \in 1..Len(documents)
        <4>1. PICK b \in 1..Len(commits) : pc[b] = "done" /\ documents[n] = commits[b].vex
          BY <1>1, <3>1 DEF DocumentsDone
        <4> QED
          BY <1>2, <1>3, <2>2, <3>1, <4>1
      <3>2. CASE n = Len(documents')
        BY <1>2, <2>1, <2>2, <3>2
      <3> QED
        BY <1>5, <2>2, <3>1, <3>2
    <2>7. (Evid!NewDocumentSpeaks)'
      <3> SUFFICES ASSUME NEW b \in 1..Len(commits),
                          \A d \in 1..Len(commits) : d > b => pc'[d] = "build"
                   PROVE  (Evid!Silenced)' = commits[b].vex
        BY <1>2, <1>15 DEF Evid!NewDocumentSpeaks, Evid!Commits
      <3>1. b = c
        <4>1. pc'[c] = "done"
          BY <2>1
        <4> QED
          BY <1>2, <1>5, <4>1
      <3> QED
        BY <2>2, <3>1 DEF Evid!Silenced, Evid!NewestStatement
    <2> QED
      BY <1>6, <2>3, <2>4, <2>5, <2>6, <2>7 DEF EvidenceInv
  <1>14. CASE Evid!RunFails(c)
    <2>1. pc'[c] = "failed" /\ finished' = finished /\ clock' = clock /\ scans' = scans /\ documents' = documents
      BY <1>4, <1>14 DEF Evid!RunFails
    <2>2. EvidenceType'
      BY <1>1, <1>2, <1>3, <2>1 DEF EvidenceType
    <2>3. ScansRise'
      BY <1>1, <2>1 DEF ScansRise
    <2>4. ScansKnown'
      BY <1>1, <1>2, <1>3, <2>1 DEF ScansKnown
    <2> QED
      BY <1>6, <1>7, <1>8, <2>1, <2>2, <2>3, <2>4 DEF EvidenceInv
  <1> QED
    BY <1>9, <1>10, <1>11, <1>12, <1>13, <1>14 DEF Evid!RunStep

\* ... no judgement, scan, document or failure breaks it, ...
LEMMA EvidenceStep == EvidenceInv /\ [Evid!Next]_(Evid!vars) => EvidenceInv'
  <1> SUFFICES ASSUME EvidenceInv, [Evid!Next]_(Evid!vars) PROVE EvidenceInv'
    OBVIOUS
  <1>1. CASE UNCHANGED Evid!vars
    BY <1>1 DEF Evid!vars, EvidenceInv, EvidenceType, OneLive, ScansRise, ScansKnown,
                DocumentsDone, Evid!NewDocumentSpeaks, Evid!Commits, Evid!HasTarget,
                Evid!Silenced, Evid!NewestStatement
  <1> QED
    BY <1>1, CommitStep, RunStepKeeps DEF Evid!Next

\* The record that finished last is the last one attached.
LEMMA LastScanIsNewest ==
    ASSUME EvidenceInv, scans # <<>>
    PROVE  Evid!NewestScan = Len(scans)
  <1>1. EvidenceType /\ ScansRise
    BY DEF EvidenceInv
  <1>2. /\ Len(scans) \in Nat \ {0} /\ DOMAIN scans = 1..Len(scans)
        /\ \A n \in 1..Len(scans) : scans[n].finished \in Nat
    BY <1>1, EvidenceDomains, EmptySeq DEF EvidenceType
  <1> DEFINE Newest(n) == \A m \in DOMAIN scans :
                 \/ scans[n].finished > scans[m].finished
                 \/ scans[n].finished = scans[m].finished /\ n <= m
  <1>3. Len(scans) \in DOMAIN scans /\ Newest(Len(scans))
    BY <1>1, <1>2 DEF ScansRise
  <1>4. ASSUME NEW n \in DOMAIN scans, Newest(n)
        PROVE  n = Len(scans)
    BY <1>1, <1>2, <1>3, <1>4 DEF ScansRise
  <1>5. Evid!NewestScan = CHOOSE n \in DOMAIN scans : Newest(n)
    BY DEF Evid!NewestScan
  <1> HIDE DEF Newest
  <1> QED
    BY <1>3, <1>4, <1>5

\* ... and where it does, the scan shown is as good as any finished commit's
\* and the newest document speaks.
LEMMA EvidenceSuffices == EvidenceInv => Evid!BestScanShown /\ Evid!NewDocumentSpeaks
  <1> SUFFICES ASSUME EvidenceInv, NEW c \in 1..Len(commits), pc[c] = "done"
               PROVE  scans[Evid!NewestScan].db >= commits[c].db
    BY EvidenceDomains DEF EvidenceInv, Evid!BestScanShown, Evid!Commits
  <1>1. scans # <<>> /\ scans[Len(scans)].db >= commits[c].db
    BY DEF EvidenceInv, ScansKnown
  <1> QED
    BY <1>1, LastScanIsNewest

EvidenceKept == subject = "evidence" => EvidenceInv

\* The invariant of the evidence holds in every state.
LEMMA EvidenceInvariant == Spec => []EvidenceKept
  <1>1. Init => EvidenceKept
    BY EvidenceBegins, DirectoryAssumption DEF Init, EvidenceKept
  <1>2. EvidenceKept /\ [Next]_vars => EvidenceKept'
    BY SubjectSteps, EvidenceStep DEF EvidenceKept
  <1> QED
    BY <1>1, <1>2, PTL DEF Spec

\* The page of a digest shows a scan of the best database any finished run
\* had, while the runs of its commits do not overlap (newestScan, stale_vuln).
THEOREM BestEvidence == Spec => []BestScanShown
  <1>1. EvidenceKept => BestScanShown
    BY EvidenceSuffices DEF EvidenceKept, BestScanShown
  <1> QED
    BY <1>1, EvidenceInvariant, PTL

\* A VEX document no earlier commit carried is the one that speaks when its run
\* is done (newestStatement, stale_openvex).
THEOREM NewDocumentHeard == Spec => []NewDocumentSpeaks
  <1>1. EvidenceKept => NewDocumentSpeaks
    BY EvidenceSuffices DEF EvidenceKept, NewDocumentSpeaks
  <1> QED
    BY <1>1, EvidenceInvariant, PTL

-----------------------------------------------------------------------------
(***************************************************************************)
(* The history of a tag.  The ledger rises in time, the eras follow the    *)
(* ledger as it was read, and the era of the current build, when the       *)
(* ledger does not end with it, closes the list.  So the order the page    *)
(* sorts its eras into is the order they already have.                     *)
(***************************************************************************)

Moves == [digest : Digests, at : Nat]
Eras == [digest : Digests, from : Nat, scans : SUBSET Nat]

HistoryType ==
    /\ clock \in Nat /\ names \in Digests /\ digest \in Digests
    /\ scanned \in [Digests -> SUBSET Nat] /\ series \in SUBSET Nat
    /\ ledger \in Seq(Moves) /\ moves \in Seq(Moves) /\ eras \in Seq(Eras)

LedgerRises ==
    /\ \A n \in 1..Len(ledger) : 0 < ledger[n].at /\ ledger[n].at <= clock
    /\ \A m, n \in 1..Len(ledger) : m < n => ledger[m].at < ledger[n].at

MovesRise ==
    /\ \A n \in 1..Len(moves) : 0 < moves[n].at
    /\ \A m, n \in 1..Len(moves) : m < n => moves[m].at < moves[n].at

\* The n-th era is that of the n-th move, and shows the current build as read.
Follows(n) ==
    /\ eras[n].digest = moves[n].digest /\ eras[n].from = moves[n].at
    /\ eras[n].digest = digest => eras[n].scans = series

EndsWithCurrent ==
    /\ Len(eras) # 0 /\ Len(eras) >= Len(moves)
    /\ eras[Len(eras)].digest = digest /\ eras[Len(eras)].scans = series
    /\ Len(eras) > Len(moves) => eras[Len(eras)].from = 0

ErasFollow ==
    /\ Len(eras) <= Len(moves) + 1
    /\ \A n \in 1..Len(eras) : n <= Len(moves) => Follows(n)
    /\ pc \in {"start", "404", "ledger"} => moves = <<>> /\ eras = <<>>
    /\ pc = "eras" => Len(eras) <= Len(moves)
    /\ pc = "drawn" => EndsWithCurrent

HistoryInv == HistoryType /\ LedgerRises /\ MovesRise /\ ErasFollow

\* Before the first move and the first page the invariant holds, ...
LEMMA HistoryBegins == Hist!Init => HistoryInv
  <1> SUFFICES ASSUME Hist!Init PROVE HistoryInv
    OBVIOUS
  <1>1. HistoryType /\ Len(ledger) = 0 /\ Len(moves) = 0 /\ Len(eras) = 0
    BY DEF Hist!Init, HistoryType
  <1>2. pc = "start" /\ moves = <<>> /\ eras = <<>>
    BY DEF Hist!Init
  <1>3. LedgerRises /\ MovesRise
    BY <1>1 DEF LedgerRises, MovesRise
  <1>4. ErasFollow
    BY <1>1, <1>2 DEF ErasFollow
  <1> QED
    BY <1>1, <1>3, <1>4 DEF HistoryInv

\* What the elements of the history's sequences are.
LEMMA HistoryElements ==
    ASSUME HistoryType
    PROVE  /\ Len(ledger) \in Nat /\ DOMAIN ledger = 1..Len(ledger)
           /\ Len(moves) \in Nat /\ DOMAIN moves = 1..Len(moves)
           /\ Len(eras) \in Nat /\ DOMAIN eras = 1..Len(eras)
           /\ \A n \in 1..Len(ledger) : ledger[n].digest \in Digests /\ ledger[n].at \in Nat
           /\ \A n \in 1..Len(moves) : moves[n].digest \in Digests /\ moves[n].at \in Nat
           /\ \A n \in 1..Len(eras) : eras[n].from \in Nat /\ eras[n].scans \in SUBSET Nat
  <1>1. ledger \in Seq(Moves) /\ moves \in Seq(Moves) /\ eras \in Seq(Eras)
    BY DEF HistoryType
  <1>2. /\ Len(ledger) \in Nat /\ DOMAIN ledger = 1..Len(ledger)
        /\ Len(moves) \in Nat /\ DOMAIN moves = 1..Len(moves)
        /\ Len(eras) \in Nat /\ DOMAIN eras = 1..Len(eras)
    BY <1>1, LenProperties
  <1>3. ASSUME NEW n \in 1..Len(ledger) PROVE ledger[n] \in Moves
    BY <1>1, ElementOfSeq
  <1>4. ASSUME NEW n \in 1..Len(moves) PROVE moves[n] \in Moves
    BY <1>1, ElementOfSeq
  <1>5. ASSUME NEW n \in 1..Len(eras) PROVE eras[n] \in Eras
    BY <1>1, ElementOfSeq
  <1> QED
    BY <1>2, <1>3, <1>4, <1>5 DEF Moves, Eras

\* A step of the registry leaves the page alone.
LEMMA RegistryStep ==
    ASSUME HistoryInv,
           \/ \E d \in Digests : Hist!Rescan(d) \/ Hist!MoveTag(d)
           \/ Hist!Record \/ Hist!RecordFails
    PROVE  HistoryInv'
  <1>1. HistoryType /\ LedgerRises /\ MovesRise /\ ErasFollow
    BY DEF HistoryInv
  <1>2. UNCHANGED <<pc, digest, series, moves, eras>>
    BY DEF Hist!Rescan, Hist!MoveTag, Hist!Record, Hist!RecordFails, Hist!page
  <1>3. MovesRise' /\ ErasFollow'
    BY <1>1, <1>2 DEF MovesRise, ErasFollow, Follows, EndsWithCurrent
  <1>4. clock \in Nat /\ Len(ledger) \in Nat
        /\ \A n \in 1..Len(ledger) : ledger[n].at \in Nat
    BY <1>1, HistoryElements DEF HistoryType
  <1>5. CASE UNCHANGED ledger /\ clock' \in {clock, clock + 1}
    <2>1. LedgerRises'
      BY <1>1, <1>4, <1>5 DEF LedgerRises
    <2>2. scanned' \in [Digests -> SUBSET Nat] /\ names' \in Digests
      <3>1. ASSUME NEW d \in Digests, Hist!Rescan(d)
            PROVE  scanned' \in [Digests -> SUBSET Nat] /\ names' = names
        <4>1. scanned' = [scanned EXCEPT ![d] = @ \cup {clock + 1}] /\ names' = names
          BY <3>1 DEF Hist!Rescan
        <4>2. scanned \in [Digests -> SUBSET Nat]
          BY <1>1 DEF HistoryType
        <4> QED
          BY <1>4, <4>1, <4>2
      <3>2. CASE UNCHANGED scanned
        BY <1>1, <3>1, <3>2 DEF HistoryType, Hist!MoveTag, Hist!Record, Hist!RecordFails
      <3>3. (\E d \in Digests : Hist!Rescan(d)) \/ UNCHANGED scanned
        BY DEF Hist!MoveTag, Hist!Record, Hist!RecordFails
      <3> QED
        BY <1>1, <3>1, <3>2, <3>3 DEF HistoryType
    <2> QED
      BY <1>1, <1>2, <1>3, <1>4, <1>5, <2>1, <2>2 DEF HistoryInv, HistoryType
  <1>6. CASE /\ ledger' = Append(ledger, [digest |-> names, at |-> clock + 1])
             /\ clock' = clock + 1 /\ UNCHANGED <<names, scanned>>
    <2> DEFINE move == [digest |-> names, at |-> clock + 1]
    <2>1. move \in Moves /\ move.at = clock + 1
      BY <1>1, <1>4 DEF HistoryType, Moves
    <2>2. ledger' = Append(ledger, move)
      BY <1>6
    <2> HIDE DEF move
    <2>3. /\ ledger' \in Seq(Moves) /\ Len(ledger') = Len(ledger) + 1
          /\ \A n \in 1..Len(ledger) : ledger'[n] = ledger[n]
          /\ ledger'[Len(ledger) + 1] = move
      BY <1>1, <2>1, <2>2, AppendProperties DEF HistoryType
    <2>4. \A n \in 1..Len(ledger') : n \in 1..Len(ledger) \/ n = Len(ledger) + 1
      BY <1>4, <2>3
    <2>5. \A n \in 1..Len(ledger) : 0 < ledger'[n].at /\ ledger'[n].at <= clock
      BY <1>1, <2>3 DEF LedgerRises
    <2>6. clock' = clock + 1
      BY <1>6
    <2>7. \A n \in 1..Len(ledger') : 0 < ledger'[n].at /\ ledger'[n].at <= clock'
      BY <1>4, <2>1, <2>3, <2>4, <2>5, <2>6
    <2>8. ASSUME NEW m \in 1..Len(ledger'), NEW n \in 1..Len(ledger'), m < n
          PROVE  ledger'[m].at < ledger'[n].at
      <3>1. m \in 1..Len(ledger)
        BY <1>4, <2>4, <2>8
      <3>2. CASE n \in 1..Len(ledger)
        BY <1>1, <2>3, <2>8, <3>1, <3>2 DEF LedgerRises
      <3>3. CASE n = Len(ledger) + 1
        BY <1>4, <2>1, <2>3, <2>5, <3>1, <3>3
      <3> QED
        BY <2>4, <3>2, <3>3
    <2>9. LedgerRises'
      BY <2>7, <2>8 DEF LedgerRises
    <2>10. HistoryType'
      BY <1>1, <1>2, <1>4, <1>6, <2>3 DEF HistoryType
    <2> QED
      BY <1>3, <2>9, <2>10 DEF HistoryInv
  <1> QED
    BY <1>5, <1>6 DEF Hist!Rescan, Hist!MoveTag, Hist!Record, Hist!RecordFails

\* Another era is that of the next move.
LEMMA EraStep ==
    ASSUME HistoryInv, pc = "eras", Len(eras) < Len(moves),
           NEW found \in SUBSET Nat, Hist!AddEra(found),
           moves[Len(eras) + 1].digest = digest => found = series,
           UNCHANGED <<clock, names, ledger, scanned, pc, digest, series, moves>>
    PROVE  HistoryInv'
  <1>1. HistoryType /\ LedgerRises /\ MovesRise /\ ErasFollow
    BY DEF HistoryInv
  <1>2. Len(eras) \in Nat /\ Len(moves) \in Nat /\ Len(eras) + 1 \in 1..Len(moves)
    BY <1>1, HistoryElements
  <1>3. moves[Len(eras) + 1].digest \in Digests /\ moves[Len(eras) + 1].at \in Nat
    BY <1>1, <1>2, HistoryElements
  <1> DEFINE era == [digest |-> moves[Len(eras) + 1].digest, from |-> moves[Len(eras) + 1].at,
                     scans |-> found]
  <1>4. /\ era \in Eras /\ era.digest = moves[Len(eras) + 1].digest
        /\ era.from = moves[Len(eras) + 1].at /\ era.scans = found
    BY <1>3 DEF Eras
  <1>5. eras' = Append(eras, era)
    BY DEF Hist!AddEra
  <1> HIDE DEF era
  <1>6. /\ eras' \in Seq(Eras) /\ Len(eras') = Len(eras) + 1
        /\ \A n \in 1..Len(eras) : eras'[n] = eras[n]
        /\ eras'[Len(eras) + 1] = era
    BY <1>1, <1>4, <1>5, AppendProperties DEF HistoryType
  <1>7. HistoryType' /\ LedgerRises' /\ MovesRise'
    BY <1>1, <1>6 DEF HistoryType, LedgerRises, MovesRise
  <1>8. ASSUME NEW n \in 1..Len(eras') PROVE Follows(n)'
    <2>1. CASE n \in 1..Len(eras)
      <3>1. Follows(n)
        BY <1>1, <1>2, <2>1 DEF ErasFollow
      <3> QED
        BY <1>6, <2>1, <3>1 DEF Follows
    <2>2. CASE n = Len(eras) + 1
      BY <1>4, <1>6, <2>2 DEF Follows
    <2> QED
      BY <1>2, <1>6, <2>1, <2>2
  <1>9. Len(eras') <= Len(moves')
    BY <1>2, <1>6
  <1>10. Len(eras') <= Len(moves') + 1
    BY <1>2, <1>6
  <1>11. pc' = "eras"
    OBVIOUS
  <1>12. ErasFollow'
    BY <1>8, <1>9, <1>10, <1>11 DEF ErasFollow
  <1> QED
    BY <1>7, <1>12 DEF HistoryInv

\* The current build closes the list.
LEMMA CloseStep == HistoryInv /\ Hist!CloseEras => HistoryInv'
  <1> SUFFICES ASSUME HistoryInv, Hist!CloseEras PROVE HistoryInv'
    OBVIOUS
  <1>1. HistoryType /\ LedgerRises /\ MovesRise /\ ErasFollow
    BY DEF HistoryInv
  <1>2. UNCHANGED <<clock, names, ledger, scanned, digest, series, moves>>
    BY DEF Hist!CloseEras, Hist!world
  <1>3. pc = "eras" /\ pc' = "drawn"
    BY DEF Hist!CloseEras
  <1>4. Len(eras) = Len(moves)
    BY DEF Hist!CloseEras
  <1>5. Len(eras) \in Nat /\ Len(moves) \in Nat /\ eras \in Seq(Eras)
    BY <1>1, HistoryElements DEF HistoryType
  <1>6. LedgerRises' /\ MovesRise'
    BY <1>1, <1>2 DEF LedgerRises, MovesRise
  <1>7. \A n \in 1..Len(eras) : Follows(n)
    BY <1>1, <1>4, <1>5 DEF ErasFollow
  <1>8. CASE eras = <<>> \/ eras[Len(eras)].digest # digest
    <2> DEFINE era == [digest |-> digest, from |-> 0, scans |-> series]
    <2>1. era \in Eras /\ era.digest = digest /\ era.from = 0 /\ era.scans = series
      BY <1>1 DEF HistoryType, Eras
    <2>2. eras' = Append(eras, era)
      BY <1>8 DEF Hist!CloseEras
    <2> HIDE DEF era
    <2>3. /\ eras' \in Seq(Eras) /\ Len(eras') = Len(eras) + 1
          /\ \A n \in 1..Len(eras) : eras'[n] = eras[n]
          /\ eras'[Len(eras) + 1] = era
      BY <1>5, <2>1, <2>2, AppendProperties
    <2>4. HistoryType'
      BY <1>1, <1>2, <2>3 DEF HistoryType
    <2>5. EndsWithCurrent'
      BY <1>2, <1>4, <1>5, <2>1, <2>3 DEF EndsWithCurrent
    <2>6. ASSUME NEW n \in 1..Len(eras'), n <= Len(moves') PROVE Follows(n)'
      <3>1. n \in 1..Len(eras)
        BY <1>2, <1>4, <1>5, <2>3, <2>6
      <3> QED
        BY <1>2, <1>7, <2>3, <3>1 DEF Follows
    <2>7. Len(eras') <= Len(moves') + 1
      BY <1>2, <1>4, <1>5, <2>3
    <2>8. ErasFollow'
      BY <1>3, <2>5, <2>6, <2>7 DEF ErasFollow
    <2> QED
      BY <1>6, <2>4, <2>8 DEF HistoryInv
  <1>9. CASE eras # <<>> /\ eras[Len(eras)].digest = digest
    <2>1. eras' = eras
      BY <1>9 DEF Hist!CloseEras
    <2>2. HistoryType'
      BY <1>1, <1>2, <2>1 DEF HistoryType
    <2>3. Len(eras) # 0 /\ Len(eras) \in 1..Len(eras)
      BY <1>5, <1>9, EmptySeq
    <2>4. eras[Len(eras)].scans = series
      BY <1>7, <1>9, <2>3 DEF Follows
    <2>5. EndsWithCurrent'
      BY <1>2, <1>4, <1>5, <1>9, <2>1, <2>3, <2>4 DEF EndsWithCurrent
    <2>6. \A n \in 1..Len(eras') : Follows(n)'
      BY <1>2, <1>7, <2>1 DEF Follows
    <2>7. Len(eras') <= Len(moves') + 1
      BY <1>2, <1>4, <1>5, <2>1
    <2>8. ErasFollow'
      BY <1>3, <2>5, <2>6, <2>7 DEF ErasFollow
    <2> QED
      BY <1>6, <2>2, <2>8 DEF HistoryInv
  <1> QED
    BY <1>8, <1>9

\* The steps of the page.
LEMMA PageStep ==
    ASSUME HistoryInv,
           \/ Hist!ReadCurrent \/ Hist!ReadMoves \/ Hist!MovesFail
           \/ Hist!ReadEra \/ Hist!SkipEra \/ Hist!CloseEras
    PROVE  HistoryInv'
  <1>1. HistoryType /\ LedgerRises /\ MovesRise /\ ErasFollow
    BY DEF HistoryInv
  <1>2. UNCHANGED <<clock, names, ledger, scanned>>
    BY DEF Hist!ReadCurrent, Hist!ReadMoves, Hist!MovesFail, Hist!ReadEra, Hist!SkipEra,
           Hist!CloseEras, Hist!world
  <1>3. LedgerRises'
    BY <1>1, <1>2 DEF LedgerRises
  <1>4. Len(<<>>) = 0
    BY EmptySeq
  <1>5. CASE Hist!ReadCurrent
    <2>1. pc = "start" /\ pc' \in {"404", "ledger"} /\ moves' = moves /\ eras' = eras
      BY <1>5 DEF Hist!ReadCurrent
    <2>2. digest' = names /\ series' = scanned[names]
      BY <1>5 DEF Hist!ReadCurrent
    <2>3. HistoryType'
      BY <1>1, <1>2, <2>1, <2>2 DEF HistoryType
    <2>4. moves = <<>> /\ eras = <<>>
      BY <1>1, <2>1 DEF ErasFollow
    <2>5. MovesRise'
      BY <1>1, <2>1 DEF MovesRise
    <2>6. Len(eras') <= Len(moves') + 1 /\ \A n \in 1..Len(eras') : Follows(n)'
      BY <1>4, <2>1, <2>4
    <2>7. ErasFollow'
      BY <2>1, <2>4, <2>6 DEF ErasFollow
    <2> QED
      BY <1>3, <2>3, <2>5, <2>7 DEF HistoryInv
  <1>6. CASE Hist!ReadMoves
    <2>1. /\ pc = "ledger" /\ pc' = "eras" /\ moves' = ledger
          /\ UNCHANGED <<digest, series, eras>>
      BY <1>6 DEF Hist!ReadMoves
    <2>2. HistoryType'
      BY <1>1, <1>2, <2>1 DEF HistoryType
    <2>3. eras = <<>>
      BY <1>1, <2>1 DEF ErasFollow
    <2>4. MovesRise'
      BY <1>1, <2>1 DEF MovesRise, LedgerRises
    <2>5. Len(ledger) \in Nat
      BY <1>1, HistoryElements
    <2>6. Len(eras') <= Len(moves') /\ Len(eras') <= Len(moves') + 1
          /\ \A n \in 1..Len(eras') : Follows(n)'
      <3>1. Len(eras') = 0 /\ Len(moves') = Len(ledger)
        BY <1>4, <2>1, <2>3
      <3> QED
        BY <2>5, <3>1
    <2>7. ErasFollow'
      BY <2>1, <2>6 DEF ErasFollow
    <2> QED
      BY <1>3, <2>2, <2>4, <2>7 DEF HistoryInv
  <1>7. CASE Hist!MovesFail
    <2> DEFINE era == [digest |-> digest, from |-> 0, scans |-> series]
    <2>1. /\ pc = "ledger" /\ pc' = "drawn" /\ eras' = <<era>>
          /\ UNCHANGED <<digest, series, moves>>
      BY <1>7 DEF Hist!MovesFail
    <2>2. era \in Eras /\ era.digest = digest /\ era.from = 0 /\ era.scans = series
      BY <1>1 DEF HistoryType, Eras
    <2> HIDE DEF era
    <2>3. eras' \in Seq(Eras) /\ Len(eras') = 1 /\ eras'[1] = era
      BY <2>1, <2>2
    <2>4. HistoryType'
      BY <1>1, <1>2, <2>1, <2>3 DEF HistoryType
    <2>5. MovesRise'
      BY <1>1, <2>1 DEF MovesRise
    <2>6. Len(moves') = 0
      BY <1>1, <1>4, <2>1 DEF ErasFollow
    <2>7. EndsWithCurrent'
      BY <2>1, <2>2, <2>3, <2>6 DEF EndsWithCurrent
    <2>8. /\ Len(eras') <= Len(moves') + 1
          /\ \A n \in 1..Len(eras') : ~(n <= Len(moves'))
      BY <2>3, <2>6
    <2>9. ErasFollow'
      BY <2>1, <2>7, <2>8 DEF ErasFollow
    <2> QED
      BY <1>3, <2>4, <2>5, <2>9 DEF HistoryInv
  <1>8. CASE Hist!ReadEra
    <2>1. PICK found : /\ found = IF moves[Len(eras) + 1].digest = digest THEN series
                                  ELSE scanned[moves[Len(eras) + 1].digest]
                       /\ Hist!AddEra(found)
      BY <1>8 DEF Hist!ReadEra
    <2>2. pc = "eras" /\ Len(eras) < Len(moves) /\ UNCHANGED <<pc, digest, series, moves>>
      BY <1>8 DEF Hist!ReadEra
    <2>3. Len(eras) \in Nat /\ Len(moves) \in Nat
      BY <1>1, HistoryElements
    <2>4. moves[Len(eras) + 1].digest \in Digests
      BY <1>1, <2>2, <2>3, HistoryElements
    <2>5. found \in SUBSET Nat
      BY <1>1, <2>1, <2>4 DEF HistoryType
    <2> QED
      BY <1>2, <2>1, <2>2, <2>5, EraStep
  <1>9. CASE Hist!SkipEra
    <2>1. /\ pc = "eras" /\ Len(eras) < Len(moves) /\ UNCHANGED <<pc, digest, series, moves>>
          /\ moves[Len(eras) + 1].digest # digest /\ Hist!AddEra({})
      BY <1>9 DEF Hist!SkipEra
    <2> QED
      BY <1>2, <2>1, EraStep
  <1> QED
    BY <1>5, <1>6, <1>7, <1>8, <1>9, CloseStep

\* ... and no step of the registry or of a page breaks it.
LEMMA HistoryStep == HistoryInv /\ [Hist!Next]_(Hist!vars) => HistoryInv'
  <1> SUFFICES ASSUME HistoryInv, [Hist!Next]_(Hist!vars) PROVE HistoryInv'
    OBVIOUS
  <1>1. CASE UNCHANGED Hist!vars
    BY <1>1 DEF Hist!vars, Hist!world, Hist!page, HistoryInv, HistoryType, LedgerRises,
                MovesRise, ErasFollow, Follows, EndsWithCurrent
  <1> QED
    BY <1>1, RegistryStep, PageStep DEF Hist!Next

\* The eras are in the order they began.
LEMMA ErasRise ==
    ASSUME HistoryInv, pc = "drawn"
    PROVE  \A i, j \in 1..Len(eras) :
              Hist!Before(eras[i], eras[j]) <=> i < j
  <1>1. HistoryType /\ MovesRise
    BY DEF HistoryInv
  <1>2. EndsWithCurrent /\ Len(eras) <= Len(moves) + 1
        /\ \A n \in 1..Len(eras) : n <= Len(moves) => Follows(n)
    BY DEF HistoryInv, ErasFollow
  <1>3. /\ Len(eras) \in Nat /\ Len(moves) \in Nat
        /\ \A n \in 1..Len(moves) : moves[n].at \in Nat
    BY <1>1, HistoryElements
  <1>4. ASSUME NEW n \in 1..Len(eras)
        PROVE  \/ n \in 1..Len(moves) /\ eras[n].from = moves[n].at
               \/ n = Len(moves) + 1 /\ n = Len(eras) /\ eras[n].from = 0
    BY <1>2, <1>3 DEF Follows, EndsWithCurrent
  <1>5. ASSUME NEW i \in 1..Len(eras), NEW j \in 1..Len(eras), i < j
        PROVE  /\ eras[i].from # 0
               /\ eras[j].from = 0 \/ eras[i].from < eras[j].from
    <2>1. i \in 1..Len(moves) /\ eras[i].from = moves[i].at
      BY <1>3, <1>4, <1>5
    <2>2. 0 < moves[i].at
      BY <1>1, <2>1 DEF MovesRise
    <2>3. eras[j].from = 0 \/ (j \in 1..Len(moves) /\ eras[j].from = moves[j].at)
      BY <1>4
    <2>4. j \in 1..Len(moves) => moves[i].at < moves[j].at
      BY <1>1, <1>5, <2>1 DEF MovesRise
    <2> QED
      BY <1>3, <2>1, <2>2, <2>3, <2>4
  <1>6. \A n \in 1..Len(eras) : eras[n].from \in Nat
    BY <1>1, HistoryElements
  <1> SUFFICES ASSUME NEW i \in 1..Len(eras), NEW j \in 1..Len(eras)
               PROVE  Hist!Before(eras[i], eras[j]) <=> i < j
    OBVIOUS
  <1>7. CASE i < j
    BY <1>5, <1>7 DEF Hist!Before
  <1>8. CASE i = j
    BY <1>6, <1>8 DEF Hist!Before
  <1>9. CASE j < i
    <2>1. eras[j].from # 0 /\ (eras[i].from = 0 \/ eras[j].from < eras[i].from)
      BY <1>5, <1>9
    <2> QED
      BY <1>6, <1>9, <2>1 DEF Hist!Before
  <1> QED
    BY <1>7, <1>8, <1>9

\* The instance's Cardinality is the one the library's theorems are about.
LEMMA SameCardinality == \A S : Hist!Cardinality(S) = Cardinality(S)
  BY DEF Hist!Cardinality, Cardinality

\* So sorting them changes nothing.
LEMMA SortedAlready ==
    ASSUME HistoryInv, pc = "drawn"
    PROVE  Hist!Sorted(eras) = eras
  <1> DEFINE Ahead(i) == {j \in DOMAIN eras :
                             Hist!Before(eras[j], eras[i])
                             \/ (j < i /\ ~Hist!Before(eras[i], eras[j]))}
             Rank(i) == Hist!Cardinality(Ahead(i))
  <1>1. eras \in Seq(Eras) /\ Len(eras) \in Nat /\ DOMAIN eras = 1..Len(eras)
    BY HistoryElements DEF HistoryInv, HistoryType
  <1>2. \A i, j \in 1..Len(eras) : Hist!Before(eras[i], eras[j]) <=> i < j
    BY ErasRise
  <1>3. ASSUME NEW i \in DOMAIN eras PROVE Rank(i) = i - 1
    <2>1. Ahead(i) = 1..(i - 1)
      <3>1. \A j \in 1..Len(eras) : j \in Ahead(i) <=> j < i
        BY <1>1, <1>2, <1>3
      <3> QED
        BY <1>1, <1>3, <3>1
    <2>2. Cardinality(1..(i - 1)) = i - 1
      <3>1. 1 \in Int /\ (i - 1) \in Int /\ i >= 1 /\ i \in Nat
        BY <1>1, <1>3
      <3>2. Cardinality(1..(i - 1)) = IF 1 > i - 1 THEN 0 ELSE (i - 1) - 1 + 1
        BY <3>1, FS_Interval
      <3>3. (IF 1 > i - 1 THEN 0 ELSE (i - 1) - 1 + 1) = i - 1
        BY <3>1
      <3> QED
        BY <3>2, <3>3
    <2> QED
      BY <2>1, <2>2, SameCardinality
  <1> HIDE DEF Rank
  <1>4. ASSUME NEW k \in DOMAIN eras
        PROVE  (CHOOSE i \in DOMAIN eras : Rank(i) = k - 1) = k
    <2>1. Rank(k) = k - 1
      BY <1>3
    <2>2. \A i \in DOMAIN eras : Rank(i) = k - 1 => i = k
      BY <1>1, <1>3
    <2> QED
      BY <2>1, <2>2
  <1>5. Hist!Sorted(eras) = [k \in DOMAIN eras |-> eras[CHOOSE i \in DOMAIN eras : Rank(i) = k - 1]]
    BY DEF Hist!Sorted, Rank
  <1>6. Hist!Sorted(eras) = [k \in DOMAIN eras |-> eras[k]]
    BY <1>4, <1>5
  <1>7. eras = [k \in DOMAIN eras |-> eras[k]]
    BY <1>1
  <1> QED
    BY <1>6, <1>7

\* The points of the page, each a scan of its era that is not cut.
LEMMA PointsOfEras ==
    ASSUME HistoryInv, pc = "drawn"
    PROVE  \A p : p \in Hist!Points <=>
              \E k \in 1..Len(eras) : \E t \in eras[k].scans :
                 /\ ~Hist!Cut(eras, k, t)
                 /\ p = [era |-> k, digest |-> eras[k].digest, finished |-> t]
  <1>1. Hist!Sorted(eras) = eras /\ DOMAIN eras = 1..Len(eras)
    BY SortedAlready, HistoryElements DEF HistoryInv
  <1> QED
    BY <1>1 DEF Hist!Points

\* What a drawn page shows.
LEMMA HistorySuffices ==
    HistoryInv => Hist!PresentIsKept /\ Hist!TenureIsKept /\ Hist!NoScanAfterTheTagLeft
  <1> SUFFICES ASSUME HistoryInv, pc = "drawn"
               PROVE  Hist!PresentIsKept /\ Hist!TenureIsKept /\ Hist!NoScanAfterTheTagLeft
    BY DEF Hist!PresentIsKept, Hist!TenureIsKept, Hist!NoScanAfterTheTagLeft
  <1>1. HistoryType /\ MovesRise
    BY DEF HistoryInv
  <1>2. EndsWithCurrent /\ Len(eras) <= Len(moves) + 1
        /\ \A n \in 1..Len(eras) : n <= Len(moves) => Follows(n)
    BY DEF HistoryInv, ErasFollow
  <1>3. /\ Len(eras) \in Nat /\ Len(moves) \in Nat /\ DOMAIN moves = 1..Len(moves)
        /\ \A n \in 1..Len(moves) : moves[n].at \in Nat
        /\ \A n \in 1..Len(eras) : eras[n].from \in Nat /\ eras[n].scans \in SUBSET Nat
    BY <1>1, HistoryElements
  <1>4. /\ Len(eras) # 0 /\ Len(eras) >= Len(moves)
        /\ eras[Len(eras)].digest = digest /\ eras[Len(eras)].scans = series
        /\ Len(eras) > Len(moves) => eras[Len(eras)].from = 0
    BY <1>2 DEF EndsWithCurrent
  <1>5. ASSUME NEW t \in series
        PROVE  \E p \in Hist!Points : p.digest = digest /\ p.finished = t
    <2> DEFINE p == [era |-> Len(eras), digest |-> eras[Len(eras)].digest, finished |-> t]
    <2>1. Len(eras) \in 1..Len(eras) /\ t \in eras[Len(eras)].scans
      BY <1>3, <1>4
    <2>2. ~Hist!Cut(eras, Len(eras), t)
      BY <1>3 DEF Hist!Cut
    <2>3. p \in Hist!Points
      BY <2>1, <2>2, PointsOfEras
    <2>4. p.digest = digest /\ p.finished = t
      BY <1>4
    <2> QED
      BY <2>3, <2>4
  <1>6. ASSUME NEW n \in DOMAIN moves, NEW t \in eras[n].scans, moves[n].at <= t,
               n < Len(moves) => t < moves[n + 1].at
        PROVE  \E p \in Hist!Points : p.digest = moves[n].digest /\ p.finished = t
    <2> DEFINE p == [era |-> n, digest |-> eras[n].digest, finished |-> t]
    <2>1. n \in 1..Len(eras) /\ n \in 1..Len(moves) /\ t \in Nat
      BY <1>3, <1>4, <1>6
    <2>2. eras[n].digest = moves[n].digest
      BY <1>2, <2>1 DEF Follows
    <2>3. ~Hist!Cut(eras, n, t)
      <3>1. CASE n < Len(moves)
        <4>1. n + 1 \in 1..Len(eras) /\ n + 1 <= Len(moves) /\ n + 1 \in 1..Len(moves)
          BY <1>3, <1>4, <2>1, <3>1
        <4>2. eras[n + 1].from = moves[n + 1].at
          BY <1>2, <4>1 DEF Follows
        <4>3. ~(t >= moves[n + 1].at)
          BY <1>3, <1>6, <2>1, <3>1, <4>1
        <4> QED
          BY <4>2, <4>3 DEF Hist!Cut
      <3>2. CASE n = Len(moves) /\ n < Len(eras)
        <4>1. n + 1 = Len(eras) /\ Len(eras) > Len(moves)
          BY <1>2, <1>3, <2>1, <3>2
        <4>2. eras[n + 1].from = 0
          BY <1>4, <4>1
        <4> QED
          BY <4>2 DEF Hist!Cut
      <3>3. CASE ~(n < Len(eras))
        BY <3>3 DEF Hist!Cut
      <3> QED
        BY <1>3, <2>1, <3>1, <3>2, <3>3
    <2>4. p \in Hist!Points
      BY <2>1, <2>3, PointsOfEras
    <2>5. p.digest = moves[n].digest /\ p.finished = t
      BY <2>2
    <2> QED
      BY <2>4, <2>5
  <1>7. ASSUME NEW p \in Hist!Points, NEW n \in DOMAIN moves,
               p.digest = moves[n].digest, p.digest # digest, n < Len(moves),
               \A m \in (n + 1)..Len(moves) : moves[m].digest # p.digest
        PROVE  p.finished < moves[n + 1].at
    <2>14. PICK k \in 1..Len(eras) : \E t \in eras[k].scans :
               /\ ~Hist!Cut(eras, k, t)
               /\ p = [era |-> k, digest |-> eras[k].digest, finished |-> t]
      BY PointsOfEras
    <2>1. PICK t \in eras[k].scans :
               /\ ~Hist!Cut(eras, k, t)
               /\ p = [era |-> k, digest |-> eras[k].digest, finished |-> t]
      BY <2>14
    <2>2. p.digest = eras[k].digest /\ p.finished = t
      BY <2>1
    <2>3. k # Len(eras)
      BY <1>4, <1>7, <2>2
    <2>4. k \in 1..Len(moves) /\ k < Len(eras)
      BY <1>2, <1>3, <2>3
    <2>5. eras[k].digest = moves[k].digest
      BY <1>2, <2>4 DEF Follows
    <2>6. ~(k \in (n + 1)..Len(moves))
      BY <1>7, <2>2, <2>5
    <2>7. n \in 1..Len(moves) /\ k <= n
      BY <1>3, <2>4, <2>6
    <2>8. k + 1 \in 1..Len(moves) /\ n + 1 \in 1..Len(moves) /\ k + 1 \in 1..Len(eras)
      BY <1>3, <1>4, <1>7, <2>7
    <2>9. eras[k + 1].from = moves[k + 1].at
      BY <1>2, <1>3, <2>8 DEF Follows
    <2>10. 0 < moves[k + 1].at
      BY <1>1, <2>8 DEF MovesRise
    <2>11. ~(t >= moves[k + 1].at)
      <3>1. moves[k + 1].at # 0
        BY <1>3, <2>8, <2>10
      <3> QED
        BY <2>1, <2>4, <2>9, <3>1 DEF Hist!Cut
    <2>12. moves[k + 1].at <= moves[n + 1].at
      <3>1. CASE k = n
        BY <1>3, <2>8, <3>1
      <3>2. CASE k < n
        <4>1. k + 1 < n + 1
          BY <1>3, <2>8, <3>2, <2>7
        <4>2. moves[k + 1].at < moves[n + 1].at
          BY <1>1, <2>8, <4>1 DEF MovesRise
        <4> QED
          BY <1>3, <2>8, <4>2
      <3> QED
        BY <1>3, <2>7, <3>1, <3>2
    <2>13. t \in Nat
      BY <1>3
    <2> QED
      BY <1>3, <2>2, <2>8, <2>11, <2>12, <2>13
  <1> QED
    BY <1>5, <1>6, <1>7 DEF Hist!PresentIsKept, Hist!TenureIsKept, Hist!NoScanAfterTheTagLeft

HistoryKept == subject = "history" => HistoryInv

\* The history page keeps the present whatever the ledger does, keeps every
\* recorded tenure, and shows no scan made after the tag left a build for good
\* (serveHistory, NewHistory).
THEOREM HistoryFaithful == Spec => []HistoryExact
  <1>1. Init => HistoryKept
    BY HistoryBegins, DirectoryAssumption DEF Init, HistoryKept
  <1>2. HistoryKept /\ [Next]_vars => HistoryKept'
    BY SubjectSteps, HistoryStep DEF HistoryKept
  <1>3. HistoryKept => HistoryExact
    BY HistorySuffices DEF HistoryKept, HistoryExact
  <1> QED
    BY <1>1, <1>2, <1>3, PTL DEF Spec

-----------------------------------------------------------------------------
(***************************************************************************)
(* The caches in front of a page, for each reader.  What an instance       *)
(* remembers counts every re-scan attached more than the TTL before it     *)
(* expires, and it expires within the TTL.  A copy of a page of scans at   *)
(* the tag counts every re-scan attached more than the window before it    *)
(* expires; it expires within the max-age, and within the max-age of the   *)
(* tag's leaving its build.                                                *)
(***************************************************************************)

Bodies == [digest : Digests, evidence : Nat]
Answers == [evidence : Nat, expires : Nat]
Kept == [body : Bodies, expires : Nat]

CacheType(reader) ==
    /\ clock \in Nat /\ names \in Digests /\ left \in [Digests -> Nat]
    /\ evidence \in [Digests -> Nat] /\ \A d \in Digests : evidence[d] <= MaxChanges
    /\ changed \in [Digests -> [1..MaxChanges -> Nat]]
    /\ answers \in [Instances -> [Pages(reader)!Remembered -> [Digests -> {NoCopy} \cup Answers]]]
    /\ copies \in [Pages(reader)!Viewed -> {NoCopy} \cup Kept]

\* What is remembered of d is behind by the TTL at most.
AnswerKnows(answer, d) ==
    /\ answer.expires <= clock + TTL
    /\ \A n \in 1..evidence[d] : changed[d][n] + TTL < answer.expires => n <= answer.evidence

AnswersKnow(reader) ==
    \A s \in Instances, view \in Pages(reader)!Remembered, d \in Digests :
        answers[s][view][d] # NoCopy => AnswerKnows(answers[s][view][d], d)

\* A copy that counts the re-scans older than the window.
CopyKnows(kept, window) ==
    /\ kept.expires <= clock + TagAge
    /\ kept.body.digest = names \/ kept.expires <= left[kept.body.digest] + TagAge
    /\ \A n \in 1..evidence[kept.body.digest] :
          changed[kept.body.digest][n] + window < kept.expires => n <= kept.body.evidence

CopiesKnow(reader) ==
    \A u \in Pages(reader)!Viewed :
        u[2] = Tag /\ u[1] \in Pages(reader)!OfScans /\ copies[u] # NoCopy =>
            CopyKnows(copies[u], Pages(reader)!Window(u))

CacheInv(reader) == CacheType(reader) /\ AnswersKnow(reader) /\ CopiesKnow(reader)

\* What DirectoryAssumption says of one reader: lifetimes are numbers, a window is
\* at least the max-age, and what it visits is the tag or a digest.
LEMMA CacheConstants ==
    ASSUME NEW reader \in Readers
    PROVE  /\ TTL \in Nat \ {0} /\ TagAge \in Nat \ {0} /\ MaxChanges \in Nat
           /\ \A u \in Pages(reader)!Viewed :
                /\ u[2] # Tag => u[2] \in Digests
                /\ Pages(reader)!MaxAge(u) \in Nat
                /\ u[2] = Tag => Pages(reader)!MaxAge(u) = TagAge
                /\ Pages(reader)!Window(u) \in Nat /\ TagAge <= Pages(reader)!Window(u)
  <1>1. /\ TTL \in Nat \ {0} /\ TagAge \in Nat \ {0} /\ DigestAge \in Nat /\ DocumentAge \in Nat
        /\ MaxChanges \in Nat /\ Refs[reader] \subseteq Digests \cup {Tag}
    BY DirectoryAssumption DEF Pages!CacheAssumption
  <1>2. \A u \in Pages(reader)!Viewed : u[2] \in Refs[reader]
    BY DEF Pages!Viewed
  <1> QED
    BY <1>1, <1>2 DEF Pages!MaxAge, Pages!Window

\* The caches are empty at first.
LEMMA CachesBegin ==
    ASSUME NEW reader \in Readers, Pages(reader)!Init
    PROVE  CacheInv(reader)
  <1> USE DEF Pages!Init, Pages!Forgotten
  <1>1. MaxChanges \in Nat
    BY CacheConstants
  <1>2. CacheType(reader)
    BY <1>1 DEF CacheType
  <1>3. AnswersKnow(reader) /\ CopiesKnow(reader)
    BY DEF AnswersKnow, CopiesKnow
  <1> QED
    BY <1>2, <1>3 DEF CacheInv

\* The types of what the caches hold, one value at a time.
LEMMA CacheValues ==
    ASSUME NEW reader \in Readers, CacheType(reader)
    PROVE  /\ clock \in Nat /\ names \in Digests
           /\ \A d \in Digests : left[d] \in Nat /\ evidence[d] \in Nat
           /\ \A d \in Digests : \A n \in 1..evidence[d] : changed[d][n] \in Nat
           /\ \A s \in Instances, view \in Pages(reader)!Remembered, d \in Digests :
                answers[s][view][d] # NoCopy =>
                    /\ answers[s][view][d].evidence \in Nat
                    /\ answers[s][view][d].expires \in Nat
           /\ \A u \in Pages(reader)!Viewed : copies[u] # NoCopy =>
                /\ copies[u].body \in Bodies /\ copies[u].expires \in Nat
                /\ copies[u].body.digest \in Digests /\ copies[u].body.evidence \in Nat
  <1>1. /\ clock \in Nat /\ names \in Digests
        /\ \A d \in Digests : left[d] \in Nat /\ evidence[d] \in Nat /\ evidence[d] <= MaxChanges
        /\ changed \in [Digests -> [1..MaxChanges -> Nat]]
    BY DEF CacheType
  <1>2. ASSUME NEW d \in Digests, NEW n \in 1..evidence[d] PROVE changed[d][n] \in Nat
    <2>1. n \in 1..MaxChanges
      BY <1>1, CacheConstants
    <2> QED
      BY <1>1, <2>1
  <1>3. ASSUME NEW s \in Instances, NEW view \in Pages(reader)!Remembered, NEW d \in Digests,
               answers[s][view][d] # NoCopy
        PROVE  answers[s][view][d].evidence \in Nat /\ answers[s][view][d].expires \in Nat
    <2>1. answers[s][view][d] \in {NoCopy} \cup Answers
      BY DEF CacheType
    <2> QED
      BY <1>3, <2>1 DEF Answers
  <1>4. ASSUME NEW u \in Pages(reader)!Viewed, copies[u] # NoCopy
        PROVE  /\ copies[u].body \in Bodies /\ copies[u].expires \in Nat
               /\ copies[u].body.digest \in Digests /\ copies[u].body.evidence \in Nat
    <2>1. copies[u] \in {NoCopy} \cup Kept
      BY DEF CacheType
    <2> QED
      BY <1>4, <2>1 DEF Kept, Bodies
  <1> QED
    BY <1>1, <1>2, <1>3, <1>4

\* What an instance writes now is of the build the tag names, and counts every
\* re-scan that a copy made of it has to count.
LEMMA RenderKnows ==
    ASSUME NEW reader \in Readers, CacheType(reader), AnswersKnow(reader),
           NEW s \in Instances, NEW u \in Pages(reader)!Viewed
    PROVE  /\ Pages(reader)!Render(s, u) \in Bodies
           /\ Pages(reader)!Resolve(u[2]) \in Digests
           /\ u[2] = Tag /\ u[1] \in Pages(reader)!OfScans =>
                /\ Pages(reader)!Render(s, u).digest = names
                /\ \A n \in 1..evidence[names] :
                      changed[names][n] + Pages(reader)!Window(u) < clock + TagAge
                         => n <= Pages(reader)!Render(s, u).evidence
  <1> DEFINE d == Pages(reader)!Resolve(u[2])
             e == Pages(reader)!Current(s, u[1], d)
             answer == answers[s][u[1]][d]
  <1>1. /\ clock \in Nat /\ names \in Digests
        /\ \A b \in Digests : evidence[b] \in Nat
        /\ \A b \in Digests : \A n \in 1..evidence[b] : changed[b][n] \in Nat
    BY CacheValues
  <1>2. TTL \in Nat /\ TagAge \in Nat
    BY CacheConstants
  <1>3. d \in Digests /\ (u[2] = Tag => d = names)
    BY <1>1, CacheConstants DEF Pages!Resolve
  <1>4. Pages(reader)!Fresh(s, u[1], d) =>
           /\ u[1] \in Pages(reader)!Remembered
           /\ answer.evidence \in Nat /\ answer.expires \in Nat /\ clock <= answer.expires
           /\ e = answer.evidence
           /\ AnswerKnows(answer, d)
    BY <1>3, CacheValues DEF Pages!Fresh, Pages!Current, AnswersKnow
  <1>5. ~Pages(reader)!Fresh(s, u[1], d) => e = evidence[d]
    BY DEF Pages!Current
  <1>6. e \in Nat
    BY <1>1, <1>3, <1>4, <1>5
  <1>7. /\ Pages(reader)!Render(s, u).digest = d
        /\ u[1] \in Pages(reader)!OfScans => Pages(reader)!Render(s, u).evidence = e
        /\ Pages(reader)!Render(s, u) \in Bodies
    BY <1>3, <1>6 DEF Pages!Render, Bodies
  <1> HIDE DEF d, e, answer
  <1>8. ASSUME NEW n \in 1..evidence[d],
               changed[d][n] + Pages(reader)!Window(u) < clock + TagAge
        PROVE  n <= e
    <2>1. CASE Pages(reader)!Fresh(s, u[1], d)
      <3>1. Pages(reader)!Window(u) = TTL + TagAge
        BY <1>4, <2>1 DEF Pages!Window
      <3>2. changed[d][n] \in Nat
        BY <1>1, <1>3
      <3>3. changed[d][n] + TTL < answer.expires
        BY <1>1, <1>2, <1>4, <1>8, <2>1, <3>1, <3>2
      <3> QED
        BY <1>4, <2>1, <3>3 DEF AnswerKnows
    <2>2. CASE ~Pages(reader)!Fresh(s, u[1], d)
      BY <1>1, <1>3, <1>5, <2>2
    <2> QED
      BY <2>1, <2>2
  <1> QED
    BY <1>3, <1>7, <1>8 DEF d

\* One answer is remembered and the others are left alone.
LEMMA InstanceRemembers ==
    ASSUME NEW Views, NEW Held,
           NEW f \in [Instances -> [Views -> [Digests -> Held]]],
           NEW s \in Instances, NEW w \in Views, NEW d \in Digests, NEW x \in Held, NEW g,
           g = [f EXCEPT ![s][w][d] = x]
    PROVE  /\ g \in [Instances -> [Views -> [Digests -> Held]]]
           /\ \A t \in Instances, view \in Views, b \in Digests :
                g[t][view][b] = f[t][view][b] \/ (b = d /\ g[t][view][b] = x)
  <1> DEFINE inner == [f[s][w] EXCEPT ![d] = x]
             outer == [f[s] EXCEPT ![w] = inner]
  <1>1. g = [f EXCEPT ![s] = outer]
    OBVIOUS
  <1>2. f[s] \in [Views -> [Digests -> Held]] /\ f[s][w] \in [Digests -> Held]
    OBVIOUS
  <1>3. /\ inner \in [Digests -> Held]
        /\ \A b \in Digests : inner[b] = f[s][w][b] \/ (b = d /\ inner[b] = x)
    BY <1>2
  <1> HIDE DEF inner
  <1>4. /\ outer \in [Views -> [Digests -> Held]]
        /\ \A view \in Views : outer[view] = f[s][view] \/ (view = w /\ outer[view] = inner)
    BY <1>2, <1>3
  <1> HIDE DEF outer
  <1>5. /\ g \in [Instances -> [Views -> [Digests -> Held]]]
        /\ \A t \in Instances : g[t] = f[t] \/ (t = s /\ g[t] = outer)
    BY <1>1, <1>4
  <1>6. ASSUME NEW t \in Instances, NEW view \in Views, NEW b \in Digests
        PROVE  g[t][view][b] = f[t][view][b] \/ (b = d /\ g[t][view][b] = x)
    <2>1. CASE g[t] = f[t]
      BY <2>1
    <2>2. CASE t = s /\ g[t] = outer
      BY <1>3, <1>4, <2>2
    <2> QED
      BY <1>5, <2>1, <2>2
  <1> QED
    BY <1>5, <1>6

\* A request keeps what the caches know.
LEMMA RequestKeeps ==
    ASSUME NEW reader \in Readers, CacheInv(reader),
           NEW s \in Instances, NEW u \in Pages(reader)!Viewed,
           Pages(reader)!NotModified(s, u) \/ Pages(reader)!Served(s, u)
    PROVE  CacheInv(reader)'
  <1> DEFINE r == Pages(reader)!Render(s, u)
             d == Pages(reader)!Resolve(u[2])
             answer == [evidence |-> evidence[d], expires |-> clock + TTL]
  <1>1. CacheType(reader) /\ AnswersKnow(reader) /\ CopiesKnow(reader)
    BY DEF CacheInv
  <1>2. UNCHANGED <<clock, names, left, evidence, changed>>
    BY DEF Pages!NotModified, Pages!Served
  <1>3. /\ r \in Bodies /\ d \in Digests
        /\ u[2] = Tag /\ u[1] \in Pages(reader)!OfScans =>
              /\ r.digest = names
              /\ \A n \in 1..evidence[names] :
                    changed[names][n] + Pages(reader)!Window(u) < clock + TagAge
                       => n <= r.evidence
    BY <1>1, RenderKnows
  <1>4. clock \in Nat /\ TTL \in Nat /\ TagAge \in Nat /\ evidence[d] \in Nat
    BY <1>1, <1>3, CacheConstants, CacheValues
  <1>5. /\ answer \in Answers /\ answer.evidence = evidence[d]
        /\ answer.expires = clock + TTL
    BY <1>4 DEF Answers
  <1>6. \/ answers' = answers
        \/ /\ u[1] \in Pages(reader)!Remembered
           /\ answers' = [answers EXCEPT ![s][u[1]][d] = answer]
    BY DEF Pages!NotModified, Pages!Served, Pages!Remember
  <1> HIDE DEF r, d, answer
  <1>7. AnswerKnows(answer, d)
    BY <1>4, <1>5 DEF AnswerKnows
  <1>8. answers \in [Instances -> [Pages(reader)!Remembered -> [Digests -> {NoCopy} \cup Answers]]]
    BY <1>1 DEF CacheType
  <1>9. /\ answers' \in [Instances -> [Pages(reader)!Remembered -> [Digests -> {NoCopy} \cup Answers]]]
        /\ \A t \in Instances, view \in Pages(reader)!Remembered, b \in Digests :
              \/ answers'[t][view][b] = answers[t][view][b]
              \/ b = d /\ answers'[t][view][b] = answer
    <2>1. CASE answers' = answers
      BY <1>8, <2>1
    <2>2. CASE /\ u[1] \in Pages(reader)!Remembered
               /\ answers' = [answers EXCEPT ![s][u[1]][d] = answer]
      BY <1>3, <1>5, <1>8, <2>2, InstanceRemembers
    <2> QED
      BY <1>6, <2>1, <2>2
  <1>10. ASSUME NEW t \in Instances, NEW view \in Pages(reader)!Remembered, NEW b \in Digests,
                answers'[t][view][b] # NoCopy
         PROVE  AnswerKnows(answers'[t][view][b], b)
    BY <1>1, <1>7, <1>9, <1>10 DEF AnswersKnow
  <1>11. AnswersKnow(reader)'
    BY <1>2, <1>10 DEF AnswersKnow, AnswerKnows, Pages!Remembered
  <1>12. PICK b : /\ copies' = [copies EXCEPT ![u] = [body |-> b,
                                   expires |-> clock + Pages(reader)!MaxAge(u)]]
                  /\ b \in Bodies /\ b.digest = r.digest /\ b.evidence = r.evidence
    <2>1. CASE Pages(reader)!Served(s, u)
      BY <1>3, <2>1 DEF Pages!Served, Pages!Keep, r
    <2>2. CASE Pages(reader)!NotModified(s, u)
      <3>1. /\ copies[u] # NoCopy
            /\ <<copies[u].body.digest, copies[u].body.evidence>> = <<r.digest, r.evidence>>
            /\ copies' = [copies EXCEPT ![u] = [body |-> copies[u].body,
                                  expires |-> clock + Pages(reader)!MaxAge(u)]]
        BY <2>2 DEF Pages!NotModified, Pages!Keep, Pages!Validator, r
      <3>2. copies[u].body \in Bodies
        BY <1>1, <3>1, CacheValues
      <3> QED
        BY <3>1, <3>2
    <2> QED
      BY <2>1, <2>2
  <1> DEFINE new == [body |-> b, expires |-> clock + Pages(reader)!MaxAge(u)]
  <1>13. /\ new \in Kept /\ new.body = b
         /\ new.expires = clock + Pages(reader)!MaxAge(u)
    BY <1>4, <1>12, CacheConstants DEF Kept
  <1>14. copies' = [copies EXCEPT ![u] = new]
    BY <1>12
  <1> HIDE DEF new
  <1>15. copies \in [Pages(reader)!Viewed -> {NoCopy} \cup Kept]
    BY <1>1 DEF CacheType
  <1>16. /\ copies' \in [Pages(reader)!Viewed -> {NoCopy} \cup Kept]
         /\ copies'[u] = new
         /\ \A v \in Pages(reader)!Viewed : v # u => copies'[v] = copies[v]
    BY <1>13, <1>14, <1>15
  <1>17. CacheType(reader)'
    BY <1>1, <1>2, <1>9, <1>16 DEF CacheType, Pages!Viewed, Pages!Remembered
  <1>18. ASSUME NEW v \in Pages(reader)!Viewed, v[2] = Tag,
                v[1] \in Pages(reader)!OfScans, copies'[v] # NoCopy
         PROVE  CopyKnows(copies'[v], Pages(reader)!Window(v))
    <2>1. CASE v = u
      <3>1. new.expires = clock + TagAge
        BY <1>13, <1>18, <2>1, CacheConstants
      <3>2. new.body.digest = names /\ new.body.evidence = r.evidence
        BY <1>3, <1>12, <1>13, <1>18, <2>1
      <3>3. \A n \in 1..evidence[names] :
               changed[names][n] + Pages(reader)!Window(u) < clock + TagAge => n <= r.evidence
        BY <1>3, <1>18, <2>1
      <3>4. clock + TagAge <= clock + TagAge
        BY <1>4
      <3> QED
        BY <1>16, <2>1, <3>1, <3>2, <3>3, <3>4 DEF CopyKnows
    <2>2. CASE v # u
      BY <1>1, <1>16, <1>18, <2>2 DEF CopiesKnow
    <2> QED
      BY <2>1, <2>2
  <1>19. CopiesKnow(reader)'
    BY <1>2, <1>18 DEF CopiesKnow, CopyKnows, Pages!Viewed, Pages!OfScans, Pages!Window,
                       Pages!Remembered
  <1> QED
    BY <1>11, <1>17, <1>19 DEF CacheInv

\* A re-scan is attached now, and no copy or answer has to count it yet.
LEMMA RescanKeeps ==
    ASSUME NEW reader \in Readers, CacheInv(reader), NEW d \in Digests, Pages(reader)!Rescan(d)
    PROVE  CacheInv(reader)'
  <1>1. CacheType(reader) /\ AnswersKnow(reader) /\ CopiesKnow(reader)
    BY DEF CacheInv
  <1>2. /\ evidence[d] < MaxChanges
        /\ evidence' = [evidence EXCEPT ![d] = @ + 1]
        /\ changed' = [changed EXCEPT ![d][evidence[d] + 1] = clock]
        /\ UNCHANGED <<clock, names, left, answers, copies>>
    BY DEF Pages!Rescan
  <1>3. /\ clock \in Nat /\ TTL \in Nat /\ TagAge \in Nat /\ MaxChanges \in Nat
        /\ evidence \in [Digests -> Nat]
        /\ changed \in [Digests -> [1..MaxChanges -> Nat]]
    BY <1>1, CacheConstants DEF CacheType
  <1>4. /\ evidence' \in [Digests -> Nat]
        /\ evidence'[d] = evidence[d] + 1
        /\ \A b \in Digests : b # d => evidence'[b] = evidence[b]
    BY <1>2, <1>3
  <1>5. evidence[d] \in Nat /\ evidence[d] + 1 \in 1..MaxChanges
    BY <1>2, <1>3
  <1>6. /\ changed' \in [Digests -> [1..MaxChanges -> Nat]]
        /\ changed'[d][evidence[d] + 1] = clock
        /\ \A n \in 1..evidence[d] : changed'[d][n] = changed[d][n]
        /\ \A b \in Digests : b # d => changed'[b] = changed[b]
    BY <1>2, <1>3, <1>5
  <1>7. ASSUME NEW b \in Digests, NEW t \in Nat, NEW window \in Nat, NEW e \in Nat,
               t <= clock + window,
               \A n \in 1..evidence[b] : changed[b][n] + window < t => n <= e,
               NEW n \in 1..evidence'[b], changed'[b][n] + window < t
        PROVE  n <= e
    <2>1. CASE b = d /\ n = evidence[d] + 1
      <3>1. clock + window < t
        BY <1>6, <1>7, <2>1
      <3> QED
        BY <1>3, <1>7, <3>1
    <2>2. CASE b = d /\ n \in 1..evidence[d]
      BY <1>6, <1>7, <2>2
    <2>3. CASE b # d
      BY <1>4, <1>6, <1>7, <2>3
    <2> QED
      BY <1>4, <1>5, <2>1, <2>2, <2>3
  <1>8. AnswersKnow(reader)'
    <2>1. ASSUME NEW s \in Instances, NEW view \in Pages(reader)!Remembered, NEW b \in Digests,
                 answers[s][view][b] # NoCopy
          PROVE  /\ answers[s][view][b].expires <= clock + TTL
                 /\ \A n \in 1..evidence'[b] :
                       changed'[b][n] + TTL < answers[s][view][b].expires
                          => n <= answers[s][view][b].evidence
      <3>1. AnswerKnows(answers[s][view][b], b)
        BY <1>1, <2>1 DEF AnswersKnow
      <3>2. answers[s][view][b].expires \in Nat /\ answers[s][view][b].evidence \in Nat
        BY <1>1, <2>1, CacheValues
      <3> QED
        BY <1>3, <1>7, <3>1, <3>2 DEF AnswerKnows
    <2> QED
      BY <1>2, <2>1 DEF AnswersKnow, AnswerKnows, Pages!Remembered
  <1>9. ASSUME NEW u \in Pages(reader)!Viewed, copies[u] # NoCopy,
               CopyKnows(copies[u], Pages(reader)!Window(u))
        PROVE  CopyKnows(copies[u], Pages(reader)!Window(u))'
    <2> DEFINE b == copies[u].body.digest
               t == copies[u].expires
               e == copies[u].body.evidence
               window == Pages(reader)!Window(u)
    <2>1. /\ b \in Digests /\ t \in Nat /\ e \in Nat /\ window \in Nat /\ TagAge <= window
      BY <1>1, <1>9, CacheValues, CacheConstants
    <2>2. /\ t <= clock + TagAge
          /\ b = names \/ t <= left[b] + TagAge
          /\ \A n \in 1..evidence[b] : changed[b][n] + window < t => n <= e
      BY <1>9 DEF CopyKnows
    <2>3. Pages(reader)!Window(u)' = window
      BY DEF Pages!Window, Pages!Remembered
    <2> HIDE DEF window
    <2>4. t <= clock + window
      BY <1>3, <2>1, <2>2
    <2>5. \A n \in 1..evidence'[b] : changed'[b][n] + window < t => n <= e
      <3> HIDE DEF b, t, e
      <3> QED
        BY <1>7, <2>1, <2>2, <2>4
    <2> QED
      BY <1>2, <1>9, <2>2, <2>3, <2>5 DEF CopyKnows
  <1>10. CacheType(reader)'
    <2>1. ASSUME NEW b \in Digests PROVE evidence'[b] <= MaxChanges
      <3>1. evidence[b] <= MaxChanges
        BY <1>1 DEF CacheType
      <3> QED
        BY <1>4, <1>5, <3>1
    <2> QED
      BY <1>1, <1>2, <1>4, <1>6, <2>1 DEF CacheType, Pages!Viewed, Pages!Remembered
  <1>11. CopiesKnow(reader)'
    BY <1>1, <1>2, <1>9 DEF CopiesKnow, Pages!Viewed, Pages!OfScans
  <1> QED
    BY <1>8, <1>10, <1>11 DEF CacheInv

\* The tag moves and leaves its build, or time passes.
LEMMA MoveKeeps ==
    ASSUME NEW reader \in Readers, CacheInv(reader),
           (\E d \in Digests : Pages(reader)!MoveTag(d)) \/ Pages(reader)!Tick
    PROVE  CacheInv(reader)'
  <1>1. CacheType(reader) /\ AnswersKnow(reader) /\ CopiesKnow(reader)
    BY DEF CacheInv
  <1>2. UNCHANGED <<evidence, changed, answers, copies>>
    BY DEF Pages!MoveTag, Pages!Tick
  <1>3. clock \in Nat /\ TTL \in Nat /\ TagAge \in Nat /\ names \in Digests
        /\ left \in [Digests -> Nat]
    BY <1>1, CacheConstants DEF CacheType
  <1>4. /\ clock' \in Nat /\ clock <= clock' /\ names' \in Digests
        /\ left' \in [Digests -> Nat]
        /\ \/ names' = names /\ left' = left
           \/ /\ left'[names] = clock
              /\ \A d \in Digests : d # names => left'[d] = left[d]
    BY <1>3 DEF Pages!MoveTag, Pages!Tick
  <1>5. CacheType(reader)'
    BY <1>1, <1>2, <1>4 DEF CacheType, Pages!Viewed, Pages!Remembered
  <1>6. ASSUME NEW s \in Instances, NEW view \in Pages(reader)!Remembered, NEW d \in Digests,
               answers[s][view][d] # NoCopy
        PROVE  AnswerKnows(answers[s][view][d], d)'
    <2>1. AnswerKnows(answers[s][view][d], d)
      BY <1>1, <1>6 DEF AnswersKnow
    <2>2. answers[s][view][d].expires \in Nat
      BY <1>1, <1>6, CacheValues
    <2>3. answers[s][view][d].expires <= clock' + TTL
      BY <1>3, <1>4, <2>1, <2>2 DEF AnswerKnows
    <2> QED
      BY <1>2, <2>1, <2>3 DEF AnswerKnows
  <1>7. AnswersKnow(reader)'
    BY <1>2, <1>6 DEF AnswersKnow, Pages!Remembered
  <1>8. ASSUME NEW u \in Pages(reader)!Viewed, copies[u] # NoCopy,
               CopyKnows(copies[u], Pages(reader)!Window(u))
        PROVE  CopyKnows(copies[u], Pages(reader)!Window(u))'
    <2> DEFINE b == copies[u].body.digest
               t == copies[u].expires
    <2>1. /\ b \in Digests /\ t \in Nat
      BY <1>1, <1>8, CacheValues
    <2>2. /\ t <= clock + TagAge
          /\ b = names \/ t <= left[b] + TagAge
      BY <1>8 DEF CopyKnows
    <2>3. Pages(reader)!Window(u)' = Pages(reader)!Window(u)
      BY DEF Pages!Window, Pages!Remembered
    <2>4. t <= clock' + TagAge
      BY <1>3, <1>4, <2>1, <2>2
    <2>5. b = names' \/ t <= left'[b] + TagAge
      <3>1. CASE names' = names /\ left' = left
        BY <2>2, <3>1
      <3>2. CASE /\ left'[names] = clock
                 /\ \A d \in Digests : d # names => left'[d] = left[d]
        BY <2>1, <2>2, <3>2
      <3> QED
        BY <1>4, <3>1, <3>2
    <2> QED
      BY <1>2, <1>8, <2>3, <2>4, <2>5 DEF CopyKnows
  <1>9. CopiesKnow(reader)'
    BY <1>1, <1>2, <1>8 DEF CopiesKnow, Pages!Viewed, Pages!OfScans
  <1> QED
    BY <1>5, <1>7, <1>9 DEF CacheInv

\* A restarted instance remembers nothing, which is nothing wrong.
LEMMA RestartKeeps ==
    ASSUME NEW reader \in Readers, CacheInv(reader), NEW s \in Instances,
           Pages(reader)!Restart(s)
    PROVE  CacheInv(reader)'
  <1>1. CacheType(reader) /\ AnswersKnow(reader) /\ CopiesKnow(reader)
    BY DEF CacheInv
  <1>2. /\ UNCHANGED <<clock, names, left, evidence, changed, copies>>
        /\ answers' = [answers EXCEPT ![s] =
               [view \in Pages(reader)!Remembered |-> [d \in Digests |-> NoCopy]]]
    BY DEF Pages!Restart, Pages!Forgotten
  <1> DEFINE nothing == [view \in Pages(reader)!Remembered |-> [d \in Digests |-> NoCopy]]
  <1>3. /\ nothing \in [Pages(reader)!Remembered -> [Digests -> {NoCopy} \cup Answers]]
        /\ \A view \in Pages(reader)!Remembered, d \in Digests : nothing[view][d] = NoCopy
    OBVIOUS
  <1> HIDE DEF nothing
  <1>4. answers' = [answers EXCEPT ![s] = nothing]
    BY <1>2 DEF nothing
  <1>5. /\ answers' \in [Instances -> [Pages(reader)!Remembered -> [Digests -> {NoCopy} \cup Answers]]]
        /\ \A t \in Instances, view \in Pages(reader)!Remembered, d \in Digests :
              answers'[t][view][d] # NoCopy => answers'[t][view][d] = answers[t][view][d]
    BY <1>1, <1>3, <1>4 DEF CacheType
  <1>6. CacheType(reader)'
    BY <1>1, <1>2, <1>5 DEF CacheType, Pages!Viewed, Pages!Remembered
  <1>7. AnswersKnow(reader)'
    BY <1>1, <1>2, <1>5 DEF AnswersKnow, AnswerKnows, Pages!Remembered
  <1>8. CopiesKnow(reader)'
    BY <1>1, <1>2 DEF CopiesKnow, CopyKnows, Pages!Viewed, Pages!OfScans, Pages!Window,
                      Pages!Remembered
  <1> QED
    BY <1>6, <1>7, <1>8 DEF CacheInv

\* No visit, change of the evidence, move, restart or tick breaks the invariant of
\* the caches.
LEMMA CacheStep ==
    ASSUME NEW reader \in Readers, CacheInv(reader),
           [Pages(reader)!Next]_(Pages(reader)!vars)
    PROVE  CacheInv(reader)'
  <1>1. CASE UNCHANGED Pages(reader)!vars
    BY <1>1 DEF Pages!vars, CacheInv, CacheType, AnswersKnow, AnswerKnows, CopiesKnow,
                CopyKnows, Pages!Viewed, Pages!OfScans, Pages!Window, Pages!Remembered
  <1> QED
    BY <1>1, RequestKeeps, RescanKeeps, MoveKeeps, RestartKeeps DEF Pages!Next

\* A live copy expires later than now, and a page is rendered now.
LEMMA CacheSuffices ==
    ASSUME NEW reader \in Readers, CacheInv(reader)
    PROVE  Pages(reader)!RescanSeenAtTag
  <1>1. CacheType(reader) /\ AnswersKnow(reader) /\ CopiesKnow(reader)
    BY DEF CacheInv
  <1>2. clock \in Nat /\ TagAge \in Nat /\ TagAge > 0
    BY <1>1, CacheConstants, CacheValues
  <1>3. ASSUME NEW u \in Pages(reader)!Viewed, u[2] = Tag, u[1] \in Pages(reader)!OfScans,
               NEW b \in Pages(reader)!Shown(u)
        PROVE  /\ b.digest = names \/ clock < left[b.digest] + TagAge
               /\ \A n \in Pages(reader)!Due(u, b.digest) : n <= b.evidence
    <2>1. Pages(reader)!Window(u) \in Nat
      BY CacheConstants
    <2>2. CASE Pages(reader)!Live(u)
      <3>1. copies[u] # NoCopy /\ clock < copies[u].expires /\ b = copies[u].body
        BY <1>3, <2>2 DEF Pages!Live, Pages!Shown
      <3>2. CopyKnows(copies[u], Pages(reader)!Window(u))
        BY <1>1, <1>3, <3>1 DEF CopiesKnow
      <3>3. /\ copies[u].expires \in Nat /\ b.digest \in Digests /\ left[b.digest] \in Nat
            /\ \A n \in 1..evidence[b.digest] : changed[b.digest][n] \in Nat
        BY <1>1, <3>1, CacheValues
      <3>4. b.digest = names \/ clock < left[b.digest] + TagAge
        BY <1>2, <3>1, <3>2, <3>3 DEF CopyKnows
      <3>5. ASSUME NEW n \in 1..evidence[b.digest],
                   changed[b.digest][n] + Pages(reader)!Window(u) <= clock
            PROVE  n <= b.evidence
        <4>1. changed[b.digest][n] + Pages(reader)!Window(u) < copies[u].expires
          BY <1>2, <2>1, <3>1, <3>3, <3>5
        <4> QED
          BY <3>1, <3>2, <4>1 DEF CopyKnows
      <3> QED
        BY <3>4, <3>5 DEF Pages!Due
    <2>3. CASE ~Pages(reader)!Live(u)
      <3>1. PICK s \in Instances : b = Pages(reader)!Render(s, u)
        BY <1>3, <2>3 DEF Pages!Shown
      <3>2. /\ b.digest = names
            /\ \A n \in 1..evidence[names] :
                  changed[names][n] + Pages(reader)!Window(u) < clock + TagAge
                     => n <= b.evidence
        BY <1>1, <1>3, <3>1, RenderKnows
      <3>3. ASSUME NEW n \in 1..evidence[names],
                   changed[names][n] + Pages(reader)!Window(u) <= clock
            PROVE  n <= b.evidence
        <4>1. changed[names][n] \in Nat
          BY <1>1, CacheValues
        <4>2. changed[names][n] + Pages(reader)!Window(u) < clock + TagAge
          BY <1>2, <2>1, <3>3, <4>1
        <4> QED
          BY <3>2, <4>2
      <3> QED
        BY <3>2, <3>3 DEF Pages!Due
    <2> QED
      BY <2>2, <2>3
  <1> QED
    BY <1>3 DEF Pages!RescanSeenAtTag

CachesKept == \A reader \in Readers : subject = reader => CacheInv(reader)

\* A reader at a tag is shown a build the tag named less than the max-age ago, with
\* every re-scan attached at least the TTL and the max-age ago, whatever these
\* lifetimes and however many instances answer and restart (defaultScanTTL,
\* revalidated, serveDocument).
THEOREM RescanSeen == Spec => []RescanSeenAtTag
  <1>1. Init => CachesKept
    BY CachesBegin, DirectoryAssumption DEF Init, CachesKept
  <1>2. CachesKept /\ [Next]_vars => CachesKept'
    BY SubjectSteps, CacheStep DEF CachesKept
  <1>3. CachesKept => RescanSeenAtTag
    BY CacheSuffices DEF CachesKept, RescanSeenAtTag
  <1> QED
    BY <1>1, <1>2, <1>3, PTL DEF Spec

-----------------------------------------------------------------------------
(***************************************************************************)
(* The versions page.  A row is a build its tag was held to name during    *)
(* the request; while the request is calm, a row whose lookup is done is   *)
(* what the tag names, and equal mappings are equal pages.                 *)
(***************************************************************************)

Rows == [Tags -> Digests \cup {None}]

VersionsType ==
    /\ names \in Rows /\ versions \in Rows /\ copy \in Rows
    /\ lookup \in [Tags -> {"wait", "slot", "done"}]
    /\ held \in [Tags -> SUBSET (Digests \cup {None})]
    /\ vouched \in [Tags -> SUBSET (Digests \cup {None})]

RowsHeld ==
    /\ \A t \in Tags : names[t] \in held[t]
    /\ phase # "idle" => \A t \in Tags : versions[t] # None => versions[t] \in held[t]
    /\ \A t \in Tags : copy[t] # None => copy[t] \in vouched[t]

\* A lookup runs only while the request looks up.
LookupsEnd == phase # "lookup" => \A t \in Tags : lookup[t] = "done"

CalmRow(t) ==
    /\ lookup[t] = "done" => versions[t] = IF t \in Fallback THEN None ELSE names[t]
    /\ lookup[t] # "done" => versions[t] = None /\ t \notin Fallback /\ names[t] # None

CalmRows == calm /\ phase # "idle" => \A t \in Tags : CalmRow(t)

VersionsInv ==
    VersionsType /\ RowsHeld /\ LookupsEnd /\ CalmRows /\ Vers!CalmPageIsExact

\* Before the first request of the versions page the invariant holds, ...
LEMMA VersionsBegin == Vers!Init => VersionsInv
  <1> SUFFICES ASSUME Vers!Init PROVE VersionsInv
    OBVIOUS
  <1> USE DEF Vers!Init
  <1>1. VersionsType
    BY DEF VersionsType, Rows, Vers!NoRows
  <1>2. RowsHeld /\ LookupsEnd
    BY DEF RowsHeld, LookupsEnd, Vers!NoRows
  <1>3. CalmRows /\ Vers!CalmPageIsExact
    BY DEF CalmRows, Vers!CalmPageIsExact
  <1> QED
    BY <1>1, <1>2, <1>3 DEF VersionsInv

\* The validator tells any two pages apart.
LEMMA MappingDigestTells ==
    ASSUME NEW rows \in Rows, NEW others \in Rows,
           Vers!mappingDigest(rows) = Vers!mappingDigest(others)
    PROVE  rows = others
  <1>1. ASSUME NEW p \in Rows, NEW q \in Rows, NEW t \in Tags,
               Vers!mappingDigest(p) = Vers!mappingDigest(q), p[t] # None
        PROVE  p[t] = q[t]
    <2>1. <<t, p[t]>> \in Vers!mappingDigest(q)
      BY <1>1 DEF Vers!mappingDigest
    <2> QED
      BY <2>1 DEF Vers!mappingDigest
  <1>2. ASSUME NEW t \in Tags PROVE rows[t] = others[t]
    <2>1. CASE rows[t] # None
      BY <1>1, <2>1
    <2>2. CASE others[t] # None
      BY <1>1, <2>2
    <2> QED
      BY <2>1, <2>2
  <1> QED
    BY <1>2 DEF Rows

\* Tags moving, and a request listing.
LEMMA ListingKeeps ==
    ASSUME VersionsInv,
           \/ Vers!List \/ Vers!ListFails
           \/ \E t \in Tags, d \in Digests \cup {None} : Vers!Move(t, d)
    PROVE  VersionsInv'
  <1>1. VersionsType /\ RowsHeld /\ LookupsEnd /\ CalmRows /\ Vers!CalmPageIsExact
    BY DEF VersionsInv
  <1>2. CASE Vers!List
    <2>1. /\ phase = "idle" /\ phase' = "lookup" /\ names' = names
          /\ lookup' = [t \in Tags |-> IF t \in Vers!Published THEN "wait" ELSE "done"]
          /\ versions' = [t \in Tags |-> None]
          /\ held' = [t \in Tags |-> {names[t]}]
          /\ copy' = copy /\ vouched' = vouched
      BY <1>2 DEF Vers!List, Vers!registry, Vers!reader, Vers!NoRows
    <2>2. VersionsType'
      BY <1>1, <2>1 DEF VersionsType, Rows
    <2>3. RowsHeld'
      BY <1>1, <2>1 DEF RowsHeld
    <2>4. CalmRows'
      BY <2>1 DEF CalmRows, CalmRow, Vers!Published
    <2>5. LookupsEnd' /\ (Vers!CalmPageIsExact)'
      BY <2>1 DEF LookupsEnd, Vers!CalmPageIsExact
    <2> QED
      BY <2>2, <2>3, <2>4, <2>5 DEF VersionsInv
  <1>3. CASE Vers!ListFails
    <2>1. /\ calm' = FALSE /\ copy' = [t \in Tags |-> None]
          /\ vouched' = [t \in Tags |-> {names[t]}]
          /\ UNCHANGED <<names, phase, lookup, versions, held>>
      BY <1>3 DEF Vers!ListFails, Vers!Fault, Vers!registry, Vers!NoRows
    <2>2. VersionsType'
      BY <1>1, <2>1 DEF VersionsType, Rows
    <2>3. RowsHeld' /\ LookupsEnd'
      BY <1>1, <2>1 DEF RowsHeld, LookupsEnd
    <2>4. CalmRows' /\ (Vers!CalmPageIsExact)'
      BY <2>1 DEF CalmRows, Vers!CalmPageIsExact
    <2> QED
      BY <2>2, <2>3, <2>4 DEF VersionsInv
  <1>4. ASSUME NEW t \in Tags, NEW d \in Digests \cup {None}, Vers!Move(t, d)
        PROVE  VersionsInv'
    <2>1. /\ calm' = FALSE /\ names' = [names EXCEPT ![t] = d]
          /\ held' = [held EXCEPT ![t] = @ \cup {d}]
          /\ UNCHANGED <<phase, lookup, versions, copy, vouched>>
      BY <1>4 DEF Vers!Move, Vers!reader
    <2>2. VersionsType'
      BY <1>1, <2>1 DEF VersionsType, Rows
    <2>3. ASSUME NEW u \in Tags
          PROVE  /\ held[u] \subseteq held'[u]
                 /\ names'[u] = names[u] \/ names'[u] \in held'[u]
      BY <1>1, <2>1 DEF VersionsType, Rows
    <2>4. RowsHeld' /\ LookupsEnd'
      BY <1>1, <2>1, <2>3 DEF RowsHeld, LookupsEnd
    <2>5. CalmRows' /\ (Vers!CalmPageIsExact)'
      BY <2>1 DEF CalmRows, Vers!CalmPageIsExact
    <2> QED
      BY <2>2, <2>4, <2>5 DEF VersionsInv
  <1> QED
    BY <1>2, <1>3, <1>4

\* The lookups of a request.
LEMMA LookUpKeeps ==
    ASSUME VersionsInv, NEW t \in Tags, Vers!LookUp(t)
    PROVE  VersionsInv'
  <1>1. VersionsType /\ RowsHeld /\ LookupsEnd /\ CalmRows /\ Vers!CalmPageIsExact
    BY DEF VersionsInv
  <1>2. /\ lookup[t] \in {"wait", "slot"} /\ phase = "lookup"
        /\ UNCHANGED <<names, phase, held, copy, vouched>>
    BY <1>1 DEF Vers!LookUp, Vers!TakeSlot, Vers!Head, Vers!Skip, LookupsEnd,
                Vers!registry, Vers!reader
  <1>3. LookupsEnd' /\ (Vers!CalmPageIsExact)'
    BY <1>2 DEF LookupsEnd, Vers!CalmPageIsExact
  <1>4. CASE Vers!TakeSlot(t)
    <2>1. lookup' = [lookup EXCEPT ![t] = "slot"] /\ UNCHANGED <<versions, calm>>
      BY <1>4 DEF Vers!TakeSlot
    <2>2. VersionsType' /\ RowsHeld'
      BY <1>1, <1>2, <2>1 DEF VersionsType, RowsHeld
    <2>3. CalmRows'
      BY <1>1, <1>2, <2>1 DEF CalmRows, CalmRow, VersionsType
    <2> QED
      BY <1>3, <2>2, <2>3 DEF VersionsInv
  <1>5. CASE Vers!Head(t)
    <2>1. /\ names[t] # None /\ versions' = [versions EXCEPT ![t] = names[t]]
          /\ lookup' = [lookup EXCEPT ![t] = "done"] /\ calm' = calm
      BY <1>5 DEF Vers!Head
    <2>2. VersionsType'
      BY <1>1, <1>2, <2>1 DEF VersionsType, Rows
    <2>3. RowsHeld'
      BY <1>1, <1>2, <2>1 DEF RowsHeld, VersionsType, Rows
    <2>4. CalmRows'
      BY <1>1, <1>2, <2>1 DEF CalmRows, CalmRow, VersionsType, Rows
    <2> QED
      BY <1>3, <2>2, <2>3, <2>4 DEF VersionsInv
  <1>6. CASE Vers!Skip(t)
    <2>1. /\ (names[t] = None /\ calm' = calm) \/ calm' = FALSE
          /\ lookup' = [lookup EXCEPT ![t] = "done"] /\ versions' = versions
      BY <1>6 DEF Vers!Skip, Vers!Fault
    <2>2. VersionsType' /\ RowsHeld'
      BY <1>1, <1>2, <2>1 DEF VersionsType, RowsHeld
    <2>3. CalmRows'
      BY <1>1, <1>2, <2>1 DEF CalmRows, CalmRow, VersionsType
    <2> QED
      BY <1>3, <2>2, <2>3 DEF VersionsInv
  <1> QED
    BY <1>4, <1>5, <1>6 DEF Vers!LookUp

\* The rest of a request.
LEMMA AnswerKeeps ==
    ASSUME VersionsInv,
           Vers!Resolved \/ Vers!Respond \/ \E d \in Digests : Vers!Describe(d)
    PROVE  VersionsInv'
  <1>1. VersionsType /\ RowsHeld /\ LookupsEnd /\ CalmRows /\ Vers!CalmPageIsExact
    BY DEF VersionsInv
  <1>2. UNCHANGED <<names, lookup, versions, held>>
    BY DEF Vers!Resolved, Vers!Respond, Vers!Describe, Vers!registry
  <1>3. CASE Vers!Resolved
    <2>1. /\ phase = "lookup" /\ phase' = "describe" /\ \A t \in Tags : lookup[t] = "done"
          /\ UNCHANGED <<calm, copy, vouched>>
      BY <1>3 DEF Vers!Resolved, Vers!reader
    <2>2. VersionsType' /\ RowsHeld' /\ LookupsEnd'
      BY <1>1, <1>2, <2>1 DEF VersionsType, RowsHeld, LookupsEnd
    <2>3. CalmRows' /\ (Vers!CalmPageIsExact)'
      BY <1>1, <1>2, <2>1 DEF CalmRows, CalmRow, Vers!CalmPageIsExact
    <2> QED
      BY <2>2, <2>3 DEF VersionsInv
  <1>4. ASSUME NEW d \in Digests, Vers!Describe(d)
        PROVE  VersionsInv'
    <2>1. /\ phase = "describe" /\ phase' = phase
          /\ calm' = calm \/ calm' = FALSE
          /\ UNCHANGED <<copy, vouched>>
      BY <1>4 DEF Vers!Describe, Vers!Fault, Vers!reader
    <2>2. VersionsType' /\ RowsHeld' /\ LookupsEnd'
      BY <1>1, <1>2, <2>1 DEF VersionsType, RowsHeld, LookupsEnd
    <2>3. CalmRows' /\ (Vers!CalmPageIsExact)'
      BY <1>1, <1>2, <2>1 DEF CalmRows, CalmRow, Vers!CalmPageIsExact
    <2> QED
      BY <2>2, <2>3 DEF VersionsInv
  <1>5. CASE Vers!Respond
    <2>1. phase = "describe" /\ phase' = "idle" /\ vouched' = held /\ calm' = calm
      BY <1>5 DEF Vers!Respond
    <2>2. copy' = versions
      <3>1. copy' = IF Vers!mappingDigest(copy) = Vers!mappingDigest(versions)
                    THEN copy ELSE versions
        BY <1>5 DEF Vers!Respond
      <3> QED
        BY <1>1, <3>1, MappingDigestTells DEF VersionsType
    <2>3. VersionsType'
      BY <1>1, <1>2, <2>1, <2>2 DEF VersionsType
    <2>4. RowsHeld' /\ LookupsEnd'
      BY <1>1, <1>2, <2>1, <2>2 DEF RowsHeld, LookupsEnd
    <2>5. CalmRows'
      BY <2>1 DEF CalmRows
    <2>6. (Vers!CalmPageIsExact)'
      <3> SUFFICES ASSUME calm PROVE versions = Vers!Settled
        BY <1>2, <2>1, <2>2 DEF Vers!CalmPageIsExact, Vers!Settled
      <3>1. \A t \in Tags : versions[t] = IF t \in Fallback THEN None ELSE names[t]
        BY <1>1, <2>1 DEF CalmRows, CalmRow, LookupsEnd
      <3> QED
        BY <1>1, <3>1 DEF VersionsType, Rows, Vers!Settled
    <2> QED
      BY <2>3, <2>4, <2>5, <2>6 DEF VersionsInv
  <1> QED
    BY <1>3, <1>4, <1>5

\* ... and no step of the registry, of a request or of the reader breaks it.
LEMMA VersionsStep == VersionsInv /\ [Vers!Next]_(Vers!vars) => VersionsInv'
  <1> SUFFICES ASSUME VersionsInv, [Vers!Next]_(Vers!vars) PROVE VersionsInv'
    OBVIOUS
  <1>1. CASE UNCHANGED Vers!vars
    BY <1>1 DEF Vers!vars, Vers!registry, Vers!request, Vers!reader, VersionsInv,
                VersionsType, Rows, RowsHeld, LookupsEnd, CalmRows, CalmRow,
                Vers!CalmPageIsExact, Vers!Settled
  <1> QED
    BY <1>1, ListingKeeps, LookUpKeeps, AnswerKeeps DEF Vers!Next

VersionsKept == subject = "versions" => VersionsInv

\* The invariant of the versions page holds in every state.
LEMMA VersionsInvariant == Spec => []VersionsKept
  <1>1. Init => VersionsKept
    BY VersionsBegin, DirectoryAssumption DEF Init, VersionsKept
  <1>2. VersionsKept /\ [Next]_vars => VersionsKept'
    BY SubjectSteps, VersionsStep DEF VersionsKept
  <1> QED
    BY <1>1, <1>2, PTL DEF Spec

\* Each row of the reader's page is a build its own tag named while the request
\* ran, whatever moved and failed (Versions).
THEOREM RowsNeverInvented == Spec => []RowsWereTrue
  <1>1. VersionsKept => RowsWereTrue
    BY DEF VersionsKept, VersionsInv, RowsHeld, RowsWereTrue, Vers!RowsWereTrue
  <1> QED
    BY <1>1, VersionsInvariant, PTL

\* A calm request leaves the reader with exactly what is published, answered
\* with the page or with 304 (serveVersions, mappingDigest).
THEOREM CalmPageExact == Spec => []CalmPageIsExact
  <1>1. VersionsKept => CalmPageIsExact
    BY DEF VersionsKept, VersionsInv, CalmPageIsExact
  <1> QED
    BY <1>1, VersionsInvariant, PTL

=============================================================================
