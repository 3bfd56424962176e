---------------------------- MODULE GoldenDataset ----------------------------
(***************************************************************************)
(* What becomes of a rated answer offline: the candidate pool that         *)
(* feedback fills (rag/agent/eval/candidates.py) and the curation command  *)
(* that moves candidates into the golden dataset (scripts/curate_golden.py,*)
(* eval/dataset.py).                                                       *)
(*                                                                         *)
(* Every command is a process of its own over the same files, without a    *)
(* lock, and may be killed between any two steps.  A case is the candidate *)
(* it came from.                                                           *)
(***************************************************************************)
EXTENDS Naturals, FiniteSets

CONSTANTS
    Candidates,     \* the candidates feedback may create
    Curators,       \* runs of curate_golden.py --promote
    TakenId,        \* the id of a case the dataset has from the start
    MaxDeaths,      \* bound on killed commands
    Nothing         \* Python's None

ASSUME DatasetAssumption ==
    /\ TakenId \notin Candidates
    /\ MaxDeaths \in Nat

VARIABLES
    pool,       \* pool[c]: the candidate's file
    golden,     \* golden.yaml: the cases by id, unless the file is cut off
    curator,    \* curator[p]: a promotion, and the cases it has read
    deaths,
    overlapped, \* a promotion wrote over what it had not read (history)
    dropped     \* candidates whose id was another case's (history)

files == <<pool, golden>>
datasetVars == <<files, curator, deaths, overlapped, dropped>>

NoCurator == [at |-> "idle", candidate |-> Nothing, id |-> Nothing, cases |-> Nothing]

DatasetInit ==
    /\ pool = [c \in Candidates |-> "none"]
    /\ golden = [whole |-> TRUE, cases |-> [id \in {TakenId} |-> TakenId]]
    /\ curator = [p \in Curators |-> NoCurator]
    /\ deaths = 0 /\ overlapped = FALSE /\ dropped = {}

\* An answer only becomes a case with a reference answer: the correction it was
\* rated with, or what the curator gives.
Pooled == {"corrected", "rated"}

-----------------------------------------------------------------------------
\* promote_to_candidate, called by the flywheel with a correction or without.
Propose(c) ==
    /\ pool[c] = "none"
    /\ \E kind \in Pooled : pool' = [pool EXCEPT ![c] = kind]
    /\ UNCHANGED <<golden, curator, deaths, overlapped, dropped>>

Discard(c) ==
    /\ pool[c] \in Pooled
    /\ pool' = [pool EXCEPT ![c] = "discarded"]
    /\ UNCHANGED <<golden, curator, deaths, overlapped, dropped>>

CuratorGoes(p, next) ==
    /\ curator' = [curator EXCEPT ![p] = next]
    /\ UNCHANGED deaths

\* load_candidate; --case-id may name any id, also one that is taken.
StartPromotion(p) ==
    /\ curator[p].at = "idle" /\ curator[p].candidate = Nothing
    /\ \E c \in Candidates, reference \in BOOLEAN : \E id \in {c, TakenId} :
          /\ pool[c] = "corrected" \/ (pool[c] = "rated" /\ reference)
          /\ CuratorGoes(p, [NoCurator EXCEPT !.at = "read", !.candidate = c, !.id = id])
    /\ UNCHANGED <<pool, golden, overlapped, dropped>>

\* A file that is cut off does not parse, or it parses with what there is.
Readings(file) ==
    IF file.whole THEN {file.cases}
    ELSE {[id \in ids |-> file.cases[id]] : ids \in SUBSET DOMAIN file.cases}

\* append_cases reads the dataset; an id it finds is skipped.
ReadDataset(p) ==
    /\ curator[p].at = "read"
    /\ \/ \E cases \in Readings(golden) :
             CuratorGoes(p, [curator[p] EXCEPT !.cases = cases,
                 !.at = IF curator[p].id \in DOMAIN cases THEN "unlink" ELSE "open"])
       \/ /\ ~golden.whole
          /\ CuratorGoes(p, [curator[p] EXCEPT !.at = "idle"])
    /\ UNCHANGED <<pool, golden, overlapped, dropped>>

Writing(q) == curator[q].at \in {"open", "dump"}

\* open("w") leaves what is flushed later, if anything.
Truncate(p) ==
    /\ curator[p].at = "open"
    /\ golden' = [golden EXCEPT !.whole = FALSE]
    /\ overlapped' = (overlapped \/ golden.cases # curator[p].cases
                                 \/ \E q \in Curators \ {p} : Writing(q))
    /\ CuratorGoes(p, [curator[p] EXCEPT !.at = "dump"])
    /\ UNCHANGED <<pool, dropped>>

\* Mutation of Written: the cases that were there before get lost.
WrittenAlone(p) == [id \in {curator[p].id} |-> curator[p].candidate]

\* The whole file is rewritten: the cases that were read, and the new one.
Written(p) ==
    [id \in DOMAIN curator[p].cases \union {curator[p].id} |->
        IF id = curator[p].id THEN curator[p].candidate ELSE curator[p].cases[id]]

\* Another process that has the file open may leave its bytes in it.
Dump(p) ==
    /\ curator[p].at = "dump"
    /\ \E whole \in {TRUE} \union {curator[q].at # "dump" : q \in Curators \ {p}} :
          golden' = [whole |-> whole, cases |-> Written(p)]
    /\ CuratorGoes(p, [curator[p] EXCEPT !.at = "unlink"])
    /\ UNCHANGED <<pool, overlapped, dropped>>

\* The candidate is removed and reported as promoted, appended or skipped.
Unlink(p) ==
    LET c == curator[p].candidate IN
    /\ curator[p].at = "unlink"
    /\ pool' = [pool EXCEPT ![c] = IF @ \in Pooled THEN "promoted" ELSE @]
    /\ dropped' = IF curator[p].id = TakenId THEN dropped \union {c} ELSE dropped
    /\ CuratorGoes(p, [curator[p] EXCEPT !.at = "idle"])
    /\ UNCHANGED <<golden, overlapped>>

CuratorDies(p) ==
    /\ curator[p].at # "idle" /\ deaths < MaxDeaths
    /\ deaths' = deaths + 1
    /\ curator' = [curator EXCEPT ![p].at = "idle"]
    /\ overlapped' = (overlapped \/ curator[p].at = "dump")
    /\ UNCHANGED <<files, dropped>>

-----------------------------------------------------------------------------
Curate(p) ==
    \/ StartPromotion(p) \/ ReadDataset(p) \/ Truncate(p) \/ Dump(p) \/ Unlink(p)
    \/ CuratorDies(p)

DatasetNext ==
    \/ \E c \in Candidates : Propose(c) \/ Discard(c)
    \/ \E p \in Curators : Curate(p)

DatasetSpec == DatasetInit /\ [][DatasetNext]_datasetVars

-----------------------------------------------------------------------------
\* A correction somebody wrote is not lost: its candidate is in the pool until
\* somebody discards it or its case is in the golden dataset, and there it stays
\* together with the cases of before.  Excepted are a candidate promoted under an
\* id that is taken, and everything once two promotions overlap or one is killed
\* while it writes (dataset.py:96).
CorrectionIsKept ==
    \/ overlapped
    \/ /\ \A c \in Candidates :
             pool[c] = "promoted" /\ c \notin dropped =>
                 c \in DOMAIN golden.cases /\ golden.cases[c] = c
       /\ TakenId \in DOMAIN golden.cases
=============================================================================
