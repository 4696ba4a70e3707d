----------------------------- MODULE QuotaFiles -----------------------------
(***************************************************************************)
(* The daily quota's file and the processes that share it, as they can be  *)
(* seen at any moment, and what is promised of them.  How they change is   *)
(* QuotaFile.                                                              *)
(*                                                                         *)
(* A path names an inode, and an open file stays the inode it was opened   *)
(* on, whatever its path names later.  The USD half of the state is left   *)
(* out, but not the writes it causes.                                      *)
(***************************************************************************)
EXTENDS Integers, FiniteSets

CONSTANTS
    Procs,      \* the processes that call the model now
    Ops,        \* what they call: "reserve_request", "add_usd"
    Rpd,        \* the cap of requests per day
    MayCrash,   \* whether processes die in the middle of it
    MaxDays     \* bound: midnights in one behaviour

ASSUME QuotaFileAssumption ==
    /\ IsFiniteSet(Procs)
    /\ Ops \subseteq {"reserve_request", "add_usd"}
    /\ Rpd \in Nat \ {0}
    /\ MayCrash \in BOOLEAN
    /\ MaxDays \in Nat
-----------------------------------------------------------------------------
\* One inode per path and per open file is enough, and one to take.
Inodes  == 1 .. Cardinality(Procs) + 3
NoInode == 0
Paths   == {"quota", "tmp"}

Days     == 0 .. MaxDays
States   == [date : Days, requests : 0 .. Rpd]
Torn     == [date |-> 0, requests |-> 0, torn |-> TRUE]  \* not JSON
Contents == States \cup {Torn}

VARIABLES
    overlap,    \* the processes run at the same time, or follow each other
    day,        \* today, in Pacific time
    path,       \* the inode each path names
    disk,       \* what each inode holds
    pc,         \* where each process is in its read-modify-write
    op,         \* what it was called for
    state,      \* the state it read, and changed
    opened,     \* the inode it has open
    sent        \* history: the requests let through, by the day they count
                \* for, up to one more than the cap

QuotaTypeOK ==
    /\ overlap \in BOOLEAN
    /\ day \in Days
    /\ path \in [Paths -> Inodes \cup {NoInode}]
    /\ disk \in [Inodes -> Contents]
    /\ pc \in [Procs -> {"idle", "open", "write", "replace"}]
    /\ op \in [Procs -> {"reserve_request", "add_usd"}]
    /\ state \in [Procs -> States]
    /\ opened \in [Procs -> Inodes \cup {NoInode}]
    /\ sent \in [Days -> 0 .. Rpd + 1]
-----------------------------------------------------------------------------
Empty == [date |-> day, requests |-> 0]

\* _load: no file, no JSON or another day's state is a new state.
Usable == path["quota"] # NoInode /\ disk[path["quota"]] # Torn
Loaded_Carried ==
    IF Usable THEN [disk[path["quota"]] EXCEPT !.date = day] ELSE Empty
Loaded ==
    IF Usable /\ disk[path["quota"]].date = day
    THEN disk[path["quota"]]
    ELSE Empty

\* The requests of today that the next process will know of.
Counted == Loaded.requests
-----------------------------------------------------------------------------
\* Whoever reads the quota file reads what some process meant to save: neither
\* a crash nor a half-written state becomes the file.  Processes that overlap
\* may find it torn, when one renames what another is writing, but only until
\* that one is done.
FileIsWhole ==
    path["quota"] # NoInode /\ disk[path["quota"]] = Torn =>
        overlap /\ \E p \in Procs : pc[p] = "write" /\ opened[p] = path["quota"]

\* The counts persist so that the daily cap holds across processes that follow
\* each other, whatever step the one before died in.
CapHolds == ~overlap => \A d \in Days : sent[d] <= Rpd

QuotaHolds == QuotaTypeOK /\ FileIsWhole /\ CapHolds

\* Processes that follow each other: the file is the counter that DailyQuota
\* promises.  Of processes that overlap nothing is promised.
Quota == INSTANCE DailyQuota WITH count <- IF overlap THEN 0 ELSE Counted
ImplementsQuota == Quota!Spec
=============================================================================
