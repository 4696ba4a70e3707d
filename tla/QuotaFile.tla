------------------------------ MODULE QuotaFile ------------------------------
(***************************************************************************)
(* The file behind DailyQuota (limits.py): processes that read it, change  *)
(* the state they read and replace the file with it.  Every process writes *)
(* the same temporary file first and renames it over the quota file, with  *)
(* no lock.  A process that dies is followed by a new one, which knows     *)
(* nothing but the file.                                                   *)
(***************************************************************************)
EXTENDS QuotaFiles

vars == <<overlap, day, path, disk, pc, op, state, opened, sent>>

Init ==
    /\ overlap \in BOOLEAN
    /\ day = 0
    /\ path = [p \in Paths |-> NoInode]
    /\ disk = [i \in Inodes |-> Torn]
    /\ pc = [p \in Procs |-> "idle"]
    /\ op = [p \in Procs |-> "reserve_request"]
    /\ state = [p \in Procs |-> [date |-> 0, requests |-> 0]]
    /\ opened = [p \in Procs |-> NoInode]
    /\ sent = [d \in Days |-> 0]
-----------------------------------------------------------------------------
At(p, point)   == pc[p] = point
Goto(p, point) == pc' = [pc EXCEPT ![p] = point]

IsFull(s) == s.requests >= Rpd

\* reserve_request or add_usd, up to _save.  A full day raises.
Load(p) ==
    /\ overlap \/ \A q \in Procs : At(q, "idle")
    /\ At(p, "idle")
    /\ \E o \in Ops :
        /\ o = "reserve_request" => ~IsFull(Loaded)
        /\ op' = [op EXCEPT ![p] = o]
        /\ state' = [state EXCEPT ![p] =
               IF o = "reserve_request"
               THEN [Loaded EXCEPT !.requests = @ + 1]
               ELSE Loaded]
    /\ Goto(p, "open")
    /\ UNCHANGED <<overlap, day, path, disk, opened, sent>>

Target_InPlace == "quota"
Target == "tmp"

IsFree(i) == /\ \A q \in Paths : path[q] # i
             /\ \A p \in Procs : opened[p] # i

\* write_text opens the temporary file: a new one, or the one that is there,
\* which is then empty.
Open(p) ==
    /\ At(p, "open")
    /\ LET i == IF path[Target] # NoInode THEN path[Target]
                ELSE CHOOSE j \in Inodes : IsFree(j)
       IN  /\ path' = [path EXCEPT ![Target] = i]
           /\ disk' = [disk EXCEPT ![i] = Torn]
           /\ opened' = [opened EXCEPT ![p] = i]
    /\ Goto(p, "write")
    /\ UNCHANGED <<overlap, day, op, state, sent>>

\* The text is written from the start of the file.  The states of a run here
\* have texts of one length, so none leaves its end behind another one.
Write(p) ==
    /\ At(p, "write")
    /\ disk' = [disk EXCEPT ![opened[p]] = state[p]]
    /\ opened' = [opened EXCEPT ![p] = NoInode]
    /\ Goto(p, "replace")
    /\ UNCHANGED <<overlap, day, path, op, state, sent>>

\* os.replace; the request may now be sent.
Replace(p) ==
    /\ At(p, "replace")
    /\ path["tmp"] # NoInode
    /\ path' = [path EXCEPT !["quota"] = path["tmp"], !["tmp"] = NoInode]
    /\ sent' = IF op[p] = "reserve_request"
               THEN [sent EXCEPT ![state[p].date] =
                        IF @ > Rpd THEN @ ELSE @ + 1]
               ELSE sent
    /\ Goto(p, "idle")
    /\ UNCHANGED <<overlap, day, disk, op, state, opened>>

\* Another process renamed the temporary file: os.replace raises.
ReplaceRaises(p) ==
    /\ At(p, "replace")
    /\ path["tmp"] = NoInode
    /\ Goto(p, "idle")
    /\ UNCHANGED <<overlap, day, path, disk, op, state, opened, sent>>

\* The process dies, and a new one takes its place.
Crash(p) ==
    /\ MayCrash /\ ~overlap
    /\ ~At(p, "idle")
    /\ Goto(p, "idle")
    /\ opened' = [opened EXCEPT ![p] = NoInode]
    /\ UNCHANGED <<overlap, day, path, disk, op, state, sent>>

Midnight ==
    /\ day < MaxDays /\ ~overlap
    /\ day' = day + 1
    /\ UNCHANGED <<overlap, path, disk, pc, op, state, opened, sent>>

Next ==
    \/ Midnight
    \/ \E p \in Procs : \/ Load(p) \/ Open(p) \/ Write(p) \/ Replace(p)
                        \/ ReplaceRaises(p) \/ Crash(p)

Spec == Init /\ [][Next]_vars
==============================================================================
