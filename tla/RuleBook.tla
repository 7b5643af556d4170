------------------------------ MODULE RuleBook ------------------------------
(***************************************************************************)
(* What the white and the black list promise those who use them: one book  *)
(* of rules, which a request changes, or is answered from, at one moment   *)
(* between its arrival and its answer.  There are no duplicates, no rows   *)
(* that are read back, no lists that are cut short: a search gets the      *)
(* verdict of the whole book, a refused addition met a rule of its network,*)
(* one that is answered OK is in the book, a removal that is answered      *)
(* NotFound had nothing to remove.  What the book does not promise: that a *)
(* network is in it once (an addition may be entered beside a rule of its  *)
(* network), nor that a removal finds and strikes at the same moment.      *)
(***************************************************************************)
CONSTANTS
    Handler,    \* requests that can be in progress at a time
    Net, IP,
    Hosts,      \* the addresses of a network
    Database,   \* whether the book is in a database, which outlives the
                \* process, and whose statements may fail
    NoNet

VARIABLES
    book,       \* the rules
    phase,      \* how far a request is
    subject,    \* the rule it is about
    ret         \* the answer to the last request of a slot

vars == <<book, phase, subject, ret>>

RuleType == {"allow", "deny"}

Rule(typ, n) == [type |-> typ, net |-> n]

NoRule == Rule("none", NoNet)

Init ==
    /\ book = {}
    /\ phase = [h \in Handler |-> "idle"]
    /\ subject = [h \in Handler |-> NoRule]
    /\ ret = [h \in Handler |-> "none"]

Ask(h, change, r) ==
    /\ phase[h] = "idle"
    /\ phase' = [phase EXCEPT ![h] = change]
    /\ subject' = [subject EXCEPT ![h] = r]
    /\ ret' = [ret EXCEPT ![h] = "none"]
    /\ UNCHANGED book

Answer(h, a) ==
    /\ phase' = [phase EXCEPT ![h] = "idle"]
    /\ subject' = [subject EXCEPT ![h] = NoRule]
    /\ ret' = [ret EXCEPT ![h] = a]

-----------------------------------------------------------------------------
(* An addition                                                             *)

With(h) == book \cup {subject[h]}

(* The rule is in the book, and its addition not yet answered.             *)
Write(h) ==
    /\ phase[h] = "adding"
    /\ book' = With(h)
    /\ phase' = [phase EXCEPT ![h] = "added"]
    /\ UNCHANGED <<subject, ret>>

Confirm(h) ==
    /\ phase[h] = "added"
    /\ subject[h] \in book
    /\ Answer(h, "OK")
    /\ UNCHANGED book

Enter(h) ==
    /\ phase[h] = "adding"
    /\ book' = With(h)
    /\ Answer(h, "OK")

Duplicate(h) ==
    /\ phase[h] = "adding"
    /\ \E r \in book : r.net = subject[h].net
    /\ Answer(h, "InvalidArgument")
    /\ UNCHANGED book

AddFails(h) ==
    /\ Database
    /\ \/ phase[h] = "adding" /\ book' \in {book, With(h)}
       \/ phase[h] = "added" /\ UNCHANGED book
    /\ Answer(h, "Internal")

-----------------------------------------------------------------------------
(* A removal                                                               *)

(* It finds a rule of the network, in whichever list, and strikes it later.*)
Find(h) ==
    /\ phase[h] = "removing"
    /\ \E r \in book :
          /\ r.net = subject[h].net
          /\ subject' = [subject EXCEPT ![h] = r]
    /\ phase' = [phase EXCEPT ![h] = "found"]
    /\ UNCHANGED <<book, ret>>

Missing(h) ==
    /\ phase[h] = "removing"
    /\ \A r \in book : r.net # subject[h].net
    /\ Answer(h, "NotFound")
    /\ UNCHANGED book

FindFails(h) ==
    /\ Database
    /\ phase[h] = "removing"
    /\ Answer(h, "InvalidArgument")
    /\ UNCHANGED book

Without(h) == book \ {subject[h]}

Strike(h) ==
    /\ phase[h] = "found"
    /\ book' = Without(h)
    /\ Answer(h, "OK")

StrikeFails(h) ==
    /\ Database
    /\ phase[h] = "found"
    /\ book' \in {book, Without(h)}
    /\ Answer(h, "Internal")

-----------------------------------------------------------------------------
(* A search, which arrives and is answered at one moment                   *)

Says(typ, ip) == \E r \in book : r.type = typ /\ ip \in Hosts[r.net]

Verdict(ip) ==
    IF Says("allow", ip) THEN "allow"
    ELSE IF Says("deny", ip) THEN "deny"
    ELSE "norule"

Search(h, ip) ==
    /\ phase[h] = "idle"
    /\ Answer(h, Verdict(ip)) \/ (Database /\ Answer(h, "Internal"))
    /\ UNCHANGED book

Malformed(h) ==
    /\ phase[h] = "idle"
    /\ Answer(h, "InvalidArgument")
    /\ UNCHANGED book

-----------------------------------------------------------------------------
Restart ==
    /\ book' = IF Database THEN book ELSE {}
    /\ phase' = [h \in Handler |-> "idle"]
    /\ subject' = [h \in Handler |-> NoRule]
    /\ ret' = [h \in Handler |-> IF phase[h] = "idle" THEN ret[h] ELSE "Unavailable"]

Request(h) ==
    \/ \E change \in {"adding", "removing"}, typ \in RuleType, n \in Net :
          Ask(h, change, Rule(typ, n))
    \/ \E ip \in IP : Search(h, ip)
    \/ Malformed(h)

Change(h) ==
    \/ Write(h) \/ Confirm(h) \/ Enter(h) \/ Duplicate(h) \/ AddFails(h)
    \/ Find(h) \/ Missing(h) \/ FindFails(h) \/ Strike(h) \/ StrikeFails(h)

Next == Restart \/ \E h \in Handler : Request(h) \/ Change(h)

Spec == Init /\ [][Next]_vars
=============================================================================
