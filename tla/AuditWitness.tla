---------------------------- MODULE AuditWitness ----------------------------
(***************************************************************************)
(* The witness of the audit log (app/services/audit_witness.py): chain     *)
(* heads published to a bucket that keeps every object version, by several *)
(* processes, and the databases they are read from, which may be restored  *)
(* to an earlier point.                                                    *)
(*                                                                         *)
(* A hash covers all rows up to its own, so the hash of a row is the log   *)
(* up to it: a head is a non-empty sequence of rows, its length the id of  *)
(* its last row.  A row's content is the number of restores before it: rows *)
(* written again differ.  The clocks of the publishers' hosts may disagree *)
(* on the second a head is read in.                                        *)
(***************************************************************************)
EXTENDS Integers, FiniteSets, SequencesExt

CONSTANTS Databases,    \* the first portal's, and those that continue it
          Publishers,   \* leaders and commands that publish heads
          Serves,       \* the database each of them is configured with
          MaxRows,      \* bound on the rows of a log
          MaxRestores,  \* bound on the restores of one database
          MaxClock      \* bound on the seconds that pass

ASSUME WitnessAssumption ==
    /\ Serves \in [Publishers -> Databases]
    /\ MaxRows \in Nat /\ MaxRestores \in Nat /\ MaxClock \in Nat

Retries == 3            \* CONFLICT_RETRIES

VARIABLES
    log,           \* audit_log of each database
    restores,      \* how often one was restored
    armed,         \* audit_witness_arming
    objects,       \* the published heads, in the order they were stored:
                   \* [chain, id, stamp] is the key
    pub,           \* a publisher's call: the head it read, or none
    remembered     \* the head it published last, or none (PeriodicPublisher, and
                   \* the newest row of audit_witness_publications)

bases == <<log, restores, armed>>
wvars == <<bases, objects, pub, remembered>>

NoHead == <<>>
NoCall == [head |-> NoHead, stamp |-> 0]

Chain(head) == SubSeq(head, 1, 1)   \* chain_id: the first row's hash

Object(head, stamp) == [chain |-> Chain(head), id |-> Len(head), stamp |-> stamp, head |-> head]

Stored == ToSet(objects)

Published(head) == \E o \in Stored : o.head = head

WInit ==
    /\ log = [d \in Databases |-> <<>>]
    /\ restores = 0
    /\ armed = [d \in Databases |-> FALSE]
    /\ objects = <<>>
    /\ pub = [p \in Publishers |-> NoCall]
    /\ remembered = [p \in Publishers |-> NoHead]

-----------------------------------------------------------------------------
(* The databases.                                                          *)

Row(d) == [db |-> d, era |-> restores]

\* A transaction that writes an audited table (AuditChain).
Write(d) ==
    /\ Len(log[d]) < MaxRows
    /\ log' = [log EXCEPT ![d] = Append(@, Row(d))]
    /\ UNCHANGED <<restores, armed, objects, pub, remembered>>

\* The owner arms the witness; the table of it is audited.
Arm(d) ==
    /\ ~armed[d] /\ Len(log[d]) < MaxRows
    /\ armed' = [armed EXCEPT ![d] = TRUE]
    /\ log' = [log EXCEPT ![d] = Append(@, Row(d))]
    /\ UNCHANGED <<restores, objects, pub, remembered>>

\* A restore from a backup: the rows since are gone, a running process keeps
\* what it remembers, that the witness is armed included.
Restore(d) ==
    /\ restores < MaxRestores
    /\ \E n \in 1..(Len(log[d]) - 1) :
        log' = [log EXCEPT ![d] = SubSeq(@, 1, n)]
    /\ restores' = restores + 1
    /\ UNCHANGED <<armed, objects, pub, remembered>>

-----------------------------------------------------------------------------
(* Publishing.                                                             *)

\* The hourly turn reads the head and ends its transaction before S3 is asked.
ReadHead(p) ==
    LET d == Serves[p] IN
    /\ pub[p] = NoCall /\ armed[d]
    /\ log[d] # <<>> /\ Len(log[d]) # Len(remembered[p])
    /\ \E t \in 1..MaxClock : pub' = [pub EXCEPT ![p] = [head |-> log[d], stamp |-> t]]
    /\ UNCHANGED <<bases, objects, remembered>>

SameKey(o, x) == o.chain = x.chain /\ o.id = x.id /\ o.stamp = x.stamp

\* Mutant: whatever is at the key counts as this head.
FreeOrAny(x) == TRUE

\* _put_once: the key is free, or holds this very object.
FreeOrSame(x) == \A o \in Stored : SameKey(o, x) => o = x

Attempts(call) == {k \in 0..Retries : FreeOrSame(Object(call.head, call.stamp + k))}

\* The object publish_head writes, or finds: at the first second at or after
\* the head's whose key is not another head's.
Target(call) == Object(call.head, call.stamp + Min(Attempts(call)))

PutOnce(x) == IF \E o \in Stored : SameKey(o, x) THEN objects ELSE Append(objects, x)

\* The head is at its key.
Put(p) ==
    /\ pub[p] # NoCall /\ Attempts(pub[p]) # {}
    /\ objects' = PutOnce(Target(pub[p]))
    /\ remembered' = [remembered EXCEPT ![p] = pub[p].head]
    /\ pub' = [pub EXCEPT ![p] = NoCall]
    /\ UNCHANGED bases

\* S3 fails before or after it stored the object, or every key conflicts:
\* logged, and the next turn tries again.
PutFails(p) ==
    /\ pub[p] # NoCall
    /\ \/ UNCHANGED objects
       \/ Attempts(pub[p]) # {} /\ objects' = PutOnce(Target(pub[p]))
    /\ pub' = [pub EXCEPT ![p] = NoCall]
    /\ UNCHANGED <<bases, remembered>>

\* The process ends, and another one takes its place: it knows the last
\* publication if that was recorded and not lost by a restore.
Replace(p) ==
    /\ remembered[p] # NoHead
    /\ pub' = [pub EXCEPT ![p] = NoCall]
    /\ remembered' = [remembered EXCEPT ![p] = NoHead]
    /\ UNCHANGED <<bases, objects>>

WNext ==
    \/ \E d \in Databases : Write(d) \/ Arm(d) \/ Restore(d)
    \/ \E p \in Publishers : ReadHead(p) \/ Put(p) \/ PutFails(p) \/ Replace(p)

-----------------------------------------------------------------------------
(* Checking published heads against a database (check_heads).              *)

ChainHeads(heads, chain) == {o \in heads : o.chain = chain}

\* Mutant: a published row that is there is not compared.
MissingOnly(d, heads) ==
    {o \in ChainHeads(heads, Chain(log[d])) : o.id > Len(log[d])}

\* Published heads of the log's own chain that its rows do not bear out.
Mismatches(d, heads) ==
    {o \in ChainHeads(heads, Chain(log[d])) : ~IsPrefix(o.head, log[d])}

NoneOfOurs(d, heads) == heads # {} /\ ChainHeads(heads, Chain(log[d])) = {}

ForeignChains(d, heads) == {o.chain : o \in heads} \ {Chain(log[d])}

\* Mutant: the last one published.
LastHeadByTime(heads, chain) ==
    LET of == ChainHeads(heads, chain)
    IN  CHOOSE o \in of : \A x \in of : x.stamp <= o.stamp

\* The last published head of a foreign chain: the one of its last row.
LastHead(heads, chain) ==
    LET of == ChainHeads(heads, chain)
    IN  CHOOSE o \in of : \A x \in of : x.id <= o.id

-----------------------------------------------------------------------------

\* A head that a publisher takes as published, and so will not publish again,
\* is in the bucket, whatever other publishers and restores put at its key.
RememberedArePublished ==
    \A p \in Publishers : remembered[p] # NoHead => Published(remembered[p])
=============================================================================
