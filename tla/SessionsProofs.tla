---------------------------- MODULE SessionsProofs ----------------------------
(***************************************************************************)
(* For any number of sessions and requests: no document number runs ahead  *)
(* of the count, and a second invoice or payment needs a request that was  *)
(* overtaken, or a sequence used twice; more than the principal is         *)
(* disbursed, more than that repaid, or an agreement closed that is not    *)
(* repaid, only by requests that overlapped.  The same of StockSessions, a *)
(* part of its own at the end: a balance drifts only by a stale write.     *)
(***************************************************************************)
EXTENDS SettlementSessions, StockBalances, TablesProofs, Sequences

\* r has the fields of an open request.
Formed(r) ==
    r \in [id : {r.id}, request : {r.request}, stage : {r.stage}, read : {r.read},
           loaded : {r.loaded}, status : {r.status}, number : {r.number},
           begun : {r.begun}, checked : {r.checked}, counted : {r.counted}]

\* The requests under way are requests of their own, not committed yet.
Identified ==
    /\ opened \in 0 .. MaxRequests
    /\ row = [n \in Id |-> row[n]]
    /\ session = [s \in Session |-> session[s]]
    /\ \A n \in Id : n > opened => row[n] = None
    /\ \A s \in Session : session[s] # None =>
          /\ Formed(session[s])
          /\ session[s].id \in 1 .. opened
          /\ row[session[s].id] = None
          /\ \A t \in Session : session[t] # None /\ session[t].id = session[s].id => t = s

\* A number is at most one ahead of what is committed until it is committed.
Numbered(r) ==
    r.request.kind \in Documents /\ r.stage \in {"numbered", "inserted", "entered"} =>
        r.number.seq \in Nat /\ r.number.seq <= Cardinality(Of(r.request.kind)) + 1

NumberInv ==
    /\ Identified
    /\ \A s \in Session : session[s] # None => Numbered(session[s])
    /\ \A kind \in Documents : \A n \in Of(kind) :
          row[n].number.seq \in Nat /\ row[n].number.seq <= Cardinality(Of(kind))
-----------------------------------------------------------------------------
\* Counts are natural numbers.
LEMMA Counts ==
    \A kind : IsFiniteSet(Of(kind)) /\ Cardinality(Of(kind)) \in Nat
<1>1. IsFiniteSet(Id)
  BY FS_Interval, SettlementBounds DEF Id
<1>2. \A kind : Of(kind) \subseteq Id
  BY DEF Of, Committed
<1> QED
  BY <1>1, <1>2, FS_Subset, FS_CardinalityType

\* q is r at another stage: the same request of the same session.
Advanced(q, r) == Formed(q) /\ q.id = r.id /\ q.request = r.request

\* A session moves on and nothing is committed.
LEMMA MovesOn ==
    ASSUME NumberInv, NEW s \in Session, session[s] # None,
           NEW q, Advanced(q, session[s]), Numbered(q),
           Becomes(s, q), UNCHANGED <<row, opened>>
    PROVE  NumberInv'
<1>1. \A kind : Of(kind)' = Of(kind)
  BY DEF Of, Committed
<1>2. Identified'
  BY DEF NumberInv, Identified, Advanced, Becomes
<1>3. \A t \in Session : session'[t] # None => Numbered(session[t])'
  BY <1>1 DEF NumberInv, Identified, Numbered, Becomes
<1>4. \A kind \in Documents : \A n \in Of(kind)' :
         row'[n].number.seq \in Nat /\ row'[n].number.seq <= Cardinality(Of(kind)')
  BY <1>1 DEF NumberInv
<1> QED
  BY <1>2, <1>3, <1>4 DEF NumberInv

\* A session ends and nothing is committed.
LEMMA GivesUp ==
    ASSUME NumberInv, NEW s \in Session, Becomes(s, None), UNCHANGED <<row, opened>>
    PROVE  NumberInv'
<1>1. \A kind : Of(kind)' = Of(kind)
  BY DEF Of, Committed
<1>2. Identified'
  BY DEF NumberInv, Identified, Becomes
<1>3. \A t \in Session : session'[t] # None => Numbered(session[t])'
  BY <1>1 DEF NumberInv, Identified, Numbered, Becomes
<1>4. \A kind \in Documents : \A n \in Of(kind)' :
         row'[n].number.seq \in Nat /\ row'[n].number.seq <= Cardinality(Of(kind)')
  BY <1>1 DEF NumberInv
<1> QED
  BY <1>2, <1>3, <1>4 DEF NumberInv

\* A new request is one more than those opened, and has no number yet.
LEMMA BeginKeeps ==
    ASSUME NumberInv, NEW s \in Session, NEW request \in Request, Begin(s, request)
    PROVE  NumberInv'
<1> DEFINE q == session'[s]
<1>1. /\ Formed(q) /\ q.id = opened + 1 /\ q.stage = "begun"
      /\ \A t \in Session \ {s} : session'[t] = session[t]
      /\ session' = [t \in Session |-> session'[t]]
      /\ opened' = opened + 1 /\ opened < MaxRequests /\ row' = row
  BY DEF Begin, Becomes, NumberInv, Identified, Formed
<1>2. \A kind : Of(kind)' = Of(kind)
  BY <1>1 DEF Of, Committed
<1>3. Identified'
  <2>1. opened' \in 0 .. MaxRequests /\ opened \in Nat /\ MaxRequests \in Nat
    BY <1>1, SettlementBounds DEF NumberInv, Identified
  <2>2. \A n \in Id : n > opened' => row'[n] = None
    BY <1>1, <2>1 DEF NumberInv, Identified, Id
  <2>3. row[opened + 1] = None /\ opened + 1 \in 1 .. opened'
    BY <1>1, <2>1 DEF NumberInv, Identified, Id
  <2>4. \A t \in Session \ {s} : session[t] # None => session[t].id \in 1 .. opened
    BY DEF NumberInv, Identified
  <2> QED
    BY <1>1, <2>1, <2>2, <2>3, <2>4 DEF NumberInv, Identified
<1>4. \A t \in Session : session'[t] # None => Numbered(session[t])'
  BY <1>1, <1>2 DEF NumberInv, Numbered
<1>5. \A kind \in Documents : \A n \in Of(kind)' :
         row'[n].number.seq \in Nat /\ row'[n].number.seq <= Cardinality(Of(kind)')
  BY <1>1, <1>2 DEF NumberInv
<1> QED
  BY <1>3, <1>4, <1>5 DEF NumberInv

\* What a commit writes: one row, its number and history those of the session.
LEMMA CommitWrites ==
    ASSUME NumberInv, NEW s \in Session, Commit(s)
    PROVE  LET r == session[s]  own == row'[r.id] IN
           /\ r # None /\ r.id \in Id /\ row[r.id] = None /\ Formed(r) /\ Numbered(r)
           /\ opened' = opened /\ opened \in 0 .. MaxRequests
           /\ r.request.kind \in Documents => r.stage = "entered"
           /\ own.request = r.request /\ own.number = r.number
           /\ own.begun = r.begun /\ own.checked = r.checked /\ own.counted = r.counted
           /\ row' = [n \in Id |-> row'[n]]
           /\ \A n \in Id \ {r.id} : row'[n] = row[n]
           /\ \A kind : Of(kind) \subseteq Of(kind)' /\ Of(kind)' \subseteq Of(kind) \cup {r.id}
           /\ \A kind : r.id \in Of(kind)' => kind = r.request.kind
           /\ Committed \subseteq Committed' /\ r.id \notin Committed
           /\ \A kind : /\ Cardinality(Of(kind)) \in Nat /\ Cardinality(Of(kind)') \in Nat
                        /\ Cardinality(Of(kind)) <= Cardinality(Of(kind)')
                        /\ r.id \in Of(kind)' => Cardinality(Of(kind)') = Cardinality(Of(kind)) + 1
           /\ session' = [t \in Session |-> session'[t]] /\ session'[s] = None
           /\ \A t \in Session \ {s} : session'[t] = session[t]
<1> DEFINE r == session[s]
<1> DEFINE own == row'[r.id]
<1>1. /\ r # None /\ r.id \in Id /\ row[r.id] = None /\ Formed(r) /\ Numbered(r)
      /\ opened' = opened /\ opened \in 0 .. MaxRequests
      /\ r.request.kind \in Documents => r.stage = "entered"
  <2>1. r.request.kind \in Documents => r.stage = "entered"
    BY DEF Commit, At, Kind, Documents
  <2> QED
    BY <2>1, SettlementBounds DEF Commit, NumberInv, Identified, Id
<1>2. /\ own.request = r.request /\ own.number = r.number
      /\ own.begun = r.begun /\ own.checked = r.checked /\ own.counted = r.counted
      /\ row' = [n \in Id |-> row'[n]]
      /\ \A n \in Id \ {r.id} : row'[n] = row[n]
  BY <1>1 DEF Commit, NumberInv, Identified
<1>3. /\ \A kind : Of(kind) \subseteq Of(kind)' /\ Of(kind)' \subseteq Of(kind) \cup {r.id}
      /\ \A kind : r.id \in Of(kind)' => kind = r.request.kind
      /\ Committed \subseteq Committed' /\ r.id \notin Committed
  BY <1>1, <1>2 DEF Of, Committed
<1>4. \A kind : /\ Cardinality(Of(kind)) \in Nat /\ Cardinality(Of(kind)') \in Nat
                /\ Cardinality(Of(kind)) <= Cardinality(Of(kind)')
                /\ r.id \in Of(kind)' => Cardinality(Of(kind)') = Cardinality(Of(kind)) + 1
  <2> TAKE kind
  <2>1. IsFiniteSet(Of(kind)) /\ Cardinality(Of(kind)) \in Nat
    BY Counts
  <2>2. r.id \notin Of(kind)
    BY <1>1 DEF Of, Committed
  <2>3. CASE r.id \in Of(kind)'
    <3>1. Of(kind)' = Of(kind) \cup {r.id}
      BY <1>3, <2>3
    <3>2. Cardinality(Of(kind) \cup {r.id}) = Cardinality(Of(kind)) + 1
      BY <2>1, <2>2, FS_AddElement
    <3> QED
      BY <2>1, <3>1, <3>2
  <2>4. CASE r.id \notin Of(kind)'
    <3>1. Of(kind)' = Of(kind)
      BY <1>3, <2>4
    <3> QED
      BY <2>1, <2>4, <3>1
  <2> QED
    BY <2>3, <2>4
<1>5. /\ session' = [t \in Session |-> session'[t]] /\ session'[s] = None
      /\ \A t \in Session \ {s} : session'[t] = session[t]
  BY DEF Commit, Becomes, NumberInv, Identified
<1> QED
  BY <1>1, <1>2, <1>3, <1>4, <1>5

\* The row committed is the one more its number may be ahead of.
LEMMA CommitKeeps ==
    ASSUME NumberInv, NEW s \in Session, Commit(s)
    PROVE  NumberInv'
<1> DEFINE r == session[s]
<1> DEFINE own == row'[r.id]
<1>1. /\ r # None /\ r.id \in Id /\ row[r.id] = None /\ Formed(r) /\ Numbered(r)
      /\ opened' = opened /\ opened \in 0 .. MaxRequests
      /\ r.request.kind \in Documents => r.stage = "entered"
  BY CommitWrites
<1>2. /\ own.request = r.request /\ own.number = r.number
      /\ own.checked = r.checked /\ own.counted = r.counted
      /\ row' = [n \in Id |-> row'[n]]
      /\ \A n \in Id \ {r.id} : row'[n] = row[n]
  BY CommitWrites
<1>3. /\ \A kind : Of(kind) \subseteq Of(kind)' /\ Of(kind)' \subseteq Of(kind) \cup {r.id}
      /\ \A kind : r.id \in Of(kind)' => kind = r.request.kind
      /\ Committed \subseteq Committed' /\ r.id \notin Committed
  BY CommitWrites
<1>4. \A kind : /\ Cardinality(Of(kind)) \in Nat /\ Cardinality(Of(kind)') \in Nat
                /\ Cardinality(Of(kind)) <= Cardinality(Of(kind)')
                /\ r.id \in Of(kind)' => Cardinality(Of(kind)') = Cardinality(Of(kind)) + 1
  BY CommitWrites
<1>5. /\ session' = [t \in Session |-> session'[t]] /\ session'[s] = None
      /\ \A t \in Session \ {s} : session'[t] = session[t]
  BY CommitWrites
<1>6. Identified'
  <2>1. \A n \in Id : n > opened' => row'[n] = None
    BY <1>1, <1>2 DEF NumberInv, Identified
  <2>2. \A t \in Session \ {s} : session[t] # None => session[t].id # r.id /\ session[t].id \in Id
    BY <1>1, SettlementBounds DEF NumberInv, Identified, Id
  <2>3. ASSUME NEW t \in Session \ {s}, session'[t] # None
        PROVE  /\ Formed(session'[t])
               /\ session'[t].id \in 1 .. opened'
               /\ row'[session'[t].id] = None
               /\ \A u \in Session : session'[u] # None /\ session'[u].id = session'[t].id => u = t
    <3>1. session'[t] = session[t]
      BY <1>5
    <3>2. /\ Formed(session[t]) /\ session[t].id \in 1 .. opened /\ row[session[t].id] = None
          /\ \A u \in Session : session[u] # None /\ session[u].id = session[t].id => u = t
      BY <2>3, <3>1 DEF NumberInv, Identified
    <3>3. row'[session[t].id] = None
      BY <1>2, <2>2, <2>3, <3>1, <3>2
    <3> QED
      BY <1>1, <1>5, <3>1, <3>2, <3>3
  <2>4. opened' \in 0 .. MaxRequests /\ row' = [n \in Id |-> row'[n]]
    BY <1>1, <1>2
  <2>5. \A t \in Session : session'[t] # None => t \in Session \ {s}
    BY <1>5
  <2> QED
    BY <1>5, <2>1, <2>3, <2>4, <2>5 DEF Identified
<1>7. \A t \in Session : session'[t] # None => Numbered(session[t])'
  BY <1>4, <1>5 DEF NumberInv, Numbered
<1>8. \A kind \in Documents : \A n \in Of(kind)' :
         row'[n].number.seq \in Nat /\ row'[n].number.seq <= Cardinality(Of(kind)')
  <2> TAKE kind \in Documents
  <2> TAKE n \in Of(kind)'
  <2>1. CASE n = r.id
    <3>1. r.request.kind = kind
      BY <1>2, <2>1 DEF Of
    <3> QED
      BY <1>1, <1>2, <1>4, <2>1, <3>1 DEF Numbered
  <2>2. CASE n # r.id
    <3>1. n \in Of(kind) /\ n \in Id \ {r.id}
      BY <1>3, <2>2 DEF Of, Committed
    <3>2. row'[n] = row[n]
      BY <1>2, <3>1
    <3>3. row[n].number.seq \in Nat /\ row[n].number.seq <= Cardinality(Of(kind))
      BY <3>1 DEF NumberInv
    <3> QED
      BY <1>4, <3>2, <3>3
  <2> QED
    BY <2>1, <2>2
<1> QED
  BY <1>6, <1>7, <1>8 DEF NumberInv

LEMMA NumbersStart == Init => NumberInv
<1> SUFFICES ASSUME Init PROVE NumberInv
  OBVIOUS
<1>1. Identified
  BY SettlementBounds DEF Init, Identified
<1>2. \A kind : Of(kind) = {}
  BY DEF Init, Of, Committed, Id
<1> QED
  BY <1>1, <1>2 DEF Init, NumberInv

LEMMA NumbersKept == NumberInv /\ [Next]_vars => NumberInv'
<1> SUFFICES ASSUME NumberInv, [Next]_vars PROVE NumberInv'
  OBVIOUS
<1>1. ASSUME NEW s \in Session, NEW request \in Request, Begin(s, request) PROVE NumberInv'
  BY <1>1, BeginKeeps
<1>2. ASSUME NEW s \in Session, session[s] # None
      PROVE  Formed(session[s]) /\ Numbered(session[s])
  BY <1>2 DEF NumberInv, Identified
<1>3. ASSUME NEW s \in Session, ReadDisbursed(s) PROVE NumberInv'
  <2>1. Kind(s) \notin Documents /\ session[s] # None
    BY <1>3 DEF ReadDisbursed, Documents
  <2>2. ASSUME NEW stage, Becomes(s, [session[s] EXCEPT !.stage = stage, !.read = Disbursed])
        PROVE  NumberInv'
    <3> DEFINE q == [session[s] EXCEPT !.stage = stage, !.read = Disbursed]
    <3>1. Advanced(q, session[s])
      BY <1>2, <2>1 DEF Formed, Advanced
    <3>2. Numbered(q)
      BY <2>1, <3>1 DEF Numbered, Advanced, Kind
    <3> QED
      BY <1>3, <2>1, <2>2, <3>1, <3>2, MovesOn DEF ReadDisbursed
  <2> QED
    BY <1>3, <2>2 DEF ReadDisbursed
<1>4. ASSUME NEW s \in Session, Check(s) PROVE NumberInv'
  <2>1. CASE Becomes(s, None)
    BY <1>4, <2>1, GivesUp DEF Check
  <2>2. CASE Becomes(s, [session[s] EXCEPT !.stage = "checked", !.checked = Committed])
    <3> DEFINE q == [session[s] EXCEPT !.stage = "checked", !.checked = Committed]
    <3>1. session[s] # None
      BY <1>4 DEF Check
    <3>2. Advanced(q, session[s]) /\ q.stage = "checked"
      BY <1>2, <3>1 DEF Formed, Advanced
    <3>3. Numbered(q)
      BY <3>2 DEF Numbered
    <3> QED
      BY <1>4, <2>2, <3>1, <3>2, <3>3, MovesOn DEF Check
  <2> QED
    BY <1>4, <2>1, <2>2 DEF Check
<1>5. ASSUME NEW s \in Session, TakeNumber(s) PROVE NumberInv'
  <2> DEFINE number == [day |-> today, seq |-> NextSeq(Of(Kind(s)))]
  <2> DEFINE q == [session[s] EXCEPT !.stage = "numbered", !.counted = Committed, !.number = number]
  <2>1. session[s] # None
    BY <1>5 DEF TakeNumber, At
  <2>2. Advanced(q, session[s]) /\ q.number = number
    BY <1>2, <2>1 DEF Formed, Advanced
  <2>3. number.seq = Cardinality(Of(Kind(s))) + 1
    BY DEF NextSeq
  <2>4. Numbered(q)
    BY <2>2, <2>3, Counts DEF Numbered, Advanced, Kind
  <2> QED
    BY <1>5, <2>1, <2>2, <2>4, MovesOn DEF TakeNumber
<1>6. ASSUME NEW s \in Session, Insert(s) PROVE NumberInv'
  <2>1. CASE Becomes(s, None)
    BY <1>6, <2>1, GivesUp DEF Insert
  <2>2. CASE Becomes(s, [session[s] EXCEPT !.stage = "inserted"])
    <3> DEFINE q == [session[s] EXCEPT !.stage = "inserted"]
    <3>1. session[s] # None /\ session[s].stage = "numbered"
      BY <1>6 DEF Insert, At
    <3>2. Advanced(q, session[s]) /\ q.number = session[s].number
      BY <1>2, <3>1 DEF Formed, Advanced
    <3>3. Numbered(q)
      BY <1>2, <3>1, <3>2 DEF Numbered, Advanced
    <3> QED
      BY <1>6, <2>2, <3>1, <3>2, <3>3, MovesOn DEF Insert
  <2> QED
    BY <1>6, <2>1, <2>2 DEF Insert
<1>7. ASSUME NEW s \in Session, EnterJournal(s) PROVE NumberInv'
  <2> DEFINE status == IF Kind(s) = "disbursement" THEN "ACTIVE" ELSE session[s].status
  <2> DEFINE q == [session[s] EXCEPT !.stage = "entered", !.status = status]
  <2>1. /\ session[s] # None /\ Becomes(s, q) /\ UNCHANGED <<row, opened>>
        /\ Kind(s) \in Documents => session[s].stage = "inserted"
    BY <1>7 DEF EnterJournal, At
  <2>2. Advanced(q, session[s]) /\ q.number = session[s].number
    BY <1>2, <2>1 DEF Formed, Advanced
  <2>3. Numbered(q)
    BY <1>2, <2>1, <2>2 DEF Numbered, Advanced, Kind
  <2> QED
    BY <2>1, <2>2, <2>3, MovesOn
<1>8. ASSUME NEW s \in Session, Settle(s) PROVE NumberInv'
  <2>1. session[s] # None
    BY <1>8 DEF Settle, At
  <2>2. PICK status : Becomes(s, [session[s] EXCEPT !.stage = "settled", !.status = status])
    BY <1>8 DEF Settle
  <2> DEFINE q == [session[s] EXCEPT !.stage = "settled", !.status = status]
  <2>3. Advanced(q, session[s]) /\ q.stage = "settled"
    BY <1>2, <2>1 DEF Formed, Advanced
  <2>4. Numbered(q)
    BY <2>3 DEF Numbered
  <2> QED
    BY <1>8, <2>1, <2>2, <2>3, <2>4, MovesOn DEF Settle
<1>9. ASSUME NEW s \in Session, Commit(s) PROVE NumberInv'
  BY <1>9, CommitKeeps
<1>10. ASSUME NEW s \in Session, Disconnect(s) PROVE NumberInv'
  BY <1>10, GivesUp DEF Disconnect
<1>11. CASE UNCHANGED <<row, session, opened>>
  BY <1>11 DEF NumberInv, Identified, Numbered, Of, Committed
<1> QED
  BY <1>1, <1>3, <1>4, <1>5, <1>6, <1>7, <1>8, <1>9, <1>10, <1>11 DEF Next, Midnight, vars

(***************************************************************************)
(* For any number of sessions, requests and days, and whichever requests   *)
(* fail between taking a number and committing it, the number a request    *)
(* served alone would take is free: counting the rows never blocks the     *)
(* invoices and payments to come.                                          *)
(***************************************************************************)
THEOREM NumbersStayFree == Spec => []NextNumberIsFree
<1>1. NumberInv => NextNumberIsFree
  BY DEF NumberInv, NextNumberIsFree
<1> QED
  BY <1>1, NumbersStart, NumbersKept, PTL DEF Spec
-----------------------------------------------------------------------------
\* Where a sequence is never used twice, the numbers in use are 1, 2, ... in
\* the order of the commits.  A document then commits only if no other did
\* since its count, so that it was counted over everything before it.
Taken(r, rows) == \E n \in rows : row[n].number = r.number

Holds(r) ==
    r.request.kind \in Documents =>
        /\ r.stage \in {"checked", "numbered", "inserted", "entered"} =>
              /\ r.checked \subseteq Committed
              /\ \A n \in r.checked \cap Of(r.request.kind) : row[n].request.of # r.request.of
        /\ r.stage \in {"numbered", "inserted", "entered"} =>
              /\ r.counted \subseteq Committed
              /\ r.number = [day |-> r.number.day,
                             seq |-> Cardinality(r.counted \cap Of(r.request.kind)) + 1]
        /\ r.stage \in {"inserted", "entered"} => ~Taken(r, Of(r.request.kind))

\* Two inserted and not committed have different numbers.
Apart(r, q) ==
    /\ r.request.kind \in Documents /\ r.request.kind = q.request.kind
    /\ {r.stage, q.stage} \subseteq {"inserted", "entered"}
    => r.number # q.number

RowsUnique(kind) ==
    \A n, m \in Of(kind) :
        /\ row[n].number = [day |-> row[n].number.day, seq |-> row[n].number.seq]
        /\ row[n].number = row[m].number => n = m

SequenceFilled(kind) ==
    SequenceReused(kind)
    \/ \A i \in 1 .. Cardinality(Of(kind)) : \E n \in Of(kind) : row[n].number.seq = i

SecondInv ==
    /\ NumberInv
    /\ \A s \in Session : session[s] # None => Holds(session[s])
    /\ \A s, t \in Session :
          s # t /\ session[s] # None /\ session[t] # None => Apart(session[s], session[t])
    /\ \A kind \in Documents : RowsUnique(kind) /\ SequenceFilled(kind)
    /\ SecondOneWasOvertaken

\* Nothing is committed: the rows keep what they have.
LEMMA RowsKept ==
    ASSUME SecondInv, UNCHANGED row
    PROVE  /\ Committed' = Committed
           /\ \A kind : Of(kind)' = Of(kind)
           /\ \A kind \in Documents : RowsUnique(kind)' /\ SequenceFilled(kind)'
           /\ SecondOneWasOvertaken'
<1>1. Committed' = Committed /\ \A kind : Of(kind)' = Of(kind)
  BY DEF Of, Committed
<1>2. \A kind \in Documents : RowsUnique(kind)'
  BY <1>1 DEF SecondInv, RowsUnique
<1>3. \A kind : SequenceReused(kind)' <=> SequenceReused(kind)
  BY <1>1 DEF SequenceReused
<1>4. \A kind \in Documents : SequenceFilled(kind)'
  BY <1>1, <1>3 DEF SecondInv, SequenceFilled
<1>5. SecondOneWasOvertaken'
  BY <1>1, <1>3 DEF SecondInv, SecondOneWasOvertaken, Overtaken
<1> QED
  BY <1>1, <1>2, <1>4, <1>5

LEMMA HoldsOn ==
    ASSUME SecondInv, NumberInv', NEW s \in Session, session[s] # None,
           NEW q, Holds(q),
           \A t \in Session \ {s} : session[t] # None => Apart(q, session[t]),
           Becomes(s, q), UNCHANGED row
    PROVE  SecondInv'
<1>1. session'[s] = q /\ \A t \in Session \ {s} : session'[t] = session[t]
  BY DEF Becomes, SecondInv, NumberInv, Identified
<1>2. \A t \in Session : session'[t] # None => Holds(session[t])'
  <2>1. Holds(session[s])'
    BY <1>1, RowsKept DEF Holds, Taken
  <2>2. ASSUME NEW t \in Session \ {s}, session'[t] # None PROVE Holds(session[t])'
    <3>1. session'[t] = session[t] /\ Holds(session[t])
      BY <1>1, <2>2 DEF SecondInv
    <3> QED
      BY <3>1, RowsKept DEF Holds, Taken
  <2> QED
    BY <2>1, <2>2
<1>3. \A t, u \in Session :
         t # u /\ session'[t] # None /\ session'[u] # None => Apart(session'[t], session'[u])
  BY <1>1 DEF SecondInv, Apart
<1> QED
  BY <1>2, <1>3, RowsKept DEF SecondInv

\* A session that ends leaves fewer to compare.
LEMMA HoldsWithout ==
    ASSUME SecondInv, NumberInv', NEW s \in Session, Becomes(s, None), UNCHANGED row
    PROVE  SecondInv'
<1>1. session'[s] = None /\ \A t \in Session \ {s} : session'[t] = session[t]
  BY DEF Becomes, SecondInv, NumberInv, Identified
<1>2. ASSUME NEW t \in Session, session'[t] # None PROVE Holds(session[t])'
  <2>1. session'[t] = session[t] /\ Holds(session[t])
    BY <1>1, <1>2 DEF SecondInv
  <2> QED
    BY <2>1, RowsKept DEF Holds, Taken
<1>3. \A t, u \in Session :
         t # u /\ session'[t] # None /\ session'[u] # None => Apart(session'[t], session'[u])
  BY <1>1 DEF SecondInv
<1> QED
  BY <1>2, <1>3, RowsKept DEF SecondInv

\* A document that is committed has the next number of all, and was counted
\* over all that are committed, or a sequence was used twice.
LEMMA NextInOrder ==
    ASSUME SecondInv, NEW r, Holds(r), Numbered(r),
           r.request.kind \in Documents, r.stage = "entered",
           SequenceFilled(r.request.kind), RowsUnique(r.request.kind)
    PROVE  \/ \E n \in Of(r.request.kind) :
                 row[n].number.seq = r.number.seq /\ row[n].number.day # r.number.day
           \/ SequenceReused(r.request.kind)
           \/ /\ Of(r.request.kind) \subseteq r.counted
              /\ r.number.seq = Cardinality(Of(r.request.kind)) + 1
<1> DEFINE kind == r.request.kind
<1> DEFINE seen == r.counted \cap Of(kind)
<1>1. /\ r.number = [day |-> r.number.day, seq |-> Cardinality(seen) + 1]
      /\ r.number.seq = Cardinality(seen) + 1
      /\ ~Taken(r, Of(kind))
      /\ r.number.seq <= Cardinality(Of(kind)) + 1
  BY DEF Holds, Numbered
<1>2. /\ IsFiniteSet(Of(kind)) /\ Cardinality(Of(kind)) \in Nat
      /\ Cardinality(seen) \in Nat
      /\ Cardinality(Of(kind)) = Cardinality(seen) => seen = Of(kind)
  <2>1. IsFiniteSet(Of(kind)) /\ Cardinality(Of(kind)) \in Nat
    BY Counts
  <2>2. seen \in SUBSET Of(kind)
    OBVIOUS
  <2> QED
    BY <2>1, <2>2, FS_Subset, FS_CardinalityType
<1>3. CASE r.number.seq <= Cardinality(Of(kind)) /\ ~SequenceReused(kind)
  <2>1. PICK n \in Of(kind) : row[n].number.seq = r.number.seq
    BY <1>1, <1>2, <1>3 DEF SequenceFilled
  <2>2. row[n].number # r.number
    BY <1>1 DEF Taken
  <2>3. row[n].number = [day |-> row[n].number.day, seq |-> row[n].number.seq]
    BY DEF RowsUnique
  <2>4. row[n].number.day # r.number.day
    BY <1>1, <2>1, <2>2, <2>3
  <2> QED
    BY <2>1, <2>4
<1>4. CASE r.number.seq = Cardinality(Of(kind)) + 1
  BY <1>1, <1>2, <1>4
<1> QED
  BY <1>1, <1>2, <1>3, <1>4

LEMMA CommitHolds ==
    ASSUME SecondInv, NumberInv', NEW s \in Session, Commit(s)
    PROVE  SecondInv'
<1> PICK r : r = session[s]
  OBVIOUS
<1> DEFINE own == row'[r.id]
<1> NumberInv
  BY DEF SecondInv
<1>1. /\ r # None /\ r.id \in Id /\ Formed(r) /\ Numbered(r) /\ Holds(r)
      /\ r.request.kind \in Documents => r.stage = "entered"
  BY CommitWrites DEF SecondInv
<1>2. /\ own.request = r.request /\ own.number = r.number
      /\ own.checked = r.checked /\ own.counted = r.counted
      /\ \A n \in Id \ {r.id} : row'[n] = row[n]
  BY CommitWrites
<1>3. /\ \A kind : Of(kind) \subseteq Of(kind)' /\ Of(kind)' \subseteq Of(kind) \cup {r.id}
      /\ \A kind : r.id \in Of(kind)' => kind = r.request.kind
      /\ Committed \subseteq Committed' /\ r.id \notin Committed
  BY CommitWrites
<1>4. \A kind : /\ Cardinality(Of(kind)) \in Nat
                /\ r.id \in Of(kind)' => Cardinality(Of(kind)') = Cardinality(Of(kind)) + 1
  BY CommitWrites
<1>5. session'[s] = None /\ \A t \in Session \ {s} : session'[t] = session[t]
  BY CommitWrites
<1>6. \A kind : Of(kind) \subseteq Committed /\ Of(kind) \subseteq Id \ {r.id}
  BY <1>3 DEF Of, Committed
<1>7. \A kind : \A n \in Of(kind) : row'[n] = row[n]
  BY <1>2, <1>6
<1>8. \A kind : SequenceReused(kind) => SequenceReused(kind)'
  BY <1>3, <1>7 DEF SequenceReused
\* The document committed comes next, or shares a sequence with an earlier one.
<1>9. ASSUME NEW kind \in Documents, r.id \in Of(kind)'
      PROVE  /\ kind = r.request.kind
             /\ ~SequenceReused(kind)' => /\ Of(kind) \subseteq r.counted
                                         /\ r.number.seq = Cardinality(Of(kind)) + 1
  <2>1. kind = r.request.kind
    BY <1>3, <1>9
  <2>2. SequenceFilled(kind) /\ RowsUnique(kind)
    BY DEF SecondInv
  <2>3. \/ \E n \in Of(kind) : row[n].number.seq = r.number.seq /\ row[n].number.day # r.number.day
        \/ SequenceReused(kind)
        \/ Of(kind) \subseteq r.counted /\ r.number.seq = Cardinality(Of(kind)) + 1
    BY <1>1, <2>1, <2>2, NextInOrder
  <2>4. CASE \E n \in Of(kind) : row[n].number.seq = r.number.seq /\ row[n].number.day # r.number.day
    <3>1. PICK n \in Of(kind) : row[n].number.seq = r.number.seq /\ row[n].number.day # r.number.day
      BY <2>4
    <3>2. n \in Of(kind)' /\ row'[n].number = row[n].number /\ row'[r.id].number = r.number
      BY <1>2, <1>3, <1>7
    <3>3. SequenceReused(kind)'
      BY <1>9, <3>1, <3>2 DEF SequenceReused
    <3> QED
      BY <2>1, <3>3
  <2>5. CASE SequenceReused(kind)
    <3>1. SequenceReused(kind)'
      BY <1>8, <2>5
    <3> QED
      BY <2>1, <3>1
  <2>6. CASE Of(kind) \subseteq r.counted /\ r.number.seq = Cardinality(Of(kind)) + 1
    BY <2>1, <2>6
  <2> QED
    BY <2>3, <2>4, <2>5, <2>6
<1>10. ASSUME NEW t \in Session, session'[t] # None PROVE Holds(session[t])'
  <2> PICK q : q = session[t]
    OBVIOUS
  <2>1. session'[t] = q /\ session[t] = q /\ Holds(q) /\ t # s /\ q # None
    BY <1>5, <1>10 DEF SecondInv
  <2> SUFFICES ASSUME q.request.kind \in Documents PROVE Holds(session[t])'
    BY <2>1 DEF Holds
  <2> DEFINE kind == q.request.kind
  <2>2. ASSUME q.stage \in {"checked", "numbered", "inserted", "entered"}
        PROVE  q.checked \subseteq Committed' /\
               \A n \in q.checked \cap Of(kind)' : row'[n].request.of # q.request.of
    <3>1. q.checked \subseteq Committed /\ \A n \in q.checked \cap Of(kind) : row[n].request.of # q.request.of
      BY <2>1, <2>2 DEF Holds
    <3>2. q.checked \cap Of(kind)' = q.checked \cap Of(kind)
      BY <1>3, <3>1
    <3> QED
      BY <1>3, <1>7, <3>1, <3>2
  <2>3. ASSUME q.stage \in {"numbered", "inserted", "entered"}
        PROVE  /\ q.counted \subseteq Committed'
               /\ q.number = [day |-> q.number.day, seq |-> Cardinality(q.counted \cap Of(kind)') + 1]
    <3>1. /\ q.counted \subseteq Committed
          /\ q.number = [day |-> q.number.day, seq |-> Cardinality(q.counted \cap Of(kind)) + 1]
      BY <2>1, <2>3 DEF Holds
    <3>2. q.counted \cap Of(kind)' = q.counted \cap Of(kind)
      BY <1>3, <3>1
    <3> QED
      BY <1>3, <3>1, <3>2
  <2>4. ASSUME q.stage \in {"inserted", "entered"}, NEW n \in Of(kind)'
        PROVE  row'[n].number # q.number
    <3>1. CASE n = r.id
      <4>1. r.request.kind = kind
        BY <1>3, <2>4, <3>1
      <4>2. Apart(r, q)
        BY <1>1, <2>1 DEF SecondInv
      <4> QED
        BY <1>1, <1>2, <2>4, <3>1, <4>1, <4>2 DEF Apart
    <3>2. CASE n \in Of(kind)
      BY <1>7, <2>1, <2>4, <3>2 DEF Holds, Taken
    <3> QED
      BY <1>3, <3>1, <3>2
  <2>5. ~Taken(q, Of(kind))' \/ q.stage \notin {"inserted", "entered"}
    BY <2>1, <2>4 DEF Taken
  <2> QED
    BY <2>1, <2>2, <2>3, <2>5 DEF Holds
<1>11. \A t, u \in Session :
          t # u /\ session'[t] # None /\ session'[u] # None => Apart(session'[t], session'[u])
  BY <1>5 DEF SecondInv
<1>12. ASSUME NEW kind \in Documents PROVE RowsUnique(kind)'
  <2>1. RowsUnique(kind)
    BY DEF SecondInv
  <2>2. CASE r.id \in Of(kind)'
    <3>1. r.request.kind = kind
      BY <1>9, <2>2
    <3>2. /\ r.number = [day |-> r.number.day, seq |-> r.number.seq]
          /\ \A n \in Of(kind) : row[n].number # r.number
      BY <1>1, <3>1 DEF Holds, Taken
    <3> QED
      BY <1>2, <1>3, <1>7, <2>1, <3>2 DEF RowsUnique
  <2>3. CASE r.id \notin Of(kind)'
    BY <1>3, <1>7, <2>1, <2>3 DEF RowsUnique
  <2> QED
    BY <2>2, <2>3
<1>13. ASSUME NEW kind \in Documents PROVE SequenceFilled(kind)'
  <2>1. SequenceFilled(kind)
    BY DEF SecondInv
  <2>2. CASE r.id \in Of(kind)'
    <3> SUFFICES ASSUME ~SequenceReused(kind)', NEW i \in 1 .. Cardinality(Of(kind)')
                 PROVE  \E n \in Of(kind)' : row'[n].number.seq = i
      BY DEF SequenceFilled
    <3>1. /\ Cardinality(Of(kind)') = Cardinality(Of(kind)) + 1 /\ Cardinality(Of(kind)) \in Nat
          /\ r.number.seq = Cardinality(Of(kind)) + 1
      BY <1>4, <1>9, <2>2
    <3>2. CASE i = Cardinality(Of(kind)) + 1
      BY <1>2, <2>2, <3>1, <3>2
    <3>3. CASE i \in 1 .. Cardinality(Of(kind))
      <4>1. PICK n \in Of(kind) : row[n].number.seq = i
        BY <1>8, <2>1, <3>3 DEF SequenceFilled
      <4> QED
        BY <1>3, <1>7, <4>1
    <3> QED
      BY <3>1, <3>2, <3>3
  <2>3. CASE r.id \notin Of(kind)'
    <3>1. Of(kind)' = Of(kind)
      BY <1>3, <2>3
    <3> QED
      BY <1>7, <1>8, <2>1, <3>1 DEF SequenceFilled
  <2> QED
    BY <2>2, <2>3
<1>14. ASSUME NEW kind \in Documents, NEW n \in Of(kind), Overtaken(n) PROVE Overtaken(n)'
  BY <1>3, <1>7, <1>14 DEF Overtaken
<1>15. ASSUME NEW kind \in Documents, r.id \in Of(kind)', NEW n \in Of(kind),
              row[n].request.of = r.request.of
       PROVE  Overtaken(r.id)' \/ SequenceReused(kind)'
  <2>1. CASE Of(kind) \subseteq r.counted
    <3>1. n \notin r.checked
      BY <1>1, <1>9, <1>15 DEF Holds
    <3>2. n \in Of(kind)' /\ own.request.kind = kind
      BY <1>2, <1>3, <1>9, <1>15
    <3>3. n \in own.counted \ own.checked
      BY <1>2, <2>1, <3>1
    <3>4. Overtaken(r.id)'
      BY <3>2, <3>3 DEF Overtaken
    <3> QED
      BY <3>4
  <2> QED
    BY <1>9, <1>15, <2>1
<1>16. SecondOneWasOvertaken'
  <2> SUFFICES ASSUME NEW kind \in Documents, NEW n \in Of(kind)', NEW m \in Of(kind)',
                      n # m, row'[n].request.of = row'[m].request.of
               PROVE  Overtaken(n)' \/ Overtaken(m)' \/ SequenceReused(kind)'
    BY DEF SecondOneWasOvertaken
  <2>1. CASE n \in Of(kind) /\ m \in Of(kind)
    BY <1>7, <1>8, <1>14, <2>1 DEF SecondInv, SecondOneWasOvertaken
  <2>2. CASE n = r.id /\ m \in Of(kind)
    BY <1>2, <1>7, <1>15, <2>2
  <2>3. CASE m = r.id /\ n \in Of(kind)
    BY <1>2, <1>7, <1>15, <2>3
  <2> QED
    BY <1>3, <2>1, <2>2, <2>3
<1> QED
  BY <1>10, <1>11, <1>12, <1>13, <1>16 DEF SecondInv

LEMMA SecondStart == Init => SecondInv
<1> SUFFICES ASSUME Init PROVE SecondInv
  OBVIOUS
<1>1. \A kind : Of(kind) = {}
  BY DEF Init, Of, Committed, Id
<1>2. \A kind : RowsUnique(kind) /\ SequenceFilled(kind)
  BY <1>1, FS_EmptySet DEF RowsUnique, SequenceFilled
<1>3. SecondOneWasOvertaken
  BY <1>1 DEF SecondOneWasOvertaken
<1> QED
  BY <1>2, <1>3, NumbersStart DEF Init, SecondInv

LEMMA SecondKept == SecondInv /\ [Next]_vars => SecondInv'
<1> SUFFICES ASSUME SecondInv, [Next]_vars PROVE SecondInv'
  OBVIOUS
<1> NumberInv /\ NumberInv'
  BY NumbersKept DEF SecondInv
<1>1. ASSUME NEW s \in Session, session[s] # None
      PROVE  Formed(session[s]) /\ Holds(session[s])
  BY <1>1 DEF SecondInv, NumberInv, Identified
<1>2. ASSUME NEW s \in Session, NEW request \in Request, Begin(s, request) PROVE SecondInv'
  <2>1. /\ session'[s].stage = "begun" /\ row' = row
        /\ \A t \in Session \ {s} : session'[t] = session[t]
    BY <1>2 DEF Begin, Becomes, NumberInv, Identified
  <2>2. ASSUME NEW t \in Session \ {s}, session'[t] # None PROVE Holds(session[t])'
    <3>1. session'[t] = session[t] /\ Holds(session[t])
      BY <2>1, <2>2 DEF SecondInv
    <3> QED
      BY <2>1, <3>1, RowsKept DEF Holds, Taken
  <2>3. Holds(session[s])'
    BY <2>1 DEF Holds
  <2>4. \A t, u \in Session :
           t # u /\ session'[t] # None /\ session'[u] # None => Apart(session'[t], session'[u])
    BY <2>1 DEF SecondInv, Apart
  <2> QED
    BY <2>1, <2>2, <2>3, <2>4, RowsKept DEF SecondInv
\* A step that neither checks nor numbers nor inserts.
<1>3. ASSUME NEW s \in Session, session[s] # None, NEW q, Becomes(s, q), row' = row,
             q.request = session[s].request, q.stage \notin {"inserted", "entered"},
             q.request.kind \in Documents => Holds(q)
      PROVE  SecondInv'
  <2>1. Holds(q)
    BY <1>3 DEF Holds
  <2>2. \A t \in Session \ {s} : Apart(q, session[t])
    BY <1>3 DEF Apart
  <2> QED
    BY <1>3, <2>1, <2>2, HoldsOn
<1>4. ASSUME NEW s \in Session, ReadDisbursed(s) PROVE SecondInv'
  <2>1. Kind(s) \notin Documents /\ session[s] # None
    BY <1>4 DEF ReadDisbursed, Documents
  <2>2. ASSUME NEW stage \in {"read", "reread"},
               Becomes(s, [session[s] EXCEPT !.stage = stage, !.read = Disbursed])
        PROVE  SecondInv'
    <3> DEFINE q == [session[s] EXCEPT !.stage = stage, !.read = Disbursed]
    <3>1. q.request = session[s].request /\ q.stage = stage
      BY <1>1, <2>1 DEF Formed
    <3> HIDE DEF q
    <3> QED
      BY <1>3, <1>4, <2>1, <2>2, <3>1 DEF ReadDisbursed, Kind, q
  <2> QED
    BY <1>4, <2>2 DEF ReadDisbursed
<1>5. ASSUME NEW s \in Session, Check(s) PROVE SecondInv'
  <2>1. CASE Becomes(s, None)
    BY <1>5, <2>1, HoldsWithout DEF Check
  <2>2. CASE /\ Becomes(s, [session[s] EXCEPT !.stage = "checked", !.checked = Committed])
             /\ Allowed(s)
    <3> DEFINE q == [session[s] EXCEPT !.stage = "checked", !.checked = Committed]
    <3>1. session[s] # None /\ row' = row
      BY <1>5 DEF Check
    <3>2. /\ q.request = session[s].request /\ q.stage = "checked" /\ q.checked = Committed
      BY <1>1, <3>1 DEF Formed
    <3>3. q.request.kind \in Documents =>
             \A n \in Of(q.request.kind) : row[n].request.of # q.request.of
      BY <2>2, <3>2 DEF Allowed, Documents
    <3>4. Holds(q)
      BY <3>2, <3>3 DEF Holds
    <3> QED
      BY <1>3, <2>2, <3>1, <3>2, <3>4
  <2> QED
    BY <1>5, <2>1, <2>2 DEF Check
<1>6. ASSUME NEW s \in Session, TakeNumber(s) PROVE SecondInv'
  <2> DEFINE number == [day |-> today, seq |-> NextSeq(Of(Kind(s)))]
  <2> DEFINE q == [session[s] EXCEPT !.stage = "numbered", !.counted = Committed, !.number = number]
  <2>1. session[s] # None /\ row' = row /\ session[s].stage = "checked" /\ Becomes(s, q)
    BY <1>6 DEF TakeNumber, At
  <2>2. /\ q.request = session[s].request /\ q.stage = "numbered" /\ q.number = number
        /\ q.checked = session[s].checked /\ q.counted = Committed
    BY <1>1, <2>1 DEF Formed
  <2>3. Committed \cap Of(Kind(s)) = Of(Kind(s))
    BY DEF Of
  <2>4. q.number = [day |-> q.number.day, seq |-> Cardinality(Committed \cap Of(Kind(s))) + 1]
    BY <2>2, <2>3 DEF NextSeq
  <2>5. Holds(q)
    BY <1>1, <2>1, <2>2, <2>4 DEF Holds, Kind
  <2> QED
    BY <1>3, <2>1, <2>2, <2>5
<1>7. ASSUME NEW s \in Session, Insert(s) PROVE SecondInv'
  <2>1. CASE Becomes(s, None)
    BY <1>7, <2>1, HoldsWithout DEF Insert
  <2>2. CASE Becomes(s, [session[s] EXCEPT !.stage = "inserted"]) /\ ~NumberTaken(s)
    <3> DEFINE q == [session[s] EXCEPT !.stage = "inserted"]
    <3>1. session[s] # None /\ session[s].stage = "numbered" /\ row' = row
      BY <1>7 DEF Insert, At
    <3>2. /\ q.request = session[s].request /\ q.stage = "inserted" /\ q.number = session[s].number
          /\ q.checked = session[s].checked /\ q.counted = session[s].counted
      BY <1>1, <3>1 DEF Formed
    <3>3. ~Taken(q, Of(q.request.kind))
      BY <2>2, <3>2 DEF NumberTaken, Taken, Kind
    <3>4. Holds(q)
      BY <1>1, <3>1, <3>2, <3>3 DEF Holds
    <3>5. \A t \in Session \ {s} : session[t] # None => Apart(q, session[t])
      BY <1>7, <3>2 DEF Insert, MustWait, Apart, Kind
    <3> QED
      BY <2>2, <3>1, <3>4, <3>5, HoldsOn
  <2> QED
    BY <1>7, <2>1, <2>2 DEF Insert
<1>8. ASSUME NEW s \in Session, EnterJournal(s) PROVE SecondInv'
  <2> DEFINE status == IF Kind(s) = "disbursement" THEN "ACTIVE" ELSE session[s].status
  <2> DEFINE q == [session[s] EXCEPT !.stage = "entered", !.status = status]
  <2>1. /\ session[s] # None /\ Becomes(s, q) /\ row' = row
        /\ Kind(s) \in Documents => session[s].stage = "inserted"
    BY <1>8 DEF EnterJournal, At
  <2>2. /\ q.request = session[s].request /\ q.stage = "entered" /\ q.number = session[s].number
        /\ q.checked = session[s].checked /\ q.counted = session[s].counted
    BY <1>1, <2>1 DEF Formed
  <2>3. Holds(q)
    BY <1>1, <2>1, <2>2 DEF Holds, Taken, Kind
  <2>4. \A t \in Session \ {s} : session[t] # None => Apart(q, session[t])
    BY <2>1, <2>2 DEF SecondInv, Apart, Kind
  <2> HIDE DEF q
  <2> QED
    BY <2>1, <2>3, <2>4, HoldsOn
<1>9. ASSUME NEW s \in Session, Settle(s) PROVE SecondInv'
  <2>1. session[s] # None /\ row' = row /\ session[s].stage = "reread"
    BY <1>9 DEF Settle, At
  <2>2. PICK status : Becomes(s, [session[s] EXCEPT !.stage = "settled", !.status = status])
    BY <1>9 DEF Settle
  <2> DEFINE q == [session[s] EXCEPT !.stage = "settled", !.status = status]
  <2>3. q.request = session[s].request /\ q.stage = "settled"
    BY <1>1, <2>1 DEF Formed
  <2>4. Holds(q)
    BY <2>3 DEF Holds
  <2> QED
    BY <1>3, <2>1, <2>2, <2>3, <2>4
<1>10. ASSUME NEW s \in Session, Commit(s) PROVE SecondInv'
  BY <1>10, CommitHolds
<1>11. ASSUME NEW s \in Session, Disconnect(s) PROVE SecondInv'
  BY <1>11, HoldsWithout DEF Disconnect
<1>12. CASE UNCHANGED <<row, session, opened>>
  <2>1. \A t \in Session : session'[t] # None => Holds(session[t])'
    BY <1>12, RowsKept DEF SecondInv, Holds, Taken
  <2>2. \A t, u \in Session :
           t # u /\ session'[t] # None /\ session'[u] # None => Apart(session'[t], session'[u])
    BY <1>12 DEF SecondInv
  <2> QED
    BY <1>12, <2>1, <2>2, RowsKept DEF SecondInv
<1> QED
  BY <1>2, <1>4, <1>5, <1>6, <1>7, <1>8, <1>9, <1>10, <1>11, <1>12 DEF Next, Midnight, vars

(***************************************************************************)
(* For any number of sessions and requests: where no sequence is used      *)
(* twice, a second invoice of a receipt or payment of an invoice needs a   *)
(* request that was overtaken between its check and its count.             *)
(***************************************************************************)
THEOREM SecondsAreOvertaken == Spec => []SecondOneWasOvertaken
<1>1. SecondInv => SecondOneWasOvertaken
  BY DEF SecondInv
<1> QED
  BY <1>1, SecondStart, SecondKept, PTL DEF Spec
-----------------------------------------------------------------------------
Loans == {"disbursement", "repayment"}

\* Both have an amount; that of a disbursement is not negative.
LEMMA RequestAmounts ==
    ASSUME NEW request \in Request
    PROVE  /\ request.kind \in Documents \cup Loans
           /\ request.kind \in Loans => request.amount \in Int
           /\ request.kind = "disbursement" => request.amount \in Nat
<1>1. request.kind \in Documents \cup Loans
  BY DEF Request, Documents, Loans
<1>2. request.kind = "disbursement" => request.amount \in Nat
  BY SettlementBounds DEF Request
<1>3. request.kind = "repayment" => request.amount \in Int
  <2>1. request.kind = "repayment" => request.amount \in RepaymentAmount
    BY DEF Request
  <2> QED
    BY <2>1, SettlementBounds
<1>4. request.kind = "disbursement" => request.amount \in Int
  BY <1>2
<1> QED
  BY <1>1, <1>2, <1>3, <1>4 DEF Loans

LEMMA AmountsAreInt ==
    ASSUME \A n \in Committed : row[n].request \in Request,
           NEW kind \in Loans, NEW rows \in SUBSET Of(kind)
    PROVE  /\ IsFiniteSet(rows)
           /\ \A n \in rows : row[n].request.amount \in Int
           /\ Amounts(rows) \in Int
           /\ kind = "disbursement" => Amounts(rows) \in Nat
<1>1. IsFiniteSet(rows)
  BY Counts, FS_Subset
<1>2. \A n \in rows : row[n].request.amount \in Int
  BY RequestAmounts DEF Of
<1>3. kind = "disbursement" => \A n \in rows : row[n].request.amount \in Nat
  BY RequestAmounts DEF Of
<1> DEFINE f == [n \in rows |-> row[n].request.amount]
<1>4. Total(f, rows) \in Int
  <2>1. \A n \in rows : f[n] \in Int
    BY <1>2
  <2> HIDE DEF f
  <2> QED
    BY <1>1, <2>1, TotalIsInt
<1>5. kind = "disbursement" => Total(f, rows) \in Nat
  <2>1. kind = "disbursement" => \A n \in rows : f[n] \in Nat
    BY <1>3
  <2> HIDE DEF f
  <2> QED
    BY <1>1, <2>1, TotalIsNat
<1>6. Amounts(rows) = Total(f, rows)
  BY DEF Amounts
<1> HIDE DEF f
<1> QED
  BY <1>1, <1>2, <1>4, <1>5, <1>6

LEMMA SumsAreInt ==
    ASSUME \A n \in Committed : row[n].request \in Request
    PROVE  Disbursed \in Nat /\ Repaid \in Int
BY AmountsAreInt DEF Loans, Disbursed, Repaid
-----------------------------------------------------------------------------
LEMMA RowsTyped ==
    ASSUME SettlementTypeOK
    PROVE  /\ \A n \in Committed : row[n] \in Row /\ row[n].request \in Request
           /\ Committed \in SUBSET Id
BY DEF SettlementTypeOK, Committed, Row

LEMMA NumbersTyped ==
    ASSUME SettlementTypeOK, NEW rows \in SUBSET Id
    PROVE  [day |-> today, seq |-> NextSeq(rows)] \in Number
<1>1. IsFiniteSet(Id)
  BY FS_Interval, SettlementBounds DEF Id
<1>2. Cardinality(rows) \in Nat
  BY <1>1, FS_Subset, FS_CardinalityType
<1> QED
  BY <1>2 DEF Number, NextSeq, SettlementTypeOK

\* A session moves on, or ends.
LEMMA TypesStand ==
    ASSUME SettlementTypeOK, NEW s \in Session, NEW q \in Open \cup {None},
           Becomes(s, q), UNCHANGED <<today, row, agreement, opened>>
    PROVE  SettlementTypeOK'
BY DEF SettlementTypeOK, Becomes

LEMMA TypesStart == Init => SettlementTypeOK
BY SettlementBounds DEF Init, SettlementTypeOK

LEMMA TypesKept == SettlementTypeOK /\ [Next]_vars => SettlementTypeOK'
<1> SUFFICES ASSUME SettlementTypeOK, [Next]_vars PROVE SettlementTypeOK'
  OBVIOUS
<1>1. ASSUME NEW s \in Session, session[s] # None
      PROVE  session[s] \in Open
  BY <1>1 DEF SettlementTypeOK
<1>2. ASSUME NEW s \in Session, NEW request \in Request, Begin(s, request) PROVE SettlementTypeOK'
  <2> DEFINE q == [id |-> opened + 1, request |-> request, stage |-> "begun", read |-> 0,
                   loaded |-> agreement, status |-> agreement, number |-> None,
                   begun |-> Committed, checked |-> {}, counted |-> {}]
  <2>1. opened + 1 \in Id /\ opened' \in 0 .. MaxRequests
    BY <1>2, SettlementBounds DEF Begin, SettlementTypeOK, Id
  <2>2. q \in Open /\ q.stage = "begun"
    BY <2>1, RowsTyped DEF Open, Stage, SettlementTypeOK
  <2>3. session' = [session EXCEPT ![s] = q] /\ UNCHANGED <<today, row, agreement>>
    BY <1>2 DEF Begin, Becomes
  <2> HIDE DEF q
  <2> QED
    BY <2>1, <2>2, <2>3 DEF SettlementTypeOK
<1>3. ASSUME NEW s \in Session, ReadDisbursed(s) PROVE SettlementTypeOK'
  <2>1. PICK r \in Open : r = session[s]
    BY <1>1, <1>3 DEF ReadDisbursed
  <2>2. Disbursed \in Nat
    BY RowsTyped, SumsAreInt DEF SettlementTypeOK
  <2>3. CASE At(s, "begun") /\ Becomes(s, [session[s] EXCEPT !.stage = "read", !.read = Disbursed])
    <3> DEFINE q == [r EXCEPT !.stage = "read", !.read = Disbursed]
    <3>1. q \in Open /\ q.stage = "read"
      BY <2>2 DEF Open, Stage
    <3>2. Becomes(s, q) /\ UNCHANGED <<today, row, agreement, opened>>
      BY <1>3, <2>1, <2>3 DEF ReadDisbursed
    <3> HIDE DEF q
    <3> QED
      BY <3>1, <3>2, TypesStand
  <2>4. CASE At(s, "entered") /\ Becomes(s, [session[s] EXCEPT !.stage = "reread", !.read = Disbursed])
    <3> DEFINE q == [r EXCEPT !.stage = "reread", !.read = Disbursed]
    <3>1. q \in Open
      BY <2>2 DEF Open, Stage
    <3>2. Becomes(s, q) /\ UNCHANGED <<today, row, agreement, opened>>
      BY <1>3, <2>1, <2>4 DEF ReadDisbursed
    <3> HIDE DEF q
    <3> QED
      BY <3>1, <3>2, TypesStand
  <2> QED
    BY <1>3, <2>3, <2>4 DEF ReadDisbursed
<1>4. ASSUME NEW s \in Session, Check(s) PROVE SettlementTypeOK'
  <2>1. PICK r \in Open : r = session[s]
    BY <1>1, <1>4 DEF Check
  <2> DEFINE q == [r EXCEPT !.stage = "checked", !.checked = Committed]
  <2>2. q \in Open /\ q.stage = "checked"
    BY RowsTyped DEF Open, Stage, SettlementTypeOK
  <2>3. Becomes(s, q) \/ Becomes(s, None)
    BY <1>4, <2>1 DEF Check
  <2> HIDE DEF q
  <2> QED
    BY <1>4, <2>2, <2>3, TypesStand DEF Check
<1>5. ASSUME NEW s \in Session, TakeNumber(s) PROVE SettlementTypeOK'
  <2>1. PICK r \in Open : r = session[s]
    BY <1>1, <1>5 DEF TakeNumber, At
  <2>2. PICK number \in Number : number = [day |-> today, seq |-> NextSeq(Of(Kind(s)))]
    BY NumbersTyped DEF SettlementTypeOK, Of, Committed
  <2> DEFINE q == [r EXCEPT !.stage = "numbered", !.counted = Committed, !.number = number]
  <2>3. q \in Open /\ q.stage = "numbered"
    BY RowsTyped DEF Open, Stage, SettlementTypeOK
  <2>4. Becomes(s, q) /\ UNCHANGED <<today, row, agreement, opened>>
    BY <1>5, <2>1, <2>2 DEF TakeNumber
  <2> HIDE DEF q
  <2> QED
    BY <2>3, <2>4, TypesStand
<1>6. ASSUME NEW s \in Session, Insert(s) PROVE SettlementTypeOK'
  <2>1. PICK r \in Open : r = session[s]
    BY <1>1, <1>6 DEF Insert, At
  <2> DEFINE q == [r EXCEPT !.stage = "inserted"]
  <2>2. q \in Open /\ q.stage = "inserted"
    BY DEF Open, Stage
  <2>3. Becomes(s, q) \/ Becomes(s, None)
    BY <1>6, <2>1 DEF Insert
  <2> HIDE DEF q
  <2> QED
    BY <1>6, <2>2, <2>3, TypesStand DEF Insert
<1>7. ASSUME NEW s \in Session, EnterJournal(s) PROVE SettlementTypeOK'
  <2>1. PICK r \in Open : r = session[s]
    BY <1>1, <1>7 DEF EnterJournal
  <2>2. PICK status \in AgreementStatus :
           status = IF Kind(s) = "disbursement" THEN "ACTIVE" ELSE r.status
    BY DEF AgreementStatus, Open
  <2> DEFINE q == [r EXCEPT !.stage = "entered", !.status = status]
  <2>3. q \in Open
    BY DEF Open, Stage
  <2>4. Becomes(s, q) /\ UNCHANGED <<today, row, agreement, opened>>
    BY <1>7, <2>1, <2>2 DEF EnterJournal
  <2> HIDE DEF q
  <2> QED
    BY <2>3, <2>4, TypesStand
<1>8. ASSUME NEW s \in Session, Settle(s) PROVE SettlementTypeOK'
  <2>1. PICK r \in Open : r = session[s]
    BY <1>1, <1>8 DEF Settle, At
  <2>2. PICK status \in {"CLOSED", "ACTIVE"} :
           session' = [session EXCEPT ![s] = [r EXCEPT !.stage = "settled", !.status = status]]
    BY <1>8, <2>1 DEF Settle, Becomes
  <2> DEFINE q == [r EXCEPT !.stage = "settled", !.status = status]
  <2>3. q \in Open
    BY DEF Open, Stage, AgreementStatus
  <2>4. Becomes(s, q) /\ UNCHANGED <<today, row, agreement, opened>>
    BY <1>8, <2>2 DEF Settle, Becomes
  <2> HIDE DEF q
  <2> QED
    BY <2>3, <2>4, TypesStand
<1>9. ASSUME NEW s \in Session, Commit(s) PROVE SettlementTypeOK'
  <2>1. PICK r \in Open : r = session[s]
    BY <1>1, <1>9 DEF Commit
  <2> DEFINE own == [request |-> r.request, number |-> r.number, begun |-> r.begun,
                     checked |-> r.checked, counted |-> r.counted]
  <2>2. own \in Row /\ r.id \in Id
    BY DEF Row, Open
  <2>3. /\ row' = [row EXCEPT ![r.id] = own]
        /\ session' = [session EXCEPT ![s] = None] /\ UNCHANGED <<today, opened>>
    BY <1>9, <2>1 DEF Commit, Becomes
  <2>4. agreement' \in AgreementStatus
    BY <1>9, <2>1 DEF Commit, StatusWritten, Open, SettlementTypeOK
  <2> HIDE DEF own
  <2> QED
    BY <2>2, <2>3, <2>4 DEF SettlementTypeOK
<1>10. ASSUME NEW s \in Session, Disconnect(s) PROVE SettlementTypeOK'
  BY <1>10, TypesStand DEF Disconnect
<1>11. CASE Midnight
  BY <1>11, SettlementBounds DEF Midnight, SettlementTypeOK
<1>12. CASE UNCHANGED vars
  BY <1>12 DEF vars, SettlementTypeOK
<1> QED
  BY <1>2, <1>3, <1>4, <1>5, <1>6, <1>7, <1>8, <1>9, <1>10, <1>11, <1>12 DEF Next

(***************************************************************************)
(* Rows, requests and the agreement keep their types, whatever amounts are *)
(* sent.                                                                   *)
(***************************************************************************)
THEOREM SettlementTypes == Spec => []SettlementTypeOK
<1> QED
  BY TypesStart, TypesKept, PTL DEF Spec
-----------------------------------------------------------------------------
\* The agreement: what disbursements and repayments of any number of sessions
\* add up to.

\* What was committed when the request began was so when it made its check.
Seen(r) == r.begun \subseteq r.checked /\ r.checked \subseteq Committed

\* A disbursement fits the principal with those that were there at its check.
Disbursing(r) ==
    /\ r.stage \in {"checked", "entered"} =>
          /\ Seen(r)
          /\ Amounts(r.checked \cap Of("disbursement")) + r.request.amount <= Principal
    /\ r.stage = "entered" => r.status = "ACTIVE"

\* A repayment fits what is disbursed, with those that were there at its check;
\* where it is to close the agreement, all of what it found disbursed is repaid,
\* unless a repayment it did not know of has raised what is outstanding.
Repaying(r) ==
    /\ r.read \in Nat /\ r.read <= Disbursed
    /\ r.stage \in {"checked", "entered", "reread", "settled"} =>
          /\ Seen(r)
          /\ Amounts(r.checked \cap Of("repayment")) + r.request.amount <= Disbursed
    /\ r.stage \in {"reread", "settled"} /\ Disbursed > r.read =>
          \E n \in Of("disbursement") : n \notin r.begun
    /\ r.stage = "settled" /\ r.status = "CLOSED" /\ r.read > Repaid + r.request.amount =>
          \E n \in Raising : n \notin r.begun

\* Behind the back of a request only a repayment closes the agreement.
Lent(r) ==
    /\ r.request \in Request
    /\ r.begun \subseteq Committed
    /\ agreement = "CLOSED" /\ r.loaded # "CLOSED" => \E m \in Of("repayment") : m \notin r.begun
    /\ r.request.kind = "disbursement" => Disbursing(r)
    /\ r.request.kind = "repayment" => Repaying(r)
    /\ r.stage \in {"reread", "settled"} => r.request.kind = "repayment"
    /\ r.request.kind \in Documents => r.status = r.loaded

LoanInv ==
    /\ NumberInv
    /\ \A n \in Committed : row[n].request \in Request /\ row[n].begun \subseteq Committed
    /\ \A s \in Session : session[s] # None => Lent(session[s])
    /\ LimitsNeedOverlap
    /\ ClosedMeansRepaid
-----------------------------------------------------------------------------
\* Nothing is committed: a session moves on, or ends.
LEMMA LoanStands ==
    ASSUME LoanInv, NumberInv', UNCHANGED <<row, agreement>>,
           \A t \in Session : \A q : session'[t] = q /\ q # None => Lent(q)
    PROVE  LoanInv'
<1>1. /\ Committed' = Committed /\ \A kind : Of(kind)' = Of(kind)
      /\ \A rows : Amounts(rows)' = Amounts(rows)
      /\ Disbursed' = Disbursed /\ Repaid' = Repaid
      /\ Raising' = Raising
      /\ \A n, m : Overlap(n, m)' <=> Overlap(n, m)
  BY DEF Of, Committed, Amounts, Disbursed, Repaid, Raising, Overlap
<1>2. \A n \in Committed' : row'[n].request \in Request /\ row'[n].begun \subseteq Committed'
  BY <1>1 DEF LoanInv
<1>3. LimitsNeedOverlap' /\ ClosedMeansRepaid'
  BY <1>1 DEF LoanInv, LimitsNeedOverlap, ClosedMeansRepaid
<1>4. ASSUME NEW t \in Session, session'[t] # None PROVE Lent(session[t])'
  <2>1. PICK q : q = session'[t]
    OBVIOUS
  <2>2. Lent(q)
    BY <1>4, <2>1
  <2>3. (Disbursing(q) => Disbursing(q)') /\ (Repaying(q) => Repaying(q)')
    BY <1>1 DEF Disbursing, Repaying, Seen
  <2>4. Lent(q)'
    BY <1>1, <2>2, <2>3 DEF Lent
  <2> QED
    BY <2>1, <2>4
<1> QED
  BY <1>2, <1>3, <1>4 DEF LoanInv

\* One session moves on.
LEMMA LoanMovesOn ==
    ASSUME LoanInv, NumberInv', NEW s \in Session, NEW q, q # None => Lent(q),
           Becomes(s, q), UNCHANGED <<row, agreement>>
    PROVE  LoanInv'
<1>1. \A t \in Session : session'[t] = IF t = s THEN q ELSE session[t]
  BY DEF Becomes, LoanInv, NumberInv, Identified
<1> QED
  BY <1>1, LoanStands DEF LoanInv

LEMMA CommitFills ==
    ASSUME SettlementTypeOK, NumberInv, NEW s \in Session, Commit(s)
    PROVE  row'[session[s].id] # None
<1>1. PICK r \in Open : r = session[s]
  BY DEF SettlementTypeOK, Commit
<1> DEFINE own == [request |-> r.request, number |-> r.number, begun |-> r.begun,
                   checked |-> r.checked, counted |-> r.counted]
<1>2. own \in Row /\ r.id \in Id
  BY DEF Row, Open
<1>3. row' = [row EXCEPT ![r.id] = own]
  BY <1>1 DEF Commit
<1> HIDE DEF own
<1> QED
  BY <1>1, <1>2, <1>3, NoneIsNoRow DEF SettlementTypeOK

\* A commit adds its amount to those of its kind, and leaves the others alone.
LEMMA CommitAdds ==
    ASSUME SettlementTypeOK, LoanInv, NEW s \in Session, Commit(s), NEW kind \in Loans
    PROVE  LET r == session[s] IN
           /\ Amounts(Of(kind)) \in Int /\ Amounts(Of(kind))' \in Int
           /\ \A rows \in SUBSET Of(kind) : Amounts(rows)' = Amounts(rows)
           /\ kind # r.request.kind =>
                 Of(kind)' = Of(kind) /\ Amounts(Of(kind))' = Amounts(Of(kind))
           /\ kind = r.request.kind =>
                 /\ Of(kind)' = Of(kind) \cup {r.id}
                 /\ Amounts(Of(kind))' = r.request.amount + Amounts(Of(kind))
<1> PICK r : r = session[s]
  OBVIOUS
<1> PICK i : i = r.id
  OBVIOUS
<1> PICK rows : rows = Of(kind)
  OBVIOUS
<1>1. NumberInv /\ \A n \in Committed : row[n].request \in Request
  BY DEF LoanInv
<1>2. /\ i \in Id /\ row'[i].request = r.request /\ i \notin rows
      /\ rows \subseteq Of(kind)' /\ Of(kind)' \subseteq rows \cup {i}
      /\ i \in Of(kind)' => kind = r.request.kind
      /\ \A n \in rows : row'[n] = row[n]
  <2>1. rows \subseteq Committed
    BY DEF Of
  <2> QED
    BY <1>1, <2>1, CommitWrites DEF Committed
<1>3. r.request \in Request
  BY DEF LoanInv, Lent, Commit
<1>4. IsFiniteSet(rows) /\ Amounts(rows) \in Int /\ \A n \in rows : row[n].request.amount \in Int
  BY <1>1, AmountsAreInt
<1>5. ASSUME NEW some \in SUBSET rows PROVE Amounts(some)' = Amounts(some)
  <2>1. [n \in some |-> row'[n].request.amount] = [n \in some |-> row[n].request.amount]
    BY <1>2
  <2> QED
    BY <2>1 DEF Amounts
<1>6. CASE kind # r.request.kind
  <2>1. Of(kind)' = rows
    BY <1>2, <1>6
  <2>2. Amounts(Of(kind))' = Amounts(rows)'
    BY <2>1 DEF Amounts
  <2> QED
    BY <1>4, <1>5, <1>6, <2>1, <2>2
<1>7. CASE kind = r.request.kind
  <2>1. i \in Of(kind)'
    <3>1. row'[i] # None
      BY <1>1, CommitFills
    <3> QED
      BY <1>2, <1>7, <3>1 DEF Of, Committed
  <2>2. Of(kind)' = rows \cup {i}
    BY <1>2, <2>1
  <2> DEFINE f == [n \in rows |-> row[n].request.amount]
             g == [n \in rows \cup {i} |-> row'[n].request.amount]
  <2>3. g[i] = r.request.amount /\ g[i] \in Int
    BY <1>2, <1>3, <1>7, RequestAmounts
  <2>4. \A n \in rows : f[n] \in Int /\ g[n] = f[n]
    BY <1>2, <1>4
  <2>5. Amounts(rows) = Total(f, rows) /\ Amounts(Of(kind))' = Total(g, rows \cup {i})
    BY <2>2 DEF Amounts
  <2> HIDE DEF f, g
  <2>6. Total(g, rows \cup {i}) = g[i] + Total(f, rows)
    BY <1>2, <1>4, <2>3, <2>4, TotalGrows
  <2>7. Amounts(Of(kind))' = r.request.amount + Amounts(rows)
    BY <2>3, <2>5, <2>6
  <2>8. r.request.amount \in Int
    BY <2>3
  <2> QED
    BY <1>4, <1>5, <1>7, <2>2, <2>7, <2>8
<1> QED
  BY <1>6, <1>7

\* Rows committed together overlap if one does not know of the other.
LEMMA CommitLends ==
    ASSUME SettlementTypeOK, LoanInv, NumberInv', NEW s \in Session, Commit(s)
    PROVE  LoanInv'
<1> PICK r : r = session[s]
  OBVIOUS
<1> PICK i : i = r.id
  OBVIOUS
<1>1. NumberInv /\ Lent(r) /\ r # None
  BY DEF LoanInv, Commit
<1>2. /\ i \in Id /\ row'[i].request = r.request /\ row'[i].begun = r.begun
      /\ Committed \subseteq Committed' /\ i \notin Committed
      /\ Committed' \subseteq Committed \cup {i}
      /\ \A n \in Committed : n \in Id /\ row'[n] = row[n]
      /\ session'[s] = None /\ \A t \in Session \ {s} : session'[t] = session[t]
  BY <1>1, CommitWrites DEF Committed
<1>3. /\ \A kind : Of(kind) \subseteq Of(kind)' /\ Of(kind)' \subseteq Of(kind) \cup {i}
      /\ \A kind : Of(kind) \subseteq Committed
  <2>1. \A kind : Of(kind) \subseteq Of(kind)' /\ Of(kind)' \subseteq Of(kind) \cup {i}
    BY <1>1, CommitWrites
  <2> QED
    BY <2>1 DEF Of
<1>4. /\ r.request.kind = "disbursement" => r.stage = "entered" /\ r.status = "ACTIVE"
      /\ r.request.kind = "repayment" => r.stage = "settled"
      /\ r.request.kind \in Documents \cup Loans
      /\ r.request.kind \in Loans => r.request.amount \in Int
      /\ r.request.kind = "disbursement" => r.request.amount \in Nat
  <2>1. /\ r.request.kind = "disbursement" => r.stage = "entered"
        /\ r.request.kind = "repayment" => r.stage = "settled"
    BY DEF Commit, At, Kind
  <2> QED
    BY <1>1, <2>1, RequestAmounts DEF Lent, Disbursing
<1>5. agreement' = IF r.status # r.loaded THEN r.status ELSE agreement
  BY DEF Commit, StatusWritten
\* The sums.
<1>6. ASSUME NEW kind \in Loans
      PROVE  /\ Amounts(Of(kind)) \in Int /\ Amounts(Of(kind))' \in Int
             /\ \A rows \in SUBSET Of(kind) : Amounts(rows)' = Amounts(rows)
             /\ kind # r.request.kind =>
                   Of(kind)' = Of(kind) /\ Amounts(Of(kind))' = Amounts(Of(kind))
             /\ kind = r.request.kind =>
                   /\ Of(kind)' = Of(kind) \cup {i}
                   /\ Amounts(Of(kind))' = r.request.amount + Amounts(Of(kind))
  BY CommitAdds
<1>7. /\ Disbursed \in Int /\ Repaid \in Int /\ Disbursed' \in Int /\ Repaid' \in Int
      /\ Disbursed' = Disbursed + (IF r.request.kind = "disbursement" THEN r.request.amount ELSE 0)
      /\ Repaid' = Repaid + (IF r.request.kind = "repayment" THEN r.request.amount ELSE 0)
  BY <1>4, <1>6 DEF Disbursed, Repaid, Loans
\* The overlaps.
<1>8. ASSUME NEW n \in Committed, NEW m \in Committed, Overlap(n, m) PROVE Overlap(n, m)'
  BY <1>2, <1>8 DEF Overlap
<1>9. ASSUME NEW n \in Committed, n \notin r.begun
      PROVE  n # i /\ Overlap(n, i)' /\ Overlap(i, n)'
  <2>1. i \notin row[n].begun
    BY <1>2 DEF LoanInv
  <2> QED
    BY <1>2, <1>9, <2>1 DEF Overlap
<1>10. \A n \in Committed' : row'[n].request \in Request /\ row'[n].begun \subseteq Committed'
  BY <1>1, <1>2 DEF LoanInv, Lent
\* Where it knows all others of its kind, it fits; otherwise it overlaps one.
<1>11. ASSUME NEW kind \in Loans, kind = r.request.kind, r.begun \subseteq r.checked
       PROVE  \/ r.checked \cap Of(kind) = Of(kind)
              \/ \E n, m \in Of(kind)' : n # m /\ Overlap(n, m)'
  BY <1>3, <1>6, <1>9, <1>11
<1>12. ASSUME Disbursed' > Principal
       PROVE  \E n, m \in Of("disbursement")' : n # m /\ Overlap(n, m)'
  <2>1. CASE r.request.kind = "disbursement"
    <3>1. /\ r.begun \subseteq r.checked
          /\ Amounts(r.checked \cap Of("disbursement")) + r.request.amount <= Principal
      BY <1>1, <1>4, <2>1 DEF Lent, Disbursing, Seen
    <3>2. r.checked \cap Of("disbursement") # Of("disbursement")
      <4>1. Disbursed + r.request.amount > Principal
        BY <1>7, <1>12, <2>1
      <4>2. ~(Disbursed + r.request.amount <= Principal)
        BY <1>4, <1>7, <2>1, <4>1, SettlementBounds DEF Loans
      <4> QED
        BY <3>1, <4>2 DEF Disbursed
    <3> QED
      BY <1>11, <2>1, <3>1, <3>2 DEF Loans
  <2>2. CASE r.request.kind # "disbursement"
    <3>1. Disbursed > Principal
      BY <1>7, <1>12, <2>2
    <3>2. PICK n, m \in Of("disbursement") : n # m /\ Overlap(n, m)
      BY <3>1 DEF LoanInv, LimitsNeedOverlap
    <3> QED
      BY <1>3, <1>8, <3>2
  <2> QED
    BY <2>1, <2>2
<1>13. ASSUME Repaid' > Disbursed'
       PROVE  \E n, m \in Of("repayment")' : n # m /\ Overlap(n, m)'
  <2>1. CASE r.request.kind = "repayment"
    <3>1. /\ r.begun \subseteq r.checked
          /\ Amounts(r.checked \cap Of("repayment")) + r.request.amount <= Disbursed
      BY <1>1, <1>4, <2>1 DEF Lent, Repaying, Seen
    <3>2. r.checked \cap Of("repayment") # Of("repayment")
      <4>1. Disbursed' = Disbursed /\ Repaid' = Repaid + r.request.amount
        BY <1>7, <2>1
      <4>2. Repaid + r.request.amount > Disbursed
        BY <1>13, <4>1
      <4>3. Amounts(Of("repayment")) + r.request.amount > Disbursed
        BY <4>2 DEF Repaid
      <4> SUFFICES ASSUME r.checked \cap Of("repayment") = Of("repayment") PROVE FALSE
        OBVIOUS
      <4>4. Amounts(Of("repayment")) + r.request.amount <= Disbursed
        BY <3>1
      <4>5. r.request.amount \in Int /\ Amounts(Of("repayment")) \in Int
        BY <1>4, <1>6, <2>1 DEF Loans
      <4> QED
        BY <1>7, <4>3, <4>4, <4>5
    <3> QED
      BY <1>11, <2>1, <3>1, <3>2 DEF Loans
  <2>2. CASE r.request.kind # "repayment"
    <3>1. Repaid > Disbursed
      BY <1>4, <1>7, <1>13, <2>2 DEF Loans
    <3>2. PICK n, m \in Of("repayment") : n # m /\ Overlap(n, m)
      BY <3>1 DEF LoanInv, LimitsNeedOverlap
    <3> QED
      BY <1>3, <1>8, <3>2
  <2> QED
    BY <2>1, <2>2
<1>14. LimitsNeedOverlap'
  BY <1>12, <1>13 DEF LimitsNeedOverlap
\* A raise was one before, or is this commit's.
<1>15. /\ Raising \subseteq Committed /\ Raising \subseteq Raising'
       /\ r.request.kind = "disbursement" => i \in Raising'
       /\ r.request.kind = "repayment" /\ r.request.amount < 0 => i \in Raising'
       /\ Of("disbursement") \subseteq Raising
  <2>1. /\ r.request.kind = "disbursement" => i \in Of("disbursement")'
        /\ r.request.kind = "repayment" => i \in Of("repayment")'
    BY <1>6 DEF Loans
  <2>2. Raising \subseteq Committed /\ Raising \subseteq Raising'
    BY <1>2, <1>3 DEF Raising
  <2>3. r.request.kind = "repayment" /\ r.request.amount < 0 => i \in Raising'
    BY <1>2, <2>1 DEF Raising
  <2>4. /\ r.request.kind = "disbursement" => i \in Raising'
        /\ Of("disbursement") \subseteq Raising
    BY <2>1 DEF Raising
  <2> QED
    BY <2>2, <2>3, <2>4
<1>16. ASSUME agreement' = "CLOSED", Disbursed' > Repaid'
       PROVE  \E n \in Raising', m \in Of("repayment")' : n # m /\ (Overlap(n, m))'
  <2>1. ASSUME i \in Raising', NEW m \in Of("repayment"), m \notin r.begun
        PROVE  \E n \in Raising', k \in Of("repayment")' : n # k /\ (Overlap(n, k))'
    BY <1>3, <1>9, <2>1
  <2>2. ASSUME r.request.kind = "repayment", NEW n \in Raising, n \notin r.begun
        PROVE  \E m \in Raising', k \in Of("repayment")' : m # k /\ (Overlap(m, k))'
    <3>1. i \in Of("repayment")'
      BY <1>6, <2>2 DEF Loans
    <3> QED
      BY <1>9, <1>15, <2>2, <3>1
  <2>3. ASSUME agreement = "CLOSED", Disbursed > Repaid
        PROVE  \E n \in Raising', m \in Of("repayment")' : n # m /\ (Overlap(n, m))'
    <3>1. PICK n \in Raising, m \in Of("repayment") : n # m /\ Overlap(n, m)
      BY <2>3 DEF LoanInv, ClosedMeansRepaid
    <3> QED
      BY <1>3, <1>8, <1>15, <3>1
  <2>4. CASE r.request.kind = "disbursement"
    <3>1. agreement = "CLOSED" /\ r.loaded # "CLOSED"
      BY <1>4, <1>5, <1>16, <2>4
    <3>2. PICK m \in Of("repayment") : m \notin r.begun
      BY <1>1, <3>1 DEF Lent
    <3> QED
      BY <1>15, <2>1, <2>4, <3>2
  <2>5. CASE r.request.kind = "repayment" /\ r.status = "CLOSED"
    <3>1. r.read \in Nat /\ Disbursed > Repaid + r.request.amount
      BY <1>1, <1>7, <1>16, <2>5 DEF Lent, Repaying
    <3>2. CASE Disbursed > r.read
      <4>1. PICK n \in Of("disbursement") : n \notin r.begun
        BY <1>1, <1>4, <2>5, <3>2 DEF Lent, Repaying
      <4> QED
        BY <1>15, <2>2, <2>5, <4>1
    <3>3. CASE r.read > Repaid + r.request.amount
      <4>1. PICK n \in Raising : n \notin r.begun
        BY <1>1, <1>4, <2>5, <3>3 DEF Lent, Repaying
      <4> QED
        BY <2>2, <2>5, <4>1
    <3>4. r.request.amount \in Int
      BY <1>4, <2>5 DEF Loans
    <3> QED
      BY <1>7, <3>1, <3>2, <3>3, <3>4
  <2>6. CASE r.request.kind = "repayment" /\ r.status # "CLOSED"
    <3>1. agreement = "CLOSED" /\ r.loaded # "CLOSED"
      BY <1>5, <1>16, <2>6
    <3>2. CASE r.request.amount < 0
      <4>1. PICK m \in Of("repayment") : m \notin r.begun
        BY <1>1, <3>1 DEF Lent
      <4> QED
        BY <1>15, <2>1, <2>6, <3>2, <4>1
    <3>3. CASE ~(r.request.amount < 0)
      <4>1. Disbursed > Repaid
        BY <1>4, <1>7, <1>16, <2>6, <3>3 DEF Loans
      <4> QED
        BY <2>3, <3>1, <4>1
    <3> QED
      BY <3>2, <3>3
  <2>7. CASE r.request.kind \in Documents
    <3>1. r.status = r.loaded /\ r.request.kind \notin Loans
      BY <1>1, <2>7 DEF Lent, Documents, Loans
    <3>2. agreement = "CLOSED" /\ Disbursed > Repaid
      BY <1>5, <1>7, <1>16, <3>1 DEF Loans
    <3> QED
      BY <2>3, <3>2
  <2> QED
    BY <1>4, <2>4, <2>5, <2>6, <2>7 DEF Loans
<1>17. ClosedMeansRepaid'
  BY <1>16 DEF ClosedMeansRepaid
\* The requests under way.
<1>18. ASSUME NEW t \in Session, session'[t] # None PROVE Lent(session[t])'
  <2>1. PICK q : q = session[t]
    OBVIOUS
  <2>2. session'[t] = q /\ Lent(q)
    BY <1>2, <1>18, <2>1 DEF LoanInv
  <2>3. i \notin q.begun /\ q.begun \subseteq Committed'
    BY <1>2, <2>2 DEF Lent
  <2>4. agreement' = "CLOSED" /\ q.loaded # "CLOSED" => \E m \in Of("repayment")' : m \notin q.begun
    <3>1. CASE agreement = "CLOSED"
      BY <1>3, <2>2, <3>1 DEF Lent
    <3>2. CASE agreement # "CLOSED" /\ agreement' = "CLOSED"
      <4>1. r.request.kind \notin Documents /\ r.request.kind # "disbursement"
        BY <1>1, <1>4, <1>5, <3>2 DEF Lent
      <4>2. i \in Of("repayment")'
        BY <1>4, <1>6, <4>1 DEF Loans
      <4> QED
        BY <2>3, <4>2
    <3> QED
      BY <3>1, <3>2
  <2>5. ASSUME NEW kind \in Loans, NEW rows, rows \subseteq Committed
        PROVE  rows \cap Of(kind)' = rows \cap Of(kind) /\ Amounts(rows \cap Of(kind))' = Amounts(rows \cap Of(kind))
    <3>1. rows \cap Of(kind)' = rows \cap Of(kind)
      BY <1>2, <1>3, <2>5
    <3>2. PICK some \in SUBSET Of(kind) : some = rows \cap Of(kind)
      OBVIOUS
    <3>3. Amounts(rows \cap Of(kind))' = Amounts(some)'
      BY <3>1, <3>2 DEF Amounts
    <3> QED
      BY <1>6, <3>1, <3>2, <3>3
  <2>6. Seen(q) => Seen(q)'
    BY <1>2 DEF Seen
  <2>7. Disbursing(q) => Disbursing(q)'
    BY <2>5, <2>6 DEF Disbursing, Seen, Loans
  <2>8. ASSUME q.request.kind = "repayment" PROVE Repaying(q)'
    <3>1. Repaying(q) /\ q.request.amount \in Int
      BY <2>2, <2>8, RequestAmounts DEF Lent, Loans
    <3>2. Disbursed <= Disbursed'
      BY <1>4, <1>7 DEF Loans
    <3>3. q.read \in Nat /\ q.read <= Disbursed'
      BY <1>7, <3>1, <3>2 DEF Repaying
    <3>4. ASSUME q.stage \in {"checked", "entered", "reread", "settled"}
          PROVE  /\ Seen(q)'
                 /\ Amounts(q.checked \cap Of("repayment"))' + q.request.amount <= Disbursed'
      <4>1. Seen(q) /\ Amounts(q.checked \cap Of("repayment")) + q.request.amount <= Disbursed
        BY <3>1, <3>4 DEF Repaying
      <4>2. Amounts(q.checked \cap Of("repayment"))' = Amounts(q.checked \cap Of("repayment"))
        BY <2>5, <4>1 DEF Seen, Loans
      <4>3. Amounts(q.checked \cap Of("repayment")) \in Int
        BY AmountsAreInt DEF LoanInv, Loans
      <4> QED
        BY <1>7, <2>6, <3>1, <3>2, <4>1, <4>2, <4>3
    <3>5. q.stage \in {"reread", "settled"} /\ Disbursed' > q.read =>
             \E n \in Of("disbursement")' : n \notin q.begun
      BY <1>3, <1>6, <1>7, <2>3, <3>1 DEF Repaying, Loans
    <3>6. ASSUME q.stage = "settled", q.status = "CLOSED", q.read > Repaid' + q.request.amount
          PROVE  \E n \in Raising' : n \notin q.begun
      <4>1. CASE Repaid <= Repaid'
        <5>1. q.read > Repaid + q.request.amount
          BY <1>7, <3>1, <3>3, <3>6, <4>1
        <5> QED
          BY <1>15, <3>1, <3>6, <5>1 DEF Repaying
      <4>2. CASE ~(Repaid <= Repaid')
        <5>1. r.request.kind = "repayment" /\ r.request.amount < 0
          BY <1>4, <1>7, <4>2 DEF Loans
        <5> QED
          BY <1>15, <2>3, <5>1
      <4> QED
        BY <4>1, <4>2
    <3> QED
      BY <3>3, <3>4, <3>5, <3>6 DEF Repaying
  <2>9. Lent(q)'
    BY <2>2, <2>3, <2>4, <2>7, <2>8 DEF Lent
  <2> QED
    BY <2>2, <2>9
<1> QED
  BY <1>10, <1>14, <1>17, <1>18 DEF LoanInv

LEMMA LoanStart == Init => LoanInv
<1> SUFFICES ASSUME Init PROVE LoanInv
  OBVIOUS
<1>1. Committed = {} /\ \A kind : Of(kind) = {}
  BY DEF Init, Of, Committed
<1>2. Disbursed = 0 /\ Repaid = 0
  BY <1>1, TotalOfNone DEF Disbursed, Repaid, Amounts
<1>3. LimitsNeedOverlap /\ ClosedMeansRepaid
  BY <1>2, SettlementBounds DEF LimitsNeedOverlap, ClosedMeansRepaid
<1>4. \A s \in Session : session[s] = None
  BY DEF Init
<1> QED
  BY <1>1, <1>3, <1>4, NumbersStart DEF LoanInv

LEMMA LoanKept == SettlementTypeOK /\ LoanInv /\ [Next]_vars => LoanInv'
<1> SUFFICES ASSUME SettlementTypeOK, LoanInv, [Next]_vars PROVE LoanInv'
  OBVIOUS
<1>1. NumberInv'
  BY NumbersKept DEF LoanInv
<1>2. ASSUME NEW s \in Session, session[s] # None
      PROVE  session[s] \in Open /\ Lent(session[s])
  BY <1>2 DEF SettlementTypeOK, LoanInv
<1>3. Disbursed \in Nat /\ Repaid \in Int
  BY SumsAreInt DEF LoanInv
<1>4. ASSUME NEW s \in Session, NEW request \in Request, Begin(s, request) PROVE LoanInv'
  <2> DEFINE q == [id |-> opened + 1, request |-> request, stage |-> "begun", read |-> 0,
                   loaded |-> agreement, status |-> agreement, number |-> None,
                   begun |-> Committed, checked |-> {}, counted |-> {}]
  <2>1. Becomes(s, q) /\ UNCHANGED <<row, agreement>>
    BY <1>4 DEF Begin
  <2>2. Lent(q)
    BY <1>3 DEF Lent, Disbursing, Repaying
  <2> HIDE DEF q
  <2> QED
    BY <1>1, <2>1, <2>2, LoanMovesOn
<1>5. ASSUME NEW s \in Session, ReadDisbursed(s) PROVE LoanInv'
  <2>1. PICK r \in Open : r = session[s] /\ Lent(r) /\ r.request.kind = "repayment"
    BY <1>2, <1>5 DEF ReadDisbursed, Kind
  <2>2. Repaying(r)
    BY <2>1 DEF Lent
  <2>3. CASE r.stage = "begun"
    <3> DEFINE q == [r EXCEPT !.stage = "read", !.read = Disbursed]
    <3>1. Becomes(s, q) /\ UNCHANGED <<row, agreement>>
      BY <1>5, <2>1, <2>3 DEF ReadDisbursed, At
    <3>2. /\ q.stage = "read" /\ q.read = Disbursed /\ q.request = r.request /\ q.begun = r.begun
          /\ q.loaded = r.loaded /\ q.status = r.status
      BY DEF Open
    <3> HIDE DEF q
    <3>3. Lent(q)
      BY <1>3, <2>1, <3>2 DEF Lent, Repaying, Documents
    <3> QED
      BY <1>1, <3>1, <3>3, LoanMovesOn
  <2>4. CASE r.stage = "entered"
    <3> DEFINE q == [r EXCEPT !.stage = "reread", !.read = Disbursed]
    <3>1. Becomes(s, q) /\ UNCHANGED <<row, agreement>>
      BY <1>5, <2>1, <2>4 DEF ReadDisbursed, At
    <3>2. /\ q.stage = "reread" /\ q.read = Disbursed /\ q.request = r.request /\ q.begun = r.begun
          /\ q.loaded = r.loaded /\ q.status = r.status /\ q.checked = r.checked
      BY DEF Open
    <3> HIDE DEF q
    <3>3. Lent(q)
      BY <1>3, <2>1, <2>2, <2>4, <3>2 DEF Lent, Repaying, Seen, Documents
    <3> QED
      BY <1>1, <3>1, <3>3, LoanMovesOn
  <2> QED
    BY <1>5, <2>1, <2>3, <2>4 DEF ReadDisbursed, At
<1>6. ASSUME NEW s \in Session, Check(s) PROVE LoanInv'
  <2>1. PICK r \in Open : r = session[s] /\ Lent(r)
    BY <1>2, <1>6 DEF Check
  <2>2. UNCHANGED <<row, agreement>>
    BY <1>6 DEF Check
  <2>3. CASE Becomes(s, None)
    BY <1>1, <2>2, <2>3, LoanMovesOn
  <2>4. CASE /\ Becomes(s, [session[s] EXCEPT !.stage = "checked", !.checked = Committed])
             /\ Allowed(s)
    <3> DEFINE q == [r EXCEPT !.stage = "checked", !.checked = Committed]
    <3>1. Becomes(s, q)
      BY <2>1, <2>4
    <3>2. /\ q.stage = "checked" /\ q.checked = Committed /\ q.request = r.request
          /\ q.begun = r.begun /\ q.loaded = r.loaded /\ q.status = r.status /\ q.read = r.read
      BY DEF Open
    <3> HIDE DEF q
    <3>3. Seen(q) /\ \A kind : q.checked \cap Of(kind) = Of(kind)
      BY <2>1, <3>2 DEF Lent, Seen, Of
    <3>4. r.request.kind \in Documents \cup Loans
          /\ (r.request.kind \in Loans => r.request.amount \in Int)
      BY <2>1, RequestAmounts DEF Lent
    <3>5. r.request.kind = "disbursement" => Disbursing(q)
      <4> SUFFICES ASSUME r.request.kind = "disbursement" PROVE Disbursing(q)
        OBVIOUS
      <4>1. Disbursed + r.request.amount <= Principal
        BY <2>1, <2>4 DEF Allowed, Documents
      <4> QED
        BY <3>2, <3>3, <4>1 DEF Disbursing, Disbursed
    <3>6. r.request.kind = "repayment" => Repaying(q)
      <4> SUFFICES ASSUME r.request.kind = "repayment" PROVE Repaying(q)
        OBVIOUS
      <4>1. r.request.amount <= r.read - Repaid
        BY <2>1, <2>4 DEF Allowed, Documents
      <4>2. r.read \in Nat /\ r.read <= Disbursed
        BY <2>1 DEF Lent, Repaying
      <4>3. Repaid + r.request.amount <= Disbursed
        BY <1>3, <3>4, <4>1, <4>2 DEF Loans
      <4>4. Amounts(q.checked \cap Of("repayment")) + q.request.amount <= Disbursed
        BY <3>2, <3>3, <4>3 DEF Repaid
      <4> QED
        BY <3>2, <3>3, <4>2, <4>4 DEF Repaying
    <3>7. Lent(q)
      BY <2>1, <3>2, <3>5, <3>6 DEF Lent
    <3> QED
      BY <1>1, <2>2, <3>1, <3>7, LoanMovesOn
  <2> QED
    BY <1>6, <2>3, <2>4 DEF Check
<1>7. ASSUME NEW s \in Session, TakeNumber(s) PROVE LoanInv'
  <2>1. PICK r \in Open : r = session[s] /\ Lent(r) /\ r.request.kind \in Documents
    BY <1>2, <1>7 DEF TakeNumber, At, Kind
  <2>2. PICK number : number = [day |-> today, seq |-> NextSeq(Of(Kind(s)))]
    OBVIOUS
  <2> DEFINE q == [r EXCEPT !.stage = "numbered", !.counted = Committed, !.number = number]
  <2>3. Becomes(s, q) /\ UNCHANGED <<row, agreement>>
    BY <1>7, <2>1, <2>2 DEF TakeNumber
  <2>4. /\ q.stage = "numbered" /\ q.request = r.request /\ q.begun = r.begun
        /\ q.loaded = r.loaded /\ q.status = r.status
    BY DEF Open
  <2> HIDE DEF q
  <2>5. Lent(q)
    BY <2>1, <2>4 DEF Lent, Documents
  <2> QED
    BY <1>1, <2>3, <2>5, LoanMovesOn
<1>8. ASSUME NEW s \in Session, Insert(s) PROVE LoanInv'
  <2>1. PICK r \in Open : r = session[s] /\ Lent(r)
    BY <1>2, <1>8 DEF Insert, At
  <2> DEFINE q == [r EXCEPT !.stage = "inserted"]
  <2>2. (Becomes(s, q) \/ Becomes(s, None)) /\ UNCHANGED <<row, agreement>>
    BY <1>8, <2>1 DEF Insert
  <2>3. /\ q.stage = "inserted" /\ q.request = r.request /\ q.begun = r.begun
        /\ q.loaded = r.loaded /\ q.status = r.status /\ q.read = r.read
    BY DEF Open
  <2> HIDE DEF q
  <2>4. Lent(q)
    BY <2>1, <2>3 DEF Lent, Disbursing, Repaying
  <2> QED
    BY <1>1, <2>2, <2>4, LoanMovesOn
<1>9. ASSUME NEW s \in Session, EnterJournal(s) PROVE LoanInv'
  <2>1. PICK r \in Open : r = session[s] /\ Lent(r)
    BY <1>2, <1>9 DEF EnterJournal
  <2>2. PICK status : status = IF r.request.kind = "disbursement" THEN "ACTIVE" ELSE r.status
    OBVIOUS
  <2> DEFINE q == [r EXCEPT !.stage = "entered", !.status = status]
  <2>3. Becomes(s, q) /\ UNCHANGED <<row, agreement>>
    BY <1>9, <2>1, <2>2 DEF EnterJournal, Kind
  <2>4. /\ q.stage = "entered" /\ q.request = r.request /\ q.begun = r.begun
        /\ q.loaded = r.loaded /\ q.status = status /\ q.read = r.read /\ q.checked = r.checked
    BY DEF Open
  <2> HIDE DEF q
  <2>5. r.request.kind \in Loans => r.stage = "checked"
    BY <1>9, <2>1 DEF EnterJournal, At, Kind, Loans, Documents
  <2>6. Lent(q)
    BY <2>1, <2>2, <2>4, <2>5 DEF Lent, Disbursing, Repaying, Seen, Loans, Documents
  <2> QED
    BY <1>1, <2>3, <2>6, LoanMovesOn
<1>10. ASSUME NEW s \in Session, Settle(s) PROVE LoanInv'
  <2>1. PICK r \in Open : r = session[s] /\ Lent(r) /\ r.stage = "reread"
    BY <1>2, <1>10 DEF Settle, At
  <2>2. r.request.kind = "repayment" /\ Repaying(r) /\ r.request.amount \in Int
    BY <2>1, RequestAmounts DEF Lent, Loans
  <2>3. PICK status : status = IF r.read - (Repaid + r.request.amount) <= 0 THEN "CLOSED" ELSE "ACTIVE"
    OBVIOUS
  <2> DEFINE q == [r EXCEPT !.stage = "settled", !.status = status]
  <2>4. Becomes(s, q) /\ UNCHANGED <<row, agreement>>
    BY <1>10, <2>1, <2>3 DEF Settle
  <2>5. /\ q.stage = "settled" /\ q.request = r.request /\ q.begun = r.begun
        /\ q.loaded = r.loaded /\ q.status = status /\ q.read = r.read /\ q.checked = r.checked
    BY DEF Open
  <2> HIDE DEF q
  <2>6. status = "CLOSED" => ~(r.read > Repaid + r.request.amount)
    BY <1>3, <2>2, <2>3 DEF Repaying
  <2>7. Repaying(q)
    BY <2>1, <2>2, <2>5, <2>6 DEF Repaying, Seen
  <2>8. Lent(q)
    BY <2>1, <2>2, <2>5, <2>7 DEF Lent, Documents
  <2> QED
    BY <1>1, <2>4, <2>8, LoanMovesOn
<1>11. ASSUME NEW s \in Session, Commit(s) PROVE LoanInv'
  BY <1>1, <1>11, CommitLends
<1>12. ASSUME NEW s \in Session, Disconnect(s) PROVE LoanInv'
  BY <1>1, <1>12, LoanMovesOn DEF Disconnect
<1>13. CASE UNCHANGED <<row, agreement, session>>
  BY <1>1, <1>13, LoanStands DEF LoanInv
<1> QED
  BY <1>4, <1>5, <1>6, <1>7, <1>8, <1>9, <1>10, <1>11, <1>12, <1>13 DEF Next, Midnight, vars

LEMMA LoanInvariance == Spec => []LoanInv
<1> QED
  BY LoanStart, LoanKept, SettlementTypes, PTL DEF Spec

(***************************************************************************)
(* Whatever the principal and the amounts, and however many requests there *)
(* are: more is disbursed than agreed, or repaid than disbursed, only by   *)
(* two requests neither of which saw the other.                            *)
(***************************************************************************)
THEOREM OverrunsOverlap == Spec => []LimitsNeedOverlap
<1>1. LoanInv => LimitsNeedOverlap
  BY DEF LoanInv
<1> QED
  BY <1>1, LoanInvariance, PTL

(***************************************************************************)
(* Whatever amounts are disbursed and repaid, negative principals among    *)
(* them: a closed agreement is repaid, unless a repayment and a request    *)
(* that raised what is outstanding did not see each other.                 *)
(***************************************************************************)
THEOREM ClosedIsRepaid == Spec => []ClosedMeansRepaid
<1>1. LoanInv => ClosedMeansRepaid
  BY DEF LoanInv
<1> QED
  BY <1>1, LoanInvariance, PTL

-----------------------------------------------------------------------------
(***************************************************************************)
(* StockSessions: requests on the balances of one product that overlap.    *)
(***************************************************************************)
CONSTANTS Plan, Need, MaxQty, Opening

VARIABLES stage, begun

Stock == INSTANCE StockSessions

\* No column of the row was ever written from a stale view.
Clean(i) == \A c \in Stock!Column : <<i, c>> \notin overwritten

\* The availability of a row is what its other two columns leave.
AddsUp(r) == r.available = r.onHand - r.reserved

\* What a request computes of a row, whatever quantity it is about.
Computed(kind, before, after) ==
    IF before = None THEN /\ kind \in {"receive", "transfer"}
                          /\ after.reserved = 0 /\ AddsUp(after)
    ELSE /\ kind = "reserve" =>
               /\ after.onHand = before.onHand
               /\ after.available = before.available - (after.reserved - before.reserved)
         /\ kind = "complete" =>
               /\ after.onHand - before.onHand = 2 * (after.reserved - before.reserved)
               /\ AddsUp(after)
         /\ kind \notin {"reserve", "complete"} =>
               /\ after.reserved = before.reserved
               /\ AddsUp(after)

\* How far a request is that has still to select.
Selecting(j) ==
    \/ j.selects = Stock!Selects(j.request) /\ DOMAIN j.view = {}
    \/ /\ j.request.kind = "transfer"
       /\ j.selects = <<{j.request.to}>> /\ DOMAIN j.view = {j.request.from}

Serving(j) ==
    /\ j.selects # <<>> => DOMAIN j.after = {} /\ Selecting(j)
    /\ j.queue \subseteq DOMAIN j.after
    /\ \A i \in DOMAIN j.after :
          i \in DOMAIN j.view /\ Computed(j.request.kind, j.view[i], j.after[i])

\* What a session has seen and locked.
Standing(s, j) ==
    /\ \A i \in DOMAIN j.view :
          j.view[i] # None => balance[i] # None /\ (Clean(i) => AddsUp(j.view[i]))
    /\ \A i \in DOMAIN j.after :
          i \notin j.queue => lock[i] = s /\ (j.view[i] = None => balance[i] = None)

SessionTypes ==
    /\ balance \in [Item -> Stock!BalanceRow \cup {None}]
    /\ posted \in [Item -> Int] /\ consumed \in [Item -> Int] /\ promised \in [Item -> Int]
    /\ job \in [Session -> Stock!Job \cup {None}]
    /\ lock \in [Item -> Session \cup {None}]

\* What is due is there, and what sessions saw and computed fits it.
DriftInv ==
    /\ SessionTypes
    /\ \A s \in Session : job[s] # None => Serving(job[s]) /\ Standing(s, job[s])
    /\ \A i \in Item : balance[i] # None /\ Clean(i) => AddsUp(balance[i])
    /\ Stock!DriftNeedsStaleWrite

\* Rows stay rows.
LEMMA BalancesTyped ==
  ASSUME NEW r \in Stock!BalanceRow, NEW q \in Int
  PROVE  /\ Stock!Increased(r, q) \in Stock!BalanceRow /\ Stock!Decreased(r, q) \in Stock!BalanceRow
         /\ r.onHand \in Int /\ r.reserved \in Int /\ r.available \in Int
         /\ Stock!Fresh(q) \in Stock!BalanceRow
<1>1. r.onHand \in Int /\ r.reserved \in Int /\ r.available \in Int
  BY DEF Stock!BalanceRow, Stock!Column
<1>2. Stock!Fresh(q) \in Stock!BalanceRow
  BY DEF Stock!Fresh, Stock!BalanceRow, Stock!Column
<1>3. /\ [r EXCEPT !.onHand = r.onHand + q] \in Stock!BalanceRow
      /\ [r EXCEPT !.onHand = r.onHand - q] \in Stock!BalanceRow
  BY <1>1 DEF Stock!BalanceRow
<1>4. ASSUME NEW e \in Stock!BalanceRow, NEW n \in Int
      PROVE  [e EXCEPT !.available = n] \in Stock!BalanceRow
  BY DEF Stock!BalanceRow
<1>5. /\ Stock!Increased(r, q) = [[r EXCEPT !.onHand = r.onHand + q]
                              EXCEPT !.available = r.onHand + q - r.reserved]
      /\ Stock!Decreased(r, q) = [[r EXCEPT !.onHand = r.onHand - q]
                              EXCEPT !.available = r.onHand - q - r.reserved]
  BY DEF Stock!Increased, Stock!Decreased, Stock!BalanceRow, Stock!Column
<1>6. r.onHand + q - r.reserved \in Int /\ r.onHand - q - r.reserved \in Int
  BY <1>1
<1> QED
  BY <1>1, <1>2, <1>3, <1>4, <1>5, <1>6

\* The views and outcomes of a request.
LEMMA ViewsTyped ==
  ASSUME NEW j \in Stock!Job
  PROVE  /\ DOMAIN j.view \in SUBSET Item /\ j.view \in [DOMAIN j.view -> Stock!BalanceRow \cup {None}]
         /\ DOMAIN j.after \in SUBSET Item /\ j.after \in [DOMAIN j.after -> Stock!BalanceRow]
         /\ j.request \in Stock!Request /\ j.queue \in SUBSET Item /\ j.checked \in BOOLEAN
         /\ j.selects \in Seq(SUBSET Item)
<1>1. j.view \in UNION {[D -> Stock!BalanceRow \cup {None}] : D \in SUBSET Item}
  BY DEF Stock!Job
<1>2. j.after \in UNION {[D -> Stock!BalanceRow] : D \in SUBSET Item}
  BY DEF Stock!Job
<1>3. /\ j.request \in Stock!Request /\ j.queue \in SUBSET Item /\ j.checked \in BOOLEAN
      /\ j.selects \in Seq(SUBSET Item)
  BY DEF Stock!Job
<1>4. PICK D \in SUBSET Item : j.view \in [D -> Stock!BalanceRow \cup {None}]
  BY <1>1
<1>5. PICK E \in SUBSET Item : j.after \in [E -> Stock!BalanceRow]
  BY <1>2
<1> QED
  BY <1>3, <1>4, <1>5

\* A walk draws from the rows it selected.
LEMMA DrawsTyped ==
  ASSUME NEW D \in SUBSET Item, NEW view \in [D -> Stock!BalanceRow \cup {None}], NEW column,
         NEW need \in Nat, NEW take \in Stock!Draws(view, column, need)
  PROVE  /\ DOMAIN take = {i \in D : view[i] # None}
         /\ \A i \in DOMAIN take : take[i] \in Nat
BY DEF Stock!Draws

\* The fields of each kind of request.
LEMMA RequestKinds ==
  ASSUME NEW r \in Stock!Request
  PROVE  /\ r.kind \in {"receive", "issue", "transfer", "reserve", "complete"}
         /\ r.kind = "receive" => r.to \in Item /\ r.qty \in 1 .. MaxQty
         /\ r.kind = "issue" => r.from \in Item /\ r.qty \in 1 .. MaxQty
         /\ r.kind = "transfer" =>
               r.from \in Item /\ r.to \in Item /\ r.from # r.to /\ r.qty \in 1 .. MaxQty
         /\ r.kind \in {"reserve", "complete"} => r.plan \in Plan
BY DEF Stock!Request, Stock!Posting

\* What the handlers compute, row by row.
LEMMA LoadedComputed ==
  ASSUME NEW D, NEW view \in [D -> Stock!BalanceRow \cup {None}], NEW i \in D, NEW q \in Int,
         NEW kind \in {"receive", "transfer"}
  PROVE  /\ Stock!Increased(Stock!Loaded(view, i), q) \in Stock!BalanceRow
         /\ Computed(kind, view[i], Stock!Increased(Stock!Loaded(view, i), q))
<1>1. CASE view[i] = None
  <2>1. Stock!Loaded(view, i) = Stock!Fresh(0)
    BY <1>1 DEF Stock!Loaded
  <2>2. Stock!Fresh(0) \in Stock!BalanceRow /\ Stock!Fresh(0).onHand = 0 /\ Stock!Fresh(0).reserved = 0
    BY DEF Stock!Fresh, Stock!BalanceRow, Stock!Column
  <2>3. Stock!Increased(Stock!Fresh(0), q) \in Stock!BalanceRow
    BY <2>2, BalancesTyped
  <2>4. Stock!Increased(Stock!Fresh(0), q).reserved = 0 /\ AddsUp(Stock!Increased(Stock!Fresh(0), q))
    BY <2>2 DEF Stock!Increased, Stock!Fresh, AddsUp
  <2> QED
    BY <1>1, <2>1, <2>3, <2>4 DEF Computed
<1>2. CASE view[i] # None
  <2> DEFINE e == view[i]
  <2>1. e \in Stock!BalanceRow /\ Stock!Loaded(view, i) = e /\ e # None
    BY <1>2 DEF Stock!Loaded
  <2> HIDE DEF e
  <2>2. Stock!Increased(e, q) \in Stock!BalanceRow /\ e.onHand \in Int /\ e.reserved \in Int
    BY <2>1, BalancesTyped
  <2>3. Stock!Increased(e, q).reserved = e.reserved /\ AddsUp(Stock!Increased(e, q))
    BY <2>1, <2>2 DEF Stock!Increased, AddsUp, Stock!BalanceRow, Stock!Column
  <2>4. Computed(kind, e, Stock!Increased(e, q))
    BY <2>1, <2>3 DEF Computed
  <2> QED
    BY <2>1, <2>2, <2>4 DEF e
<1> QED
  BY <1>1, <1>2

\* What an issue leaves of a row.
LEMMA IssuedComputed ==
  ASSUME NEW e \in Stock!BalanceRow, e # None, NEW q \in Int, NEW kind \in {"issue", "transfer"}
  PROVE  Stock!Decreased(e, q) \in Stock!BalanceRow /\ Computed(kind, e, Stock!Decreased(e, q))
<1>1. Stock!Decreased(e, q) \in Stock!BalanceRow /\ e.onHand \in Int /\ e.reserved \in Int
  BY BalancesTyped
<1>2. Stock!Decreased(e, q).reserved = e.reserved /\ AddsUp(Stock!Decreased(e, q))
  BY <1>1 DEF Stock!Decreased, AddsUp, Stock!BalanceRow, Stock!Column
<1> QED
  BY <1>1, <1>2 DEF Computed

\* What a reservation leaves of a row.
LEMMA ReservedComputed ==
  ASSUME NEW e \in Stock!BalanceRow, e # None, NEW q \in Nat
  PROVE  /\ [e EXCEPT !.reserved = @ + q, !.available = @ - q] \in Stock!BalanceRow
         /\ Computed("reserve", e, [e EXCEPT !.reserved = @ + q, !.available = @ - q])
<1> DEFINE f == [e EXCEPT !.reserved = @ + q, !.available = @ - q]
<1>1. e.onHand \in Int /\ e.reserved \in Int /\ e.available \in Int
  BY BalancesTyped
<1>2. f = [[e EXCEPT !.reserved = e.reserved + q] EXCEPT !.available = e.available - q]
  BY DEF Stock!BalanceRow, Stock!Column
<1>3. [e EXCEPT !.reserved = e.reserved + q] \in Stock!BalanceRow
  BY <1>1 DEF Stock!BalanceRow
<1>4. f \in Stock!BalanceRow
  <2>1. \A g \in Stock!BalanceRow, n \in Int : [g EXCEPT !.available = n] \in Stock!BalanceRow
    BY DEF Stock!BalanceRow
  <2>2. e.available - q \in Int
    BY <1>1
  <2> HIDE DEF f
  <2> QED
    BY <1>2, <1>3, <2>1, <2>2
<1>5. /\ f.onHand = e.onHand /\ f.reserved = e.reserved + q /\ f.available = e.available - q
  BY DEF Stock!BalanceRow, Stock!Column
<1> HIDE DEF f
<1>6. Computed("reserve", e, f)
  BY <1>1, <1>5 DEF Computed
<1> QED
  BY <1>4, <1>6 DEF f

\* What a completion leaves of a row: it takes the quantity twice.
LEMMA CompletedComputed ==
  ASSUME NEW e \in Stock!BalanceRow, e # None, NEW q \in Nat
  PROVE  LET f == Stock!Decreased([e EXCEPT !.reserved = @ - q, !.onHand = @ - q], q)
         IN  f \in Stock!BalanceRow /\ Computed("complete", e, f)
<1> DEFINE d == [e EXCEPT !.reserved = @ - q, !.onHand = @ - q]
           f == Stock!Decreased(d, q)
<1>1. e.onHand \in Int /\ e.reserved \in Int /\ e.available \in Int
  BY BalancesTyped
<1>2. d = [[e EXCEPT !.reserved = e.reserved - q] EXCEPT !.onHand = e.onHand - q]
  BY DEF Stock!BalanceRow, Stock!Column
<1>3. [e EXCEPT !.reserved = e.reserved - q] \in Stock!BalanceRow
  BY <1>1 DEF Stock!BalanceRow
<1>4. d \in Stock!BalanceRow
  <2>1. \A g \in Stock!BalanceRow, n \in Int : [g EXCEPT !.onHand = n] \in Stock!BalanceRow
    BY DEF Stock!BalanceRow
  <2>2. e.onHand - q \in Int
    BY <1>1
  <2> HIDE DEF d
  <2> QED
    BY <1>2, <1>3, <2>1, <2>2
<1>5. /\ d.onHand = e.onHand - q /\ d.reserved = e.reserved - q
  BY DEF Stock!BalanceRow, Stock!Column
<1> HIDE DEF d
<1>6. f \in Stock!BalanceRow
  BY <1>4, BalancesTyped
<1>7. /\ f.onHand = d.onHand - q /\ f.reserved = d.reserved
      /\ f.available = d.onHand - q - d.reserved
  BY <1>4 DEF Stock!Decreased, Stock!BalanceRow, Stock!Column
<1> HIDE DEF f
<1>8. Computed("complete", e, f)
  BY <1>1, <1>5, <1>7 DEF Computed, AddsUp
<1> QED
  BY <1>6, <1>8 DEF f, d

\* The rows a request has selected when it computes.
Selected(r) ==
    CASE r.kind = "receive"  -> {r.to}
      [] r.kind = "issue"    -> {r.from}
      [] r.kind = "transfer" -> {r.from, r.to}
      [] OTHER               -> Item

\* Whatever a request computes fits what it selected.
LEMMA OutcomesComputed ==
  ASSUME Stock!StockBounds, NEW r \in Stock!Request,
         NEW view \in [Selected(r) -> Stock!BalanceRow \cup {None}],
         Stock!SourceHolds(r, view), NEW after \in Stock!Outcomes(r, view)
  PROVE  /\ DOMAIN after \in SUBSET Selected(r) /\ after \in [DOMAIN after -> Stock!BalanceRow]
         /\ \A i \in DOMAIN after : Computed(r.kind, view[i], after[i])
<1>1. CASE r.kind = "receive"
  <2>1. r.to \in Selected(r) /\ r.qty \in Int
    BY <1>1, RequestKinds DEF Stock!StockBounds, Selected
  <2>2. after = [i \in {r.to} |-> Stock!Increased(Stock!Loaded(view, i), r.qty)]
    BY <1>1 DEF Stock!Outcomes
  <2> QED
    BY <1>1, <2>1, <2>2, LoadedComputed
<1>2. CASE r.kind = "issue"
  <2>1. r.from \in Selected(r) /\ r.qty \in Int /\ view[r.from] \in Stock!BalanceRow /\ view[r.from] # None
    BY <1>2, RequestKinds DEF Stock!StockBounds, Selected, Stock!SourceHolds
  <2>2. after = [i \in {r.from} |-> Stock!Decreased(view[i], r.qty)]
    BY <1>2 DEF Stock!Outcomes
  <2> QED
    BY <1>2, <2>1, <2>2, IssuedComputed
<1>3. CASE r.kind = "transfer"
  <2>1. /\ r.from \in Selected(r) /\ r.qty \in Int /\ view[r.from] \in Stock!BalanceRow /\ view[r.from] # None
        /\ r.to \in Selected(r) /\ r.from # r.to
    BY <1>3, RequestKinds DEF Stock!StockBounds, Selected, Stock!SourceHolds
  <2>2. after = [i \in {r.from, r.to} |-> IF i = r.from THEN Stock!Decreased(view[i], r.qty)
                                        ELSE Stock!Increased(Stock!Loaded(view, i), r.qty)]
    BY <1>3 DEF Stock!Outcomes
  <2>3. /\ Stock!Decreased(view[r.from], r.qty) \in Stock!BalanceRow
        /\ Computed("transfer", view[r.from], Stock!Decreased(view[r.from], r.qty))
    BY <2>1, IssuedComputed
  <2>4. /\ Stock!Increased(Stock!Loaded(view, r.to), r.qty) \in Stock!BalanceRow
        /\ Computed("transfer", view[r.to], Stock!Increased(Stock!Loaded(view, r.to), r.qty))
    BY <2>1, LoadedComputed
  <2> QED
    BY <1>3, <2>1, <2>2, <2>3, <2>4
<1>4. CASE r.kind = "reserve"
  <2>1. Selected(r) = Item /\ Need[r.plan] \in Nat
    BY <1>4, RequestKinds DEF Selected, Stock!StockBounds
  <2>2. PICK t \in Stock!Draws(view, "available", Need[r.plan]) :
           after = [i \in {j \in DOMAIN t : t[j] > 0} |->
                      [view[i] EXCEPT !.reserved = @ + t[i], !.available = @ - t[i]]]
    BY <1>4 DEF Stock!Outcomes
  <2>3. DOMAIN t = {i \in Item : view[i] # None} /\ \A i \in DOMAIN t : t[i] \in Nat
    <3>1. view \in [Item -> Stock!BalanceRow \cup {None}] /\ Item \in SUBSET Item
      BY <2>1
    <3> QED
      BY <2>1, <3>1, DrawsTyped
  <2>4. ASSUME NEW i \in DOMAIN after
        PROVE  /\ i \in Item /\ after[i] \in Stock!BalanceRow
               /\ Computed(r.kind, view[i], after[i])
    <3>1. /\ i \in Item /\ view[i] \in Stock!BalanceRow /\ view[i] # None /\ t[i] \in Nat
          /\ after[i] = [view[i] EXCEPT !.reserved = @ + t[i], !.available = @ - t[i]]
      BY <2>1, <2>2, <2>3
    <3>2. PICK e \in Stock!BalanceRow, q \in Nat : e = view[i] /\ q = t[i]
      BY <3>1
    <3>3. after[i] = [e EXCEPT !.reserved = @ + q, !.available = @ - q] /\ e # None
      BY <3>1, <3>2
    <3>4. after[i] \in Stock!BalanceRow /\ Computed("reserve", e, after[i])
      BY <3>3, ReservedComputed
    <3> QED
      BY <1>4, <3>1, <3>2, <3>4
  <2>5. after = [i \in DOMAIN after |-> after[i]]
    BY <2>2
  <2> QED
    BY <2>1, <2>4, <2>5
<1>5. CASE r.kind = "complete"
  <2>1. Selected(r) = Item /\ Need[r.plan] \in Nat
    BY <1>5, RequestKinds DEF Selected, Stock!StockBounds
  <2>2. PICK t \in Stock!Draws(view, "reserved", Need[r.plan]) :
           after = [i \in {j \in DOMAIN t : t[j] > 0} |->
                Stock!Decreased([view[i] EXCEPT !.reserved = @ - t[i], !.onHand = @ - t[i]], t[i])]
    BY <1>5 DEF Stock!Outcomes
  <2>3. DOMAIN t = {i \in Item : view[i] # None} /\ \A i \in DOMAIN t : t[i] \in Nat
    <3>1. view \in [Item -> Stock!BalanceRow \cup {None}] /\ Item \in SUBSET Item
      BY <2>1
    <3> QED
      BY <2>1, <3>1, DrawsTyped
  <2>4. ASSUME NEW i \in DOMAIN after
        PROVE  /\ i \in Item /\ after[i] \in Stock!BalanceRow
               /\ Computed(r.kind, view[i], after[i])
    <3>1. /\ i \in Item /\ view[i] \in Stock!BalanceRow /\ view[i] # None /\ t[i] \in Nat
          /\ after[i] = Stock!Decreased([view[i] EXCEPT !.reserved = @ - t[i], !.onHand = @ - t[i]], t[i])
      BY <2>1, <2>2, <2>3
    <3> QED
      BY <1>5, <3>1, CompletedComputed
  <2>5. after = [i \in DOMAIN after |-> after[i]]
    BY <2>2
  <2> QED
    BY <2>1, <2>4, <2>5
<1> QED
  BY <1>1, <1>2, <1>3, <1>4, <1>5, RequestKinds
-----------------------------------------------------------------------------
(* Nothing is committed: a session moves on, or ends.                      *)

\* What a session saw and locked still stands when nothing is committed.
LEMMA StandsWithout ==
  ASSUME SessionTypes, NEW t \in Session, NEW j \in Stock!Job, Standing(t, j),
         UNCHANGED <<balance, overwritten>>,
         \A i \in Item : lock[i] = t => lock'[i] = t
  PROVE  Standing(t, j)'
<1>1. DOMAIN j.after \subseteq Item
  BY ViewsTyped
<1>2. \A i : Clean(i)' <=> Clean(i)
  BY DEF Clean
<1> QED
  BY <1>1, <1>2 DEF Standing

\* A session goes on or ends without writing, keeping others' locks.
LEMMA SessionMoves ==
  ASSUME DriftInv, Stock!StockBounds, NEW s \in Session, NEW q \in Stock!Job \cup {None},
         job' = [job EXCEPT ![s] = q],
         UNCHANGED <<balance, posted, consumed, promised, overwritten>>,
         lock' \in [Item -> Session \cup {None}],
         \A i \in Item : \A t \in Session \ {s} : lock[i] = t => lock'[i] = t,
         q # None => Serving(q) /\ Standing(s, q)'
  PROVE  DriftInv'
<1>1. SessionTypes'
  BY DEF DriftInv, SessionTypes
<1>2. ASSUME NEW t \in Session, NEW j, j = job'[t], j # None
      PROVE  Serving(j) /\ Standing(t, j)'
  <2>1. CASE t = s
    BY <1>2, <2>1 DEF DriftInv, SessionTypes
  <2>2. CASE t # s
    <3>1. j = job[t] /\ j \in Stock!Job
      BY <1>2, <2>2 DEF DriftInv, SessionTypes
    <3>2. Serving(j) /\ Standing(t, j)
      BY <1>2, <3>1 DEF DriftInv
    <3>3. \A i \in Item : lock[i] = t => lock'[i] = t
      BY <2>2
    <3> QED
      BY <3>1, <3>2, <3>3, StandsWithout DEF DriftInv
  <2> QED
    BY <2>1, <2>2
<1>3. \A t \in Session : job'[t] # None => Serving(job'[t]) /\ Standing(t, job[t])'
  BY <1>2
<1>4. /\ \A i : Clean(i)' <=> Clean(i)
      /\ \A i, c : Stock!Due(i, c)' = Stock!Due(i, c)
  BY DEF Clean, Stock!Due
<1>5. Stock!DriftNeedsStaleWrite'
  BY <1>4 DEF DriftInv, Stock!DriftNeedsStaleWrite
<1>6. \A i \in Item : balance'[i] # None /\ Clean(i)' => AddsUp(balance'[i])
  BY <1>4 DEF DriftInv
<1> QED
  BY <1>1, <1>3, <1>5, <1>6 DEF DriftInv, Serving, Selecting

\* Refused, failed or cut off: nothing is written.
LEMMA RollbackDrifts ==
  ASSUME DriftInv, Stock!StockBounds, NEW s \in Session, Stock!Rollback(s)
  PROVE  DriftInv'
<1>1. lock' = [i \in Item |-> IF lock[i] = s THEN None ELSE lock[i]]
  BY DEF Stock!Rollback, Stock!Ended
<1>2. /\ lock' \in [Item -> Session \cup {None}]
      /\ \A i \in Item : \A t \in Session \ {s} : lock[i] = t => lock'[i] = t
  BY <1>1 DEF DriftInv, SessionTypes
<1>3. job' = [job EXCEPT ![s] = None]
  BY DEF Stock!Rollback, Stock!Ended
<1> QED
  BY <1>2, <1>3, SessionMoves DEF Stock!Rollback

\* What a request is going to select.
LEMMA SelectsTyped ==
  ASSUME NEW r \in Stock!Request
  PROVE  Stock!Selects(r) \in Seq(SUBSET Item)
<1>1. CASE r.kind = "receive"
  BY <1>1, RequestKinds DEF Stock!Selects
<1>2. CASE r.kind = "issue"
  BY <1>2, RequestKinds DEF Stock!Selects
<1>3. CASE r.kind = "transfer"
  <2>1. {r.from} \in SUBSET Item /\ {r.to} \in SUBSET Item
    BY <1>3, RequestKinds
  <2> QED
    BY <1>3, <2>1 DEF Stock!Selects
<1>4. CASE r.kind \in {"reserve", "complete"}
  BY <1>4 DEF Stock!Selects
<1> QED
  BY <1>1, <1>2, <1>3, <1>4, RequestKinds

\* A request begins: it has seen nothing.
LEMMA BeginDrifts ==
  ASSUME DriftInv, Stock!StockBounds, NEW s \in Session, NEW r \in Stock!Request, Stock!Begin(s, r)
  PROVE  DriftInv'
<1> DEFINE q == [request |-> r, selects |-> Stock!Selects(r), view |-> <<>>, after |-> <<>>,
                 queue |-> {}, checked |-> r.kind # "reserve"]
<1>1. Stock!Selects(r) \in Seq(SUBSET Item)
  BY SelectsTyped
<1>2. /\ <<>> \in UNION {[D -> Stock!BalanceRow \cup {None}] : D \in SUBSET Item}
      /\ <<>> \in UNION {[D -> Stock!BalanceRow] : D \in SUBSET Item}
  <2>1. <<>> \in [{} -> Stock!BalanceRow \cup {None}] /\ <<>> \in [{} -> Stock!BalanceRow]
    OBVIOUS
  <2>2. {} \in SUBSET Item
    OBVIOUS
  <2> QED
    BY <2>1, <2>2
<1>3. q \in Stock!Job
  BY <1>1, <1>2 DEF Stock!Job
<1>4. Serving(q)
  BY DEF Serving, Selecting
<1>5. Standing(s, q)'
  BY DEF Standing
<1>6. /\ job' = [job EXCEPT ![s] = q]
      /\ UNCHANGED <<balance, posted, consumed, promised, lock, overwritten>>
  BY DEF Stock!Begin
<1>7. lock' \in [Item -> Session \cup {None}]
  BY <1>6 DEF DriftInv, SessionTypes
<1> HIDE DEF q
<1> QED
  BY <1>3, <1>4, <1>5, <1>6, <1>7, SessionMoves

\* A reservation checks its workflow instance.
LEMMA CheckDrifts ==
  ASSUME DriftInv, Stock!StockBounds, NEW s \in Session, Stock!CheckInstance(s)
  PROVE  DriftInv'
<1>1. CASE Stock!Rollback(s)
  BY <1>1, RollbackDrifts
<1>2. CASE ~Stock!Rollback(s)
  <2>1. PICK j \in Stock!Job : j = job[s] /\ j # None
    BY DEF Stock!CheckInstance, Stock!Idle, DriftInv, SessionTypes
  <2> DEFINE q == [j EXCEPT !.checked = TRUE]
  <2>2. q \in Stock!Job
    BY DEF Stock!Job
  <2>3. /\ q.request = j.request /\ q.selects = j.selects /\ q.view = j.view
        /\ q.after = j.after /\ q.queue = j.queue
    BY DEF Stock!Job
  <2>4. /\ job' = [job EXCEPT ![s] = q]
        /\ UNCHANGED <<balance, posted, consumed, promised, lock, overwritten>>
    BY <1>2, <2>1 DEF Stock!CheckInstance, DriftInv, SessionTypes
  <2>5. lock' \in [Item -> Session \cup {None}]
    BY <2>4 DEF DriftInv, SessionTypes
  <2> HIDE DEF q
  <2>6. Serving(q)
    BY <2>1, <2>3 DEF DriftInv, Serving, Selecting
  <2>7. Standing(s, j) /\ Standing(s, j)'
    BY <2>1, <2>4, StandsWithout DEF DriftInv
  <2>8. Standing(s, q)'
    BY <2>3, <2>7 DEF Standing
  <2> QED
    BY <2>2, <2>4, <2>5, <2>6, <2>8, SessionMoves
<1> QED
  BY <1>1, <1>2

\* A flush locks one row, and finds none where it inserts.
LEMMA FlushDrifts ==
  ASSUME DriftInv, Stock!StockBounds, NEW s \in Session, Stock!Flush(s)
  PROVE  DriftInv'
<1>1. CASE Stock!Rollback(s)
  BY <1>1, RollbackDrifts
<1>2. CASE ~Stock!Rollback(s)
  <2>1. PICK j \in Stock!Job : j = job[s] /\ j # None
    BY DEF Stock!Flush, Stock!Idle, DriftInv, SessionTypes
  <2>2. PICK i : i = Stock!NextRow(j)
    OBVIOUS
  <2> DEFINE q == [j EXCEPT !.queue = j.queue \ {i}]
  <2>3. /\ job' = [job EXCEPT ![s].queue = @ \ {i}] /\ lock' = [lock EXCEPT ![i] = s]
        /\ lock[i] = None /\ ~(j.view[i] = None /\ balance[i] # None)
        /\ UNCHANGED <<balance, posted, consumed, promised, overwritten>>
    BY <1>2, <2>1, <2>2 DEF Stock!Flush
  <2>4. q \in Stock!Job
    BY DEF Stock!Job
  <2>5. /\ q.request = j.request /\ q.selects = j.selects /\ q.view = j.view
        /\ q.after = j.after /\ q.queue = j.queue \ {i}
    BY DEF Stock!Job
  <2>6. job' = [job EXCEPT ![s] = q]
    BY <2>1, <2>3 DEF DriftInv, SessionTypes
  <2> HIDE DEF q
  <2>7. lock' \in [Item -> Session \cup {None}]
    BY <2>3 DEF DriftInv, SessionTypes
  <2>8. \A k \in Item : \A t \in Session : lock[k] = t => lock'[k] = t
    BY <2>3 DEF DriftInv, SessionTypes, Stock!StockBounds
  <2>9. Serving(j) /\ Serving(q)
    BY <2>1, <2>5 DEF DriftInv, Serving, Selecting
  <2>10. Standing(s, j) /\ Standing(s, j)'
    BY <2>1, <2>3, <2>8, StandsWithout DEF DriftInv
  <2>11. Standing(s, q)'
    <3>1. \A k \in DOMAIN j.after : k \in Item
      BY ViewsTyped
    <3>2. \A k \in DOMAIN j.after : k = i => lock'[k] = s
      BY <2>3, <3>1 DEF DriftInv, SessionTypes
    <3> QED
      BY <2>3, <2>5, <2>10, <3>2 DEF Standing
  <2> QED
    BY <2>3, <2>4, <2>6, <2>7, <2>8, <2>9, <2>11, SessionMoves
<1> QED
  BY <1>1, <1>2

\* A select that is not the last is the first of a transfer.
LEMMA SelectsFurther ==
  ASSUME NEW j \in Stock!Job, Selecting(j), j.selects # <<>>
  PROVE  /\ Head(j.selects) \in SUBSET Item /\ Tail(j.selects) \in Seq(SUBSET Item)
         /\ Len(j.selects) = 1 =>
               Tail(j.selects) = <<>> /\ DOMAIN j.view \cup Head(j.selects) = Selected(j.request)
         /\ Len(j.selects) # 1 =>
               /\ j.request.kind = "transfer" /\ Tail(j.selects) = <<{j.request.to}>>
               /\ DOMAIN j.view \cup Head(j.selects) = {j.request.from}
<1> DEFINE r == j.request
<1>1. r \in Stock!Request /\ j.selects \in Seq(SUBSET Item)
  BY ViewsTyped
<1>2. Head(j.selects) \in SUBSET Item /\ Tail(j.selects) \in Seq(SUBSET Item)
  BY <1>1
<1>3. CASE r.kind = "transfer" /\ j.selects = <<{r.from}, {r.to}>> /\ DOMAIN j.view = {}
  BY <1>2, <1>3
<1>4. CASE r.kind = "transfer" /\ j.selects = <<{r.to}>> /\ DOMAIN j.view = {r.from}
  BY <1>2, <1>4 DEF Selected
<1>5. CASE r.kind = "receive" /\ j.selects = <<{r.to}>> /\ DOMAIN j.view = {}
  BY <1>2, <1>5 DEF Selected
<1>6. CASE r.kind = "issue" /\ j.selects = <<{r.from}>> /\ DOMAIN j.view = {}
  BY <1>2, <1>6 DEF Selected
<1>7. CASE r.kind \in {"reserve", "complete"} /\ j.selects = <<Item>> /\ DOMAIN j.view = {}
  BY <1>2, <1>7 DEF Selected
<1>8. r.kind \in {"receive", "issue", "transfer", "reserve", "complete"}
  BY <1>1, RequestKinds
<1> QED
  BY <1>3, <1>4, <1>5, <1>6, <1>7, <1>8 DEF Selecting, Stock!Selects

\* A select adds what is committed now to what the session saw.
LEMMA SelectDrifts ==
  ASSUME DriftInv, Stock!StockBounds, NEW s \in Session, Stock!Select(s)
  PROVE  DriftInv'
<1>1. CASE Stock!Rollback(s)
  BY <1>1, RollbackDrifts
<1>2. CASE ~Stock!Rollback(s)
  <2>1. PICK j \in Stock!Job : j = job[s] /\ j # None
    BY DEF Stock!Select, Stock!Idle, DriftInv, SessionTypes
  <2> DEFINE r == j.request
             D == DOMAIN j.view \cup Head(j.selects)
             view == [i \in D |-> IF i \in DOMAIN j.view THEN j.view[i] ELSE balance[i]]
             last == Len(j.selects) = 1
  <2>2. j.selects # <<>> /\ Stock!SourceHolds(r, view)
    BY <1>2, <2>1 DEF Stock!Select
  <2>3. PICK after : /\ after \in IF last THEN Stock!Outcomes(r, view) ELSE {<<>>}
                     /\ job' = [job EXCEPT ![s] =
                           [j EXCEPT !.selects = Tail(@), !.view = view, !.after = after,
                                     !.queue = DOMAIN after]]
                     /\ UNCHANGED <<balance, posted, consumed, promised, lock, overwritten>>
    BY <1>2, <2>1 DEF Stock!Select
  <2>4. Selecting(j) /\ Standing(s, j)
    BY <2>1, <2>2 DEF DriftInv, Serving
  <2>5. /\ D \in SUBSET Item /\ view \in [D -> Stock!BalanceRow \cup {None}] /\ r \in Stock!Request
    <3>1. /\ DOMAIN j.view \in SUBSET Item /\ j.view \in [DOMAIN j.view -> Stock!BalanceRow \cup {None}]
          /\ Head(j.selects) \in SUBSET Item /\ r \in Stock!Request
      BY <2>2, <2>4, ViewsTyped, SelectsFurther
    <3>2. \A i \in Item : balance[i] \in Stock!BalanceRow \cup {None}
      BY DEF DriftInv, SessionTypes
    <3> QED
      BY <3>1, <3>2
  <2>6. ASSUME NEW i \in DOMAIN view, view[i] # None
        PROVE  balance[i] # None /\ (Clean(i) => AddsUp(view[i]))
    <3>1. CASE i \in DOMAIN j.view
      BY <2>4, <2>6, <3>1 DEF Standing
    <3>2. CASE i \notin DOMAIN j.view
      BY <2>5, <2>6, <3>2 DEF DriftInv
    <3> QED
      BY <3>1, <3>2
  <2>7. /\ DOMAIN after \in SUBSET D /\ after \in [DOMAIN after -> Stock!BalanceRow]
        /\ \A i \in DOMAIN after : Computed(r.kind, view[i], after[i])
        /\ Tail(j.selects) # <<>> =>
              /\ DOMAIN after = {} /\ r.kind = "transfer"
              /\ Tail(j.selects) = <<{r.to}>> /\ D = {r.from}
    <3>1. CASE last
      <4>1. Tail(j.selects) = <<>> /\ D = Selected(r)
        BY <2>2, <2>4, <3>1, SelectsFurther
      <4>2. after \in Stock!Outcomes(r, view)
        BY <2>3, <3>1
      <4>3. PICK v \in [Selected(r) -> Stock!BalanceRow \cup {None}] : v = view
        BY <2>5, <4>1
      <4>4. Stock!SourceHolds(r, v) /\ after \in Stock!Outcomes(r, v)
        BY <2>2, <4>2, <4>3
      <4> HIDE DEF view
      <4>5. /\ DOMAIN after \in SUBSET Selected(r) /\ after \in [DOMAIN after -> Stock!BalanceRow]
            /\ \A i \in DOMAIN after : Computed(r.kind, v[i], after[i])
        BY <2>5, <4>4, OutcomesComputed
      <4> QED
        BY <4>1, <4>3, <4>5
    <3>2. CASE ~last
      <4>1. /\ r.kind = "transfer" /\ Tail(j.selects) = <<{r.to}>> /\ D = {r.from}
        BY <2>2, <2>4, <3>2, SelectsFurther
      <4>2. after = <<>>
        BY <2>3, <3>2
      <4>3. DOMAIN after = {} /\ after \in [{} -> Stock!BalanceRow]
        BY <4>2
      <4> QED
        BY <4>1, <4>3
    <3> QED
      BY <3>1, <3>2
  <2>8. PICK w : w = view
    OBVIOUS
  <2>9. DOMAIN w = D /\ w \in [D -> Stock!BalanceRow \cup {None}]
    BY <2>5, <2>8
  <2>10. /\ \A i \in DOMAIN w : w[i] # None => balance[i] # None /\ (Clean(i) => AddsUp(w[i]))
         /\ \A i \in DOMAIN after : Computed(r.kind, w[i], after[i])
    BY <2>6, <2>7, <2>8
  <2> DEFINE q == [j EXCEPT !.selects = Tail(@), !.view = w, !.after = after,
                            !.queue = DOMAIN after]
  <2>11. job' = [job EXCEPT ![s] = q]
    BY <2>3, <2>8
  <2> HIDE DEF D, view, last
  <2>12. /\ q.request = r /\ q.selects = Tail(j.selects) /\ q.view = w
         /\ q.after = after /\ q.queue = DOMAIN after
    BY DEF Stock!Job
  <2>13. q \in Stock!Job
    <3>1. Tail(j.selects) \in Seq(SUBSET Item)
      BY <2>2, <2>4, SelectsFurther
    <3>2. w \in UNION {[E -> Stock!BalanceRow \cup {None}] : E \in SUBSET Item}
      BY <2>5, <2>9
    <3>3. DOMAIN after \in SUBSET Item /\ after \in UNION {[E -> Stock!BalanceRow] : E \in SUBSET Item}
      BY <2>5, <2>7
    <3> QED
      BY <3>1, <3>2, <3>3 DEF Stock!Job
  <2> HIDE DEF q
  <2>14. Serving(q)
    BY <2>7, <2>9, <2>10, <2>12 DEF Serving, Selecting
  <2>15. Standing(s, q)'
    <3>1. \A i : Clean(i)' <=> Clean(i)
      BY <2>3 DEF Clean
    <3>2. balance' = balance
      BY <2>3
    <3>3. \A i \in DOMAIN w : w[i] # None => balance'[i] # None /\ (Clean(i)' => AddsUp(w[i]))
      BY <2>10, <3>1, <3>2
    <3>4. \A i \in DOMAIN q.after : i \in q.queue
      BY <2>12
    <3> QED
      BY <2>12, <3>3, <3>4 DEF Standing, AddsUp
  <2>16. lock' \in [Item -> Session \cup {None}]
    BY <2>3 DEF DriftInv, SessionTypes
  <2> QED
    <3>1. UNCHANGED <<balance, posted, consumed, promised, overwritten>> /\ lock' = lock
      BY <2>3
    <3>2. \A i \in Item : \A t \in Session \ {s} : lock[i] = t => lock'[i] = t
      BY <3>1
    <3> QED
      BY <2>11, <2>13, <2>14, <2>15, <2>16, <3>1, <3>2, SessionMoves
<1> QED
  BY <1>1, <1>2
-----------------------------------------------------------------------------
(* A commit moves every column by what its request computed, or marks it.  *)

\* What a balance shows; an item without a row shows nothing.
Held(i, c) == IF balance[i] = None THEN 0 ELSE balance[i][c]

\* A column not written stale moves by what the request moved of its view.
LEMMA WrittenMoves ==
  ASSUME SessionTypes, Stock!StockBounds, NEW s \in Session, NEW j \in Stock!Job,
         Serving(j), Standing(s, j),
         j.queue = {}, NEW i \in DOMAIN j.after
  PROVE  /\ i \in Item /\ i \in DOMAIN j.view /\ lock[i] = s
         /\ j.after[i] \in Stock!BalanceRow /\ Stock!Written(j, i) \in Stock!BalanceRow
         /\ j.view[i] = None => balance[i] = None /\ Stock!Written(j, i) = j.after[i]
         /\ j.view[i] # None =>
               /\ j.view[i] \in Stock!BalanceRow /\ balance[i] \in Stock!BalanceRow /\ balance[i] # None
               /\ \A c \in Stock!Column : c \notin Stock!Stale(j, i) =>
                     Stock!Written(j, i)[c] = balance[i][c] + j.after[i][c] - j.view[i][c]
<1>1. /\ i \in Item /\ i \in DOMAIN j.view /\ lock[i] = s
      /\ j.view[i] = None => balance[i] = None
  BY ViewsTyped DEF Serving, Standing
<1>2. /\ j.after[i] \in Stock!BalanceRow /\ j.view[i] \in Stock!BalanceRow \cup {None}
      /\ balance[i] \in Stock!BalanceRow \cup {None}
  BY <1>1, ViewsTyped DEF SessionTypes
<1>3. CASE j.view[i] = None
  BY <1>1, <1>2, <1>3 DEF Stock!Written
<1>4. CASE j.view[i] # None
  <2>1. j.view[i] \in Stock!BalanceRow /\ balance[i] \in Stock!BalanceRow /\ balance[i] # None
    BY <1>1, <1>2, <1>4 DEF Standing
  <2>2. PICK a \in Stock!BalanceRow, v \in Stock!BalanceRow, e \in Stock!BalanceRow :
           a = j.after[i] /\ v = j.view[i] /\ e = balance[i]
    BY <1>2, <2>1
  <2>3. Stock!Written(j, i) = [c \in Stock!Column |-> IF c \in Stock!Dirty(j, i) THEN a[c] ELSE e[c]]
    BY <2>1, <2>2 DEF Stock!Written
  <2>4. \A c \in Stock!Column : a[c] \in Int /\ v[c] \in Int /\ e[c] \in Int
    BY DEF Stock!BalanceRow
  <2>5. Stock!Written(j, i) \in Stock!BalanceRow
    BY <2>3, <2>4 DEF Stock!BalanceRow
  <2>6. ASSUME NEW c \in Stock!Column, c \notin Stock!Stale(j, i)
        PROVE  Stock!Written(j, i)[c] = e[c] + a[c] - v[c]
    <3>1. CASE c \in Stock!Dirty(j, i)
      <4>1. e[c] = v[c]
        BY <1>4, <2>2, <2>6, <3>1 DEF Stock!Stale
      <4> QED
        BY <2>3, <2>4, <3>1, <4>1
    <3>2. CASE c \notin Stock!Dirty(j, i)
      <4>1. a[c] = v[c]
        BY <1>4, <2>2, <3>2 DEF Stock!Dirty
      <4> QED
        BY <2>3, <2>4, <3>2, <4>1
    <3> QED
      BY <3>1, <3>2
  <2> QED
    BY <1>1, <1>2, <1>4, <2>1, <2>2, <2>5, <2>6
<1> QED
  BY <1>3, <1>4

\* A commit writes what it computed, on top of what others committed.
LEMMA CommitDrifts ==
  ASSUME DriftInv, Stock!StockBounds, NEW s \in Session, Stock!Commit(s)
  PROVE  DriftInv'
<1>1. PICK j \in Stock!Job : j = job[s] /\ j # None
  BY DEF Stock!Commit, Stock!Idle, DriftInv, SessionTypes
<1>2. SessionTypes /\ Serving(j) /\ Standing(s, j) /\ j.queue = {}
  BY <1>1 DEF Stock!Commit, DriftInv
<1>3. /\ balance' = [i \in Item |->
             IF i \in DOMAIN j.after THEN Stock!Written(j, i) ELSE balance[i]]
      /\ promised' = [i \in Item |-> promised[i] + Stock!Moved(j, i, "reserved")]
      /\ j.request.kind = "complete" =>
            /\ posted' = [i \in Item |-> posted[i] + Stock!Moved(j, i, "reserved")]
            /\ consumed' = [i \in Item |-> consumed[i] - Stock!Moved(j, i, "reserved")]
      /\ j.request.kind # "complete" =>
            /\ posted' = [i \in Item |-> posted[i] + Stock!Moved(j, i, "onHand")]
            /\ consumed' = consumed
      /\ overwritten' = overwritten \cup UNION {{i} \X Stock!Stale(j, i) : i \in DOMAIN j.after}
      /\ job' = [job EXCEPT ![s] = None]
      /\ lock' = [i \in Item |-> IF lock[i] = s THEN None ELSE lock[i]]
  BY <1>1 DEF Stock!Commit, Stock!Ended
<1>4. ASSUME NEW i \in DOMAIN j.after
      PROVE  /\ i \in Item /\ i \in DOMAIN j.view /\ lock[i] = s
             /\ j.after[i] \in Stock!BalanceRow /\ balance'[i] \in Stock!BalanceRow /\ balance'[i] # None
             /\ j.view[i] = None => balance[i] = None /\ balance'[i] = j.after[i]
             /\ j.view[i] # None =>
                   /\ j.view[i] \in Stock!BalanceRow /\ balance[i] \in Stock!BalanceRow /\ balance[i] # None
                   /\ \A c \in Stock!Column : <<i, c>> \notin overwritten' =>
                         balance'[i][c] = balance[i][c] + j.after[i][c] - j.view[i][c]
  <2>1. i \in Item
    BY <1>2, WrittenMoves
  <2>2. balance'[i] = Stock!Written(j, i)
    BY <1>3, <2>1
  <2>3. \A c : <<i, c>> \notin overwritten' => c \notin Stock!Stale(j, i)
    BY <1>3
  <2> QED
    BY <1>2, <2>2, <2>3, WrittenMoves DEF Stock!StockBounds
<1>5. ASSUME NEW i \in Item, i \notin DOMAIN j.after
      PROVE  balance'[i] = balance[i] /\ \A c : Stock!Moved(j, i, c) = 0
  BY <1>3, <1>5 DEF Stock!Moved
<1>6. overwritten \subseteq overwritten' /\ \A i : Clean(i)' => Clean(i)
  BY <1>3 DEF Clean
<1>7. \A i \in Item, c \in Stock!Column : Stock!Moved(j, i, c) \in Int
  <2>1. \A r \in Stock!BalanceRow, c \in Stock!Column : r[c] \in Int
    BY DEF Stock!BalanceRow
  <2>2. ASSUME NEW i \in DOMAIN j.after, NEW c \in Stock!Column
        PROVE  Stock!Moved(j, i, c) \in Int
    BY <1>4, <2>1 DEF Stock!Moved
  <2> QED
    BY <1>5, <2>2
<1>8. SessionTypes'
  <2>1. balance' \in [Item -> Stock!BalanceRow \cup {None}]
    BY <1>2, <1>3, <1>4 DEF SessionTypes
  <2>2. /\ posted' \in [Item -> Int] /\ consumed' \in [Item -> Int] /\ promised' \in [Item -> Int]
    BY <1>2, <1>3, <1>7 DEF SessionTypes, Stock!Column
  <2>3. job' \in [Session -> Stock!Job \cup {None}] /\ lock' \in [Item -> Session \cup {None}]
    BY <1>2, <1>3 DEF SessionTypes
  <2> QED
    BY <2>1, <2>2, <2>3 DEF SessionTypes
<1>9. ASSUME NEW t \in Session, job'[t] # None
      PROVE  (Serving(job[t]) /\ Standing(t, job[t]))'
  <2>1. PICK q \in Stock!Job : q = job'[t] /\ q = job[t] /\ q # None /\ t # s
    BY <1>2, <1>3, <1>9 DEF SessionTypes
  <2>2. Serving(q) /\ Standing(t, q)
    BY <2>1 DEF DriftInv
  <2>3. DOMAIN q.view \subseteq Item /\ DOMAIN q.after \subseteq Item
    BY ViewsTyped
  <2>4. \A i \in Item : balance[i] # None => balance'[i] # None
    BY <1>4, <1>5
  <2>5. \A i \in DOMAIN q.view :
           q.view[i] # None => balance'[i] # None /\ (Clean(i)' => AddsUp(q.view[i]))
    BY <1>6, <2>2, <2>3, <2>4 DEF Standing
  <2>6. \A i \in DOMAIN q.after :
           i \notin q.queue => lock'[i] = t /\ (q.view[i] = None => balance'[i] = None)
    BY <1>3, <1>4, <1>5, <2>1, <2>2, <2>3 DEF Standing
  <2>7. Standing(t, q)'
    BY <2>5, <2>6 DEF Standing, AddsUp
  <2> QED
    BY <2>1, <2>2, <2>7 DEF Serving, Selecting
<1>10. ASSUME NEW i \in Item, balance'[i] # None, Clean(i)'
       PROVE  AddsUp(balance[i])'
  <2>1. Clean(i) /\ \A c \in Stock!Column : <<i, c>> \notin overwritten'
    BY <1>6, <1>10 DEF Clean
  <2>2. CASE i \notin DOMAIN j.after
    BY <1>5, <1>10, <2>1, <2>2 DEF DriftInv, AddsUp
  <2>3. CASE i \in DOMAIN j.after /\ j.view[i] = None
    <3>1. balance'[i] = j.after[i] /\ AddsUp(j.after[i])
      BY <1>2, <1>4, <2>3 DEF Serving, Computed
    <3> QED
      BY <3>1 DEF AddsUp
  <2>4. CASE i \in DOMAIN j.after /\ j.view[i] # None
    <3>1. PICK a \in Stock!BalanceRow, v \in Stock!BalanceRow, e \in Stock!BalanceRow, f \in Stock!BalanceRow :
             a = j.after[i] /\ v = j.view[i] /\ e = balance[i] /\ f = balance'[i]
      BY <1>4, <2>4
    <3>2. AddsUp(e) /\ AddsUp(v) /\ Computed(j.request.kind, v, a) /\ v # None
      BY <1>2, <1>4, <2>1, <2>4, <3>1 DEF DriftInv, Standing, Serving
    <3>3. \A c \in Stock!Column : f[c] = e[c] + a[c] - v[c]
      BY <1>4, <2>1, <2>4, <3>1
    <3>4. \A r \in Stock!BalanceRow : r.onHand \in Int /\ r.reserved \in Int /\ r.available \in Int
      BY DEF Stock!BalanceRow, Stock!Column
    <3>5. /\ f.onHand = e.onHand + a.onHand - v.onHand
          /\ f.reserved = e.reserved + a.reserved - v.reserved
          /\ f.available = e.available + a.available - v.available
      BY <3>3 DEF Stock!Column
    <3>6. AddsUp(a)
      BY <3>2, <3>4 DEF Computed, AddsUp
    <3>7. AddsUp(f)
      BY <3>2, <3>4, <3>5, <3>6 DEF AddsUp
    <3> QED
      BY <3>1, <3>7 DEF AddsUp
  <2> QED
    BY <2>2, <2>3, <2>4
<1>11. ASSUME NEW i \in Item, NEW c \in Stock!Column, <<i, c>> \notin overwritten'
       PROVE  Held(i, c)' = Held(i, c) + Stock!Moved(j, i, c)
  <2>1. \A r \in Stock!BalanceRow : r[c] \in Int
    BY DEF Stock!BalanceRow
  <2>2. CASE i \notin DOMAIN j.after
    <3>1. /\ balance[i] \in Stock!BalanceRow \cup {None} /\ balance'[i] = balance[i]
          /\ Stock!Moved(j, i, c) = 0
      BY <1>2, <1>5, <2>2 DEF SessionTypes
    <3> QED
      BY <2>1, <3>1 DEF Held
  <2>3. CASE i \in DOMAIN j.after /\ j.view[i] = None
    <3>1. /\ balance[i] = None /\ balance'[i] = j.after[i] /\ balance'[i] # None
          /\ j.after[i] \in Stock!BalanceRow
          /\ Stock!Moved(j, i, c) = j.after[i][c] - 0
      BY <1>4, <2>3 DEF Stock!Moved
    <3> QED
      BY <2>1, <3>1 DEF Held
  <2>4. CASE i \in DOMAIN j.after /\ j.view[i] # None
    <3>1. /\ balance[i] # None /\ balance'[i] # None /\ balance[i] \in Stock!BalanceRow
          /\ j.after[i] \in Stock!BalanceRow
          /\ j.view[i] \in Stock!BalanceRow
          /\ balance'[i][c] = balance[i][c] + j.after[i][c] - j.view[i][c]
          /\ Stock!Moved(j, i, c) = j.after[i][c] - j.view[i][c]
      BY <1>4, <1>11, <2>4 DEF Stock!Moved
    <3> QED
      BY <2>1, <3>1 DEF Held
  <2> QED
    BY <2>2, <2>3, <2>4
<1>12. ASSUME NEW i \in Item, j.request.kind = "complete"
       PROVE  Stock!Moved(j, i, "onHand") = 2 * Stock!Moved(j, i, "reserved")
  <2>1. CASE i \notin DOMAIN j.after
    BY <1>5, <2>1
  <2>2. CASE i \in DOMAIN j.after
    <3>1. Computed("complete", j.view[i], j.after[i])
      BY <1>2, <1>12, <2>2 DEF Serving
    <3>2. j.view[i] # None
      BY <3>1 DEF Computed
    <3> QED
      BY <2>2, <3>1, <3>2 DEF Computed, Stock!Moved
  <2> QED
    BY <2>1, <2>2
<1>13. ASSUME NEW i \in Item
       PROVE  /\ Stock!Due(i, "onHand") \in Int /\ Stock!Due(i, "reserved") \in Int
              /\ Stock!Due(i, "onHand")' = Stock!Due(i, "onHand") + Stock!Moved(j, i, "onHand")
              /\ Stock!Due(i, "reserved")' = Stock!Due(i, "reserved") + Stock!Moved(j, i, "reserved")
              /\ Stock!Due(i, "available")' = Stock!Due(i, "onHand")' - Stock!Due(i, "reserved")'
  <2>1. /\ posted[i] \in Int /\ consumed[i] \in Int /\ promised[i] \in Int
        /\ Stock!Moved(j, i, "onHand") \in Int /\ Stock!Moved(j, i, "reserved") \in Int
    BY <1>2, <1>7 DEF SessionTypes, Stock!Column
  <2>2. promised'[i] = promised[i] + Stock!Moved(j, i, "reserved")
    BY <1>3
  <2>3. posted'[i] - consumed'[i] = posted[i] - consumed[i] + Stock!Moved(j, i, "onHand")
    <3>1. CASE j.request.kind = "complete"
      <4>1. /\ posted'[i] = posted[i] + Stock!Moved(j, i, "reserved")
            /\ consumed'[i] = consumed[i] - Stock!Moved(j, i, "reserved")
        BY <1>3, <3>1
      <4> QED
        BY <1>12, <2>1, <3>1, <4>1
    <3>2. CASE j.request.kind # "complete"
      <4>1. posted'[i] = posted[i] + Stock!Moved(j, i, "onHand") /\ consumed'[i] = consumed[i]
        BY <1>3, <3>2
      <4> QED
        BY <2>1, <4>1
    <3> QED
      BY <3>1, <3>2
  <2> QED
    BY <2>1, <2>2, <2>3 DEF Stock!Due
<1>14. ASSUME NEW i \in Item, NEW c \in Stock!Column,
              \A b \in Stock!ComputedFrom(c) : <<i, b>> \notin overwritten'
       PROVE  Stock!Due(i, c)' = Held(i, c)'
  <2>1. CASE c \in {"onHand", "reserved"}
    <3>1. <<i, c>> \notin overwritten' /\ <<i, c>> \notin overwritten
      BY <1>6, <1>14, <2>1 DEF Stock!ComputedFrom
    <3>2. Stock!Due(i, c) = Held(i, c)
      BY <2>1, <3>1 DEF DriftInv, Stock!DriftNeedsStaleWrite, Stock!ComputedFrom, Held
    <3> QED
      BY <1>11, <1>13, <2>1, <3>1, <3>2
  <2>2. CASE c = "available"
    <3>1. Clean(i)' /\ \A b \in Stock!Column : <<i, b>> \notin overwritten'
      BY <1>14, <2>2 DEF Stock!ComputedFrom, Clean
    <3>2. ASSUME NEW b \in {"onHand", "reserved"}
          PROVE  Stock!Due(i, b)' = Held(i, b)'
      <4>1. <<i, b>> \notin overwritten' /\ <<i, b>> \notin overwritten /\ b \in Stock!Column
        BY <1>6, <3>1 DEF Stock!Column
      <4>2. Stock!Due(i, b) = Held(i, b)
        BY <4>1 DEF DriftInv, Stock!DriftNeedsStaleWrite, Stock!ComputedFrom, Held
      <4> QED
        BY <1>11, <1>13, <4>1, <4>2
    <3>3. Stock!Due(i, "available")' = Held(i, "onHand")' - Held(i, "reserved")'
      BY <1>13, <3>2
    <3>4. CASE balance'[i] = None
      BY <2>2, <3>3, <3>4 DEF Held
    <3>5. CASE balance'[i] # None
      <4>1. AddsUp(balance[i])'
        BY <1>10, <3>1, <3>5
      <4> QED
        BY <2>2, <3>3, <3>5, <4>1 DEF Held, AddsUp
    <3> QED
      BY <3>4, <3>5
  <2> QED
    BY <2>1, <2>2 DEF Stock!Column
<1>15. Stock!DriftNeedsStaleWrite'
  BY <1>14 DEF Stock!DriftNeedsStaleWrite, Held, Stock!ComputedFrom
<1> QED
  BY <1>8, <1>9, <1>10, <1>15 DEF DriftInv
-----------------------------------------------------------------------------
\* What receipts and reservations served alone leave behind adds up.
LEMMA InitDrifts ==
  ASSUME Stock!StockBounds, Stock!Init
  PROVE  DriftInv
<1>1. PICK held \in [Item -> Opening] :
         /\ promised \in [Item -> UNION {0 .. q : q \in Opening}]
         /\ balance = [i \in Item |->
               IF held[i] = 0 THEN None
               ELSE [onHand |-> held[i], reserved |-> promised[i],
                     available |-> held[i] - promised[i]]]
         /\ posted = held
         /\ \A i \in Item : promised[i] <= held[i]
  BY DEF Stock!Init
<1>2. ASSUME NEW i \in Item
      PROVE  held[i] \in Nat /\ promised[i] \in Nat /\ promised[i] <= held[i]
  <2>1. held[i] \in Opening /\ promised[i] \in UNION {0 .. q : q \in Opening}
    BY <1>1
  <2>2. PICK q \in Opening : promised[i] \in 0 .. q
    BY <2>1
  <2>3. held[i] \in Nat /\ q \in Nat
    BY <2>1 DEF Stock!StockBounds
  <2>4. promised[i] \in Nat
    BY <2>2, <2>3
  <2> QED
    BY <1>1, <2>3, <2>4
<1>3. SessionTypes
  <2>1. ASSUME NEW i \in Item
        PROVE  [onHand |-> held[i], reserved |-> promised[i],
                available |-> held[i] - promised[i]] \in Stock!BalanceRow
    BY <1>2 DEF Stock!BalanceRow, Stock!Column
  <2>2. balance \in [Item -> Stock!BalanceRow \cup {None}]
    BY <1>1, <2>1
  <2>3. /\ posted \in [Item -> Int] /\ promised \in [Item -> Int]
    <3>1. DOMAIN promised = Item /\ promised = [i \in Item |-> promised[i]]
      BY <1>1
    <3>2. posted = [i \in Item |-> held[i]]
      BY <1>1
    <3> QED
      BY <1>2, <3>1, <3>2
  <2>4. /\ consumed \in [Item -> Int] /\ job \in [Session -> Stock!Job \cup {None}]
        /\ lock \in [Item -> Session \cup {None}]
    BY DEF Stock!Init
  <2> QED
    BY <2>2, <2>3, <2>4 DEF SessionTypes
<1>4. \A s \in Session : job[s] = None
  BY DEF Stock!Init
<1>5. ASSUME NEW i \in Item
      PROVE  /\ balance[i] # None => AddsUp(balance[i])
             /\ \A c \in Stock!Column : Stock!Due(i, c) = IF balance[i] = None THEN 0 ELSE balance[i][c]
  <2>1. consumed[i] = 0 /\ posted[i] = held[i]
    BY <1>1 DEF Stock!Init
  <2>2. CASE held[i] = 0
    <3>1. balance[i] = None /\ promised[i] = 0
      BY <1>1, <1>2, <2>2
    <3> QED
      BY <2>1, <2>2, <3>1 DEF Stock!Due, Stock!Column
  <2>3. CASE held[i] # 0
    <3>1. balance[i] = [onHand |-> held[i], reserved |-> promised[i],
                    available |-> held[i] - promised[i]]
      BY <1>1, <2>3
    <3>2. balance[i] # None
      BY <1>2, <3>1 DEF Stock!StockBounds, Stock!BalanceRow, Stock!Column
    <3> QED
      BY <1>2, <2>1, <3>1, <3>2 DEF Stock!Due, Stock!Column, AddsUp
  <2> QED
    BY <2>2, <2>3
<1> QED
  BY <1>3, <1>4, <1>5 DEF DriftInv, Stock!DriftNeedsStaleWrite

\* Every step keeps the invariant.
LEMMA StepDrifts ==
  ASSUME Stock!StockBounds, DriftInv, [Stock!Next]_Stock!vars
  PROVE  DriftInv'
<1>1. ASSUME NEW s \in Session, NEW r \in Stock!Request, Stock!Begin(s, r)
      PROVE  DriftInv'
  BY <1>1, BeginDrifts
<1>2. ASSUME NEW s \in Session, Stock!Serve(s)
      PROVE  DriftInv'
  <2>1. CASE Stock!FailDeadlocked(s)
    BY <2>1, RollbackDrifts DEF Stock!FailDeadlocked
  <2> QED
    BY <1>2, <2>1, SelectDrifts, CheckDrifts, FlushDrifts, CommitDrifts DEF Stock!Serve
<1>3. ASSUME NEW s \in Session, Stock!Disconnect(s)
      PROVE  DriftInv'
  BY <1>3, RollbackDrifts DEF Stock!Disconnect
<1>4. CASE UNCHANGED Stock!vars
  <2>1. SessionTypes'
    BY <1>4 DEF Stock!vars, DriftInv, SessionTypes
  <2>2. /\ \A i : Clean(i)' <=> Clean(i)
        /\ \A i, c : Stock!Due(i, c)' = Stock!Due(i, c)
    BY <1>4 DEF Stock!vars, Clean, Stock!Due
  <2>3. ASSUME NEW t \in Session, job'[t] # None
        PROVE  (Serving(job[t]) /\ Standing(t, job[t]))'
    <3>1. PICK q \in Stock!Job : q = job'[t] /\ q = job[t] /\ q # None
      BY <1>4, <2>3 DEF Stock!vars, DriftInv, SessionTypes
    <3>2. Serving(q) /\ Standing(t, q)
      BY <3>1 DEF DriftInv
    <3>3. Standing(t, q)'
      BY <1>4, <3>1, <3>2, StandsWithout DEF Stock!vars, DriftInv
    <3> QED
      BY <3>1, <3>2, <3>3 DEF Serving, Selecting
  <2>4. Stock!DriftNeedsStaleWrite'
    BY <1>4, <2>2 DEF Stock!vars, DriftInv, Stock!DriftNeedsStaleWrite
  <2>5. \A i \in Item : balance'[i] # None /\ Clean(i)' => AddsUp(balance'[i])
    BY <1>4, <2>2 DEF Stock!vars, DriftInv
  <2> QED
    BY <2>1, <2>3, <2>4, <2>5 DEF DriftInv
<1> QED
  BY <1>1, <1>2, <1>3, <1>4 DEF Stock!Next

(***************************************************************************)
(* However many requests on a product overlap, are refused, fail in a      *)
(* deadlock or are cut off, a column of a balance departs from what was    *)
(* committed only after it, or for quantity_available any of the three,    *)
(* was written from a value another request had changed meanwhile.         *)
(***************************************************************************)
THEOREM DriftIsStale ==
  ASSUME Stock!StockBounds
  PROVE  Stock!Spec => []DriftNeedsStaleWrite
<1>1. Stock!Init => DriftInv
  BY InitDrifts
<1>2. DriftInv /\ [Stock!Next]_Stock!vars => DriftInv'
  BY StepDrifts
<1>3. DriftInv => DriftNeedsStaleWrite
  BY DEF DriftInv, DriftNeedsStaleWrite, ComputedFrom, Column, Due, Stock!DriftNeedsStaleWrite,
         Stock!ComputedFrom, Stock!Column, Stock!Due
<1> QED
  BY <1>1, <1>2, <1>3, PTL DEF Stock!Spec
-----------------------------------------------------------------------------
(* Requests that do not wait in a circle.                                  *)

\* A row with a balance comes before one without, and two of a kind in the order of their ids.
InOrder(rows, i, k) ==
    IF (rows[i] = None) # (rows[k] = None) THEN rows[k] = None ELSE i < k

\* What a session has locked is written, and comes before what it has still to lock.
Orderly(s, j) ==
    /\ j.selects # <<>> => \A i \in Item : lock[i] # s
    /\ j.request.kind # "complete" =>
          \A i \in Item : lock[i] = s =>
              /\ i \in DOMAIN j.after /\ i \notin j.queue
              /\ \A k \in j.queue : InOrder(j.view, i, k)

OrderInv ==
    \A s \in Session : IF job[s] = None THEN \A i \in Item : lock[i] # s ELSE Orderly(s, job[s])

\* Of any rows one comes first.
LEMMA FirstInOrder ==
  ASSUME NEW Q \in SUBSET Nat, Q # {}, NEW rows
  PROVE  \E i \in Q : \A k \in Q \ {i} : InOrder(rows, i, k)
<1> DEFINE P == {i \in Q : rows[i] # None}
<1>1. P \in SUBSET Nat /\ \A i : i \in P <=> i \in Q /\ rows[i] # None
  OBVIOUS
<1> HIDE DEF P
<1>2. CASE P = {}
  <2>1. PICK i \in Q : \A k \in Q : i <= k
    BY SmallestNumber
  <2>2. \A k \in Q : rows[k] = None
    BY <1>1, <1>2
  <2> QED
    BY <2>1, <2>2 DEF InOrder
<1>3. CASE P # {}
  <2>1. PICK i \in P : \A k \in P : i <= k
    BY <1>1, <1>3, SmallestNumber
  <2>2. i \in Q /\ rows[i] # None /\ i \in Nat
    BY <1>1
  <2>3. ASSUME NEW k \in Q \ {i}
        PROVE  InOrder(rows, i, k)
    <3>1. k \in Nat /\ k # i
      OBVIOUS
    <3>2. rows[k] # None => i <= k
      BY <1>1, <2>1
    <3> QED
      BY <2>2, <3>1, <3>2 DEF InOrder
  <2> QED
    BY <2>2, <2>3
<1> QED
  BY <1>2, <1>3

\* The row a request that completes nothing locks next is the first of those it still has to.
LEMMA NextRowFirst ==
  ASSUME Stock!StockBounds, NEW j \in Stock!Job, j.queue # {}, j.request.kind # "complete"
  PROVE  /\ Stock!NextRow(j) \in j.queue
         /\ \A k \in j.queue \ {Stock!NextRow(j)} : InOrder(j.view, Stock!NextRow(j), k)
<1>1. j.queue \in SUBSET Nat
  BY ViewsTyped DEF Stock!StockBounds
<1>2. \A i, k : Stock!LockedBefore(j, i, k) <=> InOrder(j.view, i, k)
  BY DEF Stock!LockedBefore, InOrder
<1>3. \E i \in j.queue : \A k \in j.queue \ {i} : Stock!LockedBefore(j, i, k)
  BY <1>1, <1>2, FirstInOrder
<1>4. /\ Stock!NextRow(j) \in j.queue
      /\ \A k \in j.queue \ {Stock!NextRow(j)} : Stock!LockedBefore(j, Stock!NextRow(j), k)
  BY <1>3 DEF Stock!NextRow
<1> QED
  BY <1>2, <1>4

\* A session goes on, or ends and frees its rows.
LEMMA OrderMoves ==
  ASSUME SessionTypes, OrderInv, NEW s \in Session, NEW q \in Stock!Job \cup {None},
         job' = [job EXCEPT ![s] = q],
         \A i \in Item : \A t \in Session \ {s} : lock'[i] = t => lock[i] = t,
         IF q = None THEN \A i \in Item : lock'[i] # s ELSE Orderly(s, q)'
  PROVE  OrderInv'
<1>1. ASSUME NEW t \in Session, NEW j, j = job'[t]
      PROVE  IF j = None THEN \A i \in Item : lock'[i] # t ELSE Orderly(t, j)'
  <2>1. CASE t = s
    BY <1>1, <2>1 DEF SessionTypes
  <2>2. CASE t # s
    <3>1. j = job[t]
      BY <1>1, <2>2 DEF SessionTypes
    <3>2. \A i \in Item : lock'[i] = t => lock[i] = t
      BY <2>2
    <3> QED
      BY <3>1, <3>2 DEF OrderInv, Orderly, InOrder
  <2> QED
    BY <2>1, <2>2
<1> QED
  BY <1>1 DEF OrderInv, Orderly, InOrder

LEMMA EndsInOrder ==
  ASSUME Stock!StockBounds, SessionTypes, OrderInv, NEW s \in Session, Stock!Ended(s)
  PROVE  OrderInv'
<1>1. /\ job' = [job EXCEPT ![s] = None]
      /\ lock' = [i \in Item |-> IF lock[i] = s THEN None ELSE lock[i]]
  BY DEF Stock!Ended
<1>2. \A i \in Item : /\ lock'[i] # s
                      /\ \A t \in Session \ {s} : lock'[i] = t => lock[i] = t
  BY <1>1 DEF Stock!StockBounds
<1> QED
  BY <1>1, <1>2, OrderMoves

LEMMA BeginsInOrder ==
  ASSUME SessionTypes, OrderInv, NEW s \in Session, NEW r \in Stock!Request, Stock!Begin(s, r)
  PROVE  OrderInv'
<1>1. PICK q : q = [request |-> r, selects |-> Stock!Selects(r), view |-> <<>>, after |-> <<>>,
                    queue |-> {}, checked |-> r.kind # "reserve"]
  OBVIOUS
<1>2. job[s] = None /\ job' = [job EXCEPT ![s] = q] /\ lock' = lock
  BY <1>1 DEF Stock!Begin, Stock!Idle
<1>3. q \in Stock!Job
  <2>1. /\ <<>> \in [{} -> Stock!BalanceRow \cup {None}] /\ <<>> \in [{} -> Stock!BalanceRow]
        /\ {} \in SUBSET Item
    OBVIOUS
  <2>2. /\ <<>> \in UNION {[D -> Stock!BalanceRow \cup {None}] : D \in SUBSET Item}
        /\ <<>> \in UNION {[D -> Stock!BalanceRow] : D \in SUBSET Item}
    BY <2>1
  <2> QED
    BY <1>1, <2>2, SelectsTyped DEF Stock!Job
<1>4. \A i \in Item : lock'[i] # s
  BY <1>2 DEF OrderInv
<1>5. Orderly(s, q)'
  BY <1>4 DEF Orderly
<1> QED
  BY <1>2, <1>3, <1>4, <1>5, OrderMoves

LEMMA SelectsInOrder ==
  ASSUME Stock!StockBounds, SessionTypes, SessionTypes', OrderInv, NEW s \in Session, Stock!Select(s)
  PROVE  OrderInv'
<1>1. CASE Stock!Rollback(s)
  BY <1>1, EndsInOrder DEF Stock!Rollback
<1>2. CASE ~Stock!Rollback(s)
  <2>1. job[s] # None /\ job[s].selects # <<>>
    BY DEF Stock!Select, Stock!Idle
  <2>2. PICK q : job' = [job EXCEPT ![s] = q] /\ lock' = lock
    BY <1>2 DEF Stock!Select
  <2>3. q \in Stock!Job \cup {None}
    BY <2>2 DEF SessionTypes
  <2>4. \A i \in Item : lock'[i] # s
    BY <2>1, <2>2 DEF OrderInv, Orderly
  <2>5. Orderly(s, q)'
    BY <2>4 DEF Orderly
  <2> QED
    BY <2>2, <2>3, <2>4, <2>5, OrderMoves
<1> QED
  BY <1>1, <1>2

LEMMA ChecksInOrder ==
  ASSUME Stock!StockBounds, SessionTypes, OrderInv, NEW s \in Session, Stock!CheckInstance(s)
  PROVE  OrderInv'
<1>1. CASE Stock!Rollback(s)
  BY <1>1, EndsInOrder DEF Stock!Rollback
<1>2. CASE ~Stock!Rollback(s)
  <2>1. PICK j \in Stock!Job : j = job[s] /\ j # None
    BY DEF Stock!CheckInstance, Stock!Idle, SessionTypes
  <2> DEFINE q == [j EXCEPT !.checked = TRUE]
  <2>2. /\ q \in Stock!Job
        /\ q.request = j.request /\ q.selects = j.selects /\ q.view = j.view
        /\ q.after = j.after /\ q.queue = j.queue
    BY DEF Stock!Job
  <2>3. job' = [job EXCEPT ![s] = q] /\ lock' = lock
    BY <1>2, <2>1 DEF Stock!CheckInstance, SessionTypes
  <2> HIDE DEF q
  <2>4. Orderly(s, j) /\ q # None
    BY <2>1, <2>2 DEF OrderInv, Stock!StockBounds
  <2>5. Orderly(s, q)'
    BY <2>2, <2>3, <2>4 DEF Orderly, InOrder
  <2> QED
    BY <2>2, <2>3, <2>4, <2>5, OrderMoves
<1> QED
  BY <1>1, <1>2

\* A flush locks the first of the rows to be locked.
LEMMA FlushesInOrder ==
  ASSUME Stock!StockBounds, DriftInv, OrderInv, NEW s \in Session, Stock!Flush(s)
  PROVE  OrderInv'
<1>1. CASE Stock!Rollback(s)
  BY <1>1, EndsInOrder DEF Stock!Rollback, DriftInv
<1>2. CASE ~Stock!Rollback(s)
  <2>1. PICK j \in Stock!Job : j = job[s] /\ j # None /\ j.queue # {}
    BY DEF Stock!Flush, Stock!Idle, DriftInv, SessionTypes
  <2>2. PICK n : n = Stock!NextRow(j)
    OBVIOUS
  <2> DEFINE q == [j EXCEPT !.queue = j.queue \ {n}]
  <2>3. /\ job' = [job EXCEPT ![s].queue = @ \ {n}] /\ lock' = [lock EXCEPT ![n] = s]
        /\ lock[n] = None
    BY <1>2, <2>1, <2>2 DEF Stock!Flush
  <2>4. /\ q \in Stock!Job
        /\ q.request = j.request /\ q.selects = j.selects /\ q.view = j.view
        /\ q.after = j.after /\ q.queue = j.queue \ {n}
    BY DEF Stock!Job
  <2>5. job' = [job EXCEPT ![s] = q]
    BY <2>1, <2>3 DEF DriftInv, SessionTypes
  <2> HIDE DEF q
  <2>6. Orderly(s, j) /\ Serving(j) /\ j.selects = <<>> /\ q # None
    BY <2>1, <2>4 DEF OrderInv, DriftInv, Serving, Stock!StockBounds
  <2>7. lock \in [Item -> Session \cup {None}]
    BY DEF DriftInv, SessionTypes
  <2>8. \A i \in Item : \A t \in Session \ {s} : lock'[i] = t => lock[i] = t
    BY <2>3, <2>7
  <2>9. ASSUME NEW i \in Item, lock'[i] = s, j.request.kind # "complete"
        PROVE  /\ i \in DOMAIN j.after /\ i \notin q.queue
               /\ \A k \in q.queue : InOrder(j.view, i, k)
    <3>1. CASE i = n
      <4>1. n \in j.queue /\ \A k \in j.queue \ {n} : InOrder(j.view, n, k)
        BY <2>1, <2>2, <2>9, NextRowFirst
      <4> QED
        BY <2>4, <2>6, <3>1, <4>1 DEF Serving
    <3>2. CASE i # n
      <4>1. lock[i] = s
        BY <2>3, <2>7, <2>9, <3>2
      <4> QED
        BY <2>4, <2>6, <2>9, <4>1 DEF Orderly
    <3> QED
      BY <3>1, <3>2
  <2>10. Orderly(s, q)'
    BY <2>4, <2>6, <2>9 DEF Orderly, InOrder
  <2> QED
    BY <2>4, <2>5, <2>6, <2>8, <2>10, OrderMoves DEF DriftInv
<1> QED
  BY <1>1, <1>2

\* Every step keeps the order.
LEMMA StepInOrder ==
  ASSUME Stock!StockBounds, DriftInv, DriftInv', OrderInv, [Stock!Next]_Stock!vars
  PROVE  OrderInv'
<1>1. SessionTypes /\ SessionTypes'
  BY DEF DriftInv
<1>2. ASSUME NEW s \in Session, NEW r \in Stock!Request, Stock!Begin(s, r)
      PROVE  OrderInv'
  BY <1>1, <1>2, BeginsInOrder
<1>3. ASSUME NEW s \in Session, Stock!Serve(s) \/ Stock!Disconnect(s)
      PROVE  OrderInv'
  <2>1. Stock!Rollback(s) \/ Stock!Commit(s) => OrderInv'
    BY <1>1, EndsInOrder DEF Stock!Rollback, Stock!Commit
  <2> QED
    BY <1>1, <1>3, <2>1, SelectsInOrder, ChecksInOrder, FlushesInOrder
    DEF Stock!Serve, Stock!FailDeadlocked, Stock!Disconnect
<1>4. CASE UNCHANGED Stock!vars
  BY <1>4 DEF Stock!vars, OrderInv, Orderly, InOrder
<1> QED
  BY <1>2, <1>3, <1>4 DEF Stock!Next

\* Whoever waits for a session in order waits for a row that comes before the one it waits for.
LEMMA WaitsInOrder ==
  ASSUME Stock!StockBounds, DriftInv, OrderInv, NEW t \in Session, NEW u \in Session,
         WaitsFor(t, u), job[u] # None, job[u].queue # {},
         \A s \in {t, u} : job[s].request.kind # "complete" /\ ~LateInsert(job[s])
  PROVE  InOrder(balance, NextRow(job[t]), NextRow(job[u]))
<1>1. PICK j \in Stock!Job, q \in Stock!Job : j = job[t] /\ q = job[u]
  BY DEF DriftInv, SessionTypes, WaitsFor
<1>2. PICK i, k : i = NextRow(j) /\ k = NextRow(q)
  OBVIOUS
<1>3. i = Stock!NextRow(j) /\ k = Stock!NextRow(q)
  BY <1>2 DEF NextRow, LockedBefore, Earlier, Stock!NextRow, Stock!LockedBefore, Stock!Earlier
<1>4. i \in j.queue /\ k \in q.queue
  BY <1>1, <1>3, NextRowFirst DEF WaitsFor
<1>5. i \in Item /\ k \in Item
  BY <1>4, ViewsTyped
<1>6. lock[i] = u
  BY <1>1, <1>2 DEF WaitsFor
<1>7. /\ i \in DOMAIN q.after /\ i \notin q.queue
      /\ InOrder(q.view, i, k)
  BY <1>1, <1>4, <1>5, <1>6 DEF OrderInv, Orderly
<1>8. Serving(q) /\ Standing(u, q)
  BY <1>1 DEF DriftInv
<1>9. i \in DOMAIN q.view /\ k \in DOMAIN q.view
  BY <1>4, <1>7, <1>8 DEF Serving
<1>10. (q.view[i] = None) <=> (balance[i] = None)
  BY <1>7, <1>8, <1>9 DEF Standing
<1>11. (q.view[k] = None) <=> (balance[k] = None)
  BY <1>1, <1>2, <1>8, <1>9 DEF Standing, LateInsert
<1> QED
  BY <1>1, <1>2, <1>7, <1>10, <1>11 DEF InOrder

(***************************************************************************)
(* Whatever requests overlap, if some of them wait for each other in a     *)
(* circle, one in a circle completes a production order, or is to insert a *)
(* row another one inserted after it looked: postings and reservations     *)
(* whose rows are there never deadlock, for any number of sessions and     *)
(* rows.                                                                   *)
(***************************************************************************)
THEOREM DeadlockIsDisorder ==
  ASSUME Stock!StockBounds
  PROVE  Stock!Spec => []DeadlockNeedsDisorder
<1>1. Stock!Init => DriftInv /\ OrderInv
  <2>1. Stock!Init => OrderInv
    BY DEF Stock!Init, OrderInv, Stock!StockBounds
  <2> QED
    BY <2>1, InitDrifts
<1>2. DriftInv /\ OrderInv /\ [Stock!Next]_Stock!vars => (DriftInv /\ OrderInv)'
  BY StepDrifts, StepInOrder
<1>3. DriftInv /\ OrderInv => DeadlockNeedsDisorder
  <2> SUFFICES ASSUME DriftInv, OrderInv, NEW s \in DOMAIN job, InDeadlock(s),
                      \A t \in DOMAIN job : InDeadlock(t) =>
                          job[t].request.kind # "complete" /\ ~LateInsert(job[t])
               PROVE  FALSE
    BY DEF DeadlockNeedsDisorder
  <2>1. PICK circle \in SUBSET DOMAIN job :
          /\ s \in circle
          /\ \A t \in circle : /\ \E u \in circle : WaitsFor(t, u)
                               /\ \E u \in circle : WaitsFor(u, t)
    BY DEF InDeadlock
  <2>2. \A t \in circle : InDeadlock(t) /\ t \in Session
    BY <2>1 DEF InDeadlock, DriftInv, SessionTypes
  <2>3. \A t \in circle :
          /\ job[t] # None /\ job[t].queue # {}
          /\ job[t].request.kind # "complete" /\ ~LateInsert(job[t])
    BY <2>1, <2>2 DEF WaitsFor
  <2> DEFINE Awaited == {NextRow(job[t]) : t \in circle}
  <2>4. Awaited \in SUBSET Nat /\ Awaited # {}
    <3>1. ASSUME NEW t \in circle
          PROVE  NextRow(job[t]) \in Nat
      <4>1. PICK j \in Stock!Job : j = job[t]
        BY <2>2, <2>3 DEF DriftInv, SessionTypes
      <4>2. Stock!NextRow(j) \in j.queue
        BY <2>3, <4>1, NextRowFirst
      <4>3. NextRow(j) = Stock!NextRow(j)
        BY DEF NextRow, LockedBefore, Earlier, Stock!NextRow, Stock!LockedBefore, Stock!Earlier
      <4>4. j.queue \in SUBSET Nat
        BY ViewsTyped DEF Stock!StockBounds
      <4> QED
        BY <4>1, <4>2, <4>3, <4>4
    <3> QED
      BY <2>1, <3>1
  <2>5. PICK i \in Awaited : \A k \in Awaited \ {i} : InOrder(balance, i, k)
    <3> HIDE DEF Awaited
    <3> QED
      BY <2>4, FirstInOrder
  <2>6. PICK u \in circle : i = NextRow(job[u])
    OBVIOUS
  <2>7. PICK t \in circle : WaitsFor(t, u)
    BY <2>1
  <2>8. PICK k \in Awaited : k = NextRow(job[t])
    OBVIOUS
  <2>9. InOrder(balance, k, i)
    BY <2>2, <2>3, <2>6, <2>7, <2>8, WaitsInOrder
  <2>10. k \in Nat /\ i \in Nat /\ (k # i => InOrder(balance, i, k))
    BY <2>4, <2>5, <2>8
  <2> QED
    BY <2>9, <2>10 DEF InOrder
<1> QED
  BY <1>1, <1>2, <1>3, PTL DEF Stock!Spec
=============================================================================
