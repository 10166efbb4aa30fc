------------------------ MODULE CertificateListProofs ------------------------
(***************************************************************************)
(* Proofs about the list of certificates: rows, the pages of the reader    *)
(* and the page that refreshes.                                            *)
(***************************************************************************)
EXTENDS CertificateList, TLAPS

(***************************************************************************)
(* A row belongs to one domain; what a request knows of the rows is never  *)
(* wrong, only incomplete, and nothing is missing when it answers.         *)
(***************************************************************************)
RowsAreOwn == \A d, e \in Domains : row[d] = row[e] /\ row[d] # NoRow => d = e

Knows(c) ==
    /\ call[c].pc \in {"create", "answer"} =>
         \A d \in Seen(c) : call[c].states[d] \in {NoRow, row[d]}
    /\ call[c].pc = "answer" => \A d \in Seen(c) : call[c].states[d] # NoRow

RowsInv == RowsAreOwn /\ \A c \in Calls : Knows(c)

-----------------------------------------------------------------------------
(* What the steps of a request do to the requests.                         *)

Others(c) == \A b \in Calls \ {c} : call'[b] = call[b]

(* A request that was not made is one.                                     *)
LEMMA FreeType == Free \in Call /\ Free.pc = "idle" /\ Unknown \in [Domains -> Gone..MaxExpiry]
<1>1. [d \in Domains |-> NoRow] \in [Domains -> Ids \cup {NoRow}]
  OBVIOUS
<1>2. Unknown \in [Domains -> Gone..MaxExpiry]
  BY ListAssumption DEF Unknown, Gone
<1> QED
  BY <1>1, <1>2 DEF Free, Call

(* The request leaves with the cloud as it is.                             *)
LEMMA AskEffect ==
  ASSUME TypeOK, NEW c \in Calls, Ask(c)
  PROVE  /\ call' \in [Calls -> Call] /\ Others(c)
         /\ call'[c].pc = "query" /\ call'[c].snapshot = cloud
<1> DEFINE r == [Free EXCEPT !.pc = "query", !.snapshot = cloud]
<1>1. call \in [Calls -> Call] /\ cloud \in [Domains -> Gone..MaxExpiry]
  BY DEF TypeOK
<1>2. Free \in Call
  BY FreeType
<1>3. r \in Call /\ r.pc = "query" /\ r.snapshot = cloud
  BY <1>1, <1>2 DEF Call
<1>4. call' = [call EXCEPT ![c] = r]
  BY DEF Ask
<1> HIDE DEF r
<1>5. call' \in [Calls -> Call] /\ call'[c] = r /\ Others(c)
  BY <1>1, <1>3, <1>4 DEF Others
<1> QED
  BY <1>3, <1>5

(* The request is over; that of the reader leaves its observation behind.  *)
LEMMA EndEffect ==
  ASSUME TypeOK, NEW c \in Calls, End(c)
  PROVE  /\ call' \in [Calls -> Call] /\ Others(c)
         /\ call'[c].pc = "idle"
         /\ c = Reader /\ reader'.cursor # NoRow
            => call'[c].snapshot = call[c].snapshot
<1>1. call \in [Calls -> Call]
  BY DEF TypeOK
<1>4. Free \in Call /\ Free.pc = "idle"
  BY FreeType
<1> DEFINE r == [Free EXCEPT !.snapshot = call[c].snapshot]
<1>5. call[c].snapshot \in [Domains -> Gone..MaxExpiry]
  BY <1>1 DEF Call
<1>6. r \in Call /\ r.pc = "idle" /\ r.snapshot = call[c].snapshot
  BY <1>4, <1>5 DEF Call
<1> HIDE DEF r
<1>7. call' = [call EXCEPT ![c] = IF c = Reader /\ reader'.cursor # NoRow
                                  THEN r ELSE Free]
  BY DEF End, r
<1>8. call'[c] = IF c = Reader /\ reader'.cursor # NoRow THEN r ELSE Free
  BY <1>1, <1>7
<1>9. call' \in [Calls -> Call] /\ Others(c)
  BY <1>1, <1>4, <1>6, <1>7 DEF Others
<1> QED
  BY <1>4, <1>6, <1>8, <1>9

(* The rows of the domains that were seen are read.                        *)
LEMMA QueryEffect ==
  ASSUME TypeOK, NEW c \in Calls, Query(c)
  PROVE  /\ call' \in [Calls -> Call] /\ Others(c)
         /\ call'[c].pc = "create" /\ call'[c].snapshot = call[c].snapshot
         /\ \A d \in Seen(c) : call'[c].states[d] = row[d]
<1> DEFINE known == [d \in Domains |-> IF d \in Seen(c) THEN row[d] ELSE NoRow]
           r == [call[c] EXCEPT !.pc = "create", !.states = known]
<1>1. call \in [Calls -> Call] /\ row \in [Domains -> Ids \cup {NoRow}]
  BY DEF TypeOK
<1>2. known \in [Domains -> Ids \cup {NoRow}]
  BY <1>1
<1>3. \A d \in Seen(c) : known[d] = row[d]
  BY DEF Seen
<1> HIDE DEF known
<1>4. call[c] \in Call
  BY <1>1
<1>5. /\ r \in Call /\ r.pc = "create" /\ r.snapshot = call[c].snapshot
      /\ r.states = known
  BY <1>2, <1>4 DEF Call
<1>6. call' = [call EXCEPT ![c] = r]
  BY <1>1 DEF Query, known
<1> HIDE DEF r
<1>7. call'[c] = r /\ call' \in [Calls -> Call] /\ Others(c)
  BY <1>1, <1>5, <1>6 DEF Others
<1> QED
  BY <1>3, <1>5, <1>7

(* Nothing is missing, a row is created, or another request was faster.    *)
LEMMA CreateEffect ==
  ASSUME TypeOK, NEW c \in Calls, Create(c)
  PROVE  /\ call' \in [Calls -> Call] /\ Others(c)
         /\ row' \in [Domains -> Ids \cup {NoRow}]
         /\ call'[c].snapshot = call[c].snapshot
         /\ \/ /\ Missing(c) = {} /\ UNCHANGED row
               /\ call'[c].states = call[c].states /\ call'[c].pc = "answer"
            \/ \E d \in Missing(c) :
                 /\ row[d] = NoRow
                 /\ \E id \in {i \in Ids : \A e \in Domains : row[e] # i} :
                      /\ row' = [row EXCEPT ![d] = id]
                      /\ call'[c].states = [call[c].states EXCEPT ![d] = id]
                 /\ call'[c].pc = "create"
            \/ \E d \in Missing(c) :
                 /\ row[d] # NoRow /\ UNCHANGED row
                 /\ call'[c].states = [call[c].states EXCEPT ![d] = row[d]]
                 /\ call'[c].pc = IF Missing(c) = {d} THEN "answer" ELSE "create"
<1>1. /\ call \in [Calls -> Call] /\ row \in [Domains -> Ids \cup {NoRow}]
      /\ call[c].pc = "create"
  BY DEF TypeOK, Create
<1>2. call[c] \in Call /\ Missing(c) \subseteq Domains
  BY <1>1 DEF Missing, Seen
<1>3. CASE Missing(c) = {}
  <2> DEFINE r == [call[c] EXCEPT !.pc = "answer"]
  <2>1. call' = [call EXCEPT ![c] = r] /\ UNCHANGED row
    BY <1>1, <1>3 DEF Create
  <2>2. /\ r \in Call /\ r.pc = "answer" /\ r.snapshot = call[c].snapshot
        /\ r.states = call[c].states
    BY <1>2 DEF Call
  <2> HIDE DEF r
  <2>3. call'[c] = r /\ call' \in [Calls -> Call] /\ Others(c)
    BY <1>1, <2>1, <2>2 DEF Others
  <2> QED
    BY <1>1, <1>3, <2>1, <2>2, <2>3
<1>4. ASSUME NEW d \in Missing(c), row[d] = NoRow,
             NEW id \in {i \in Ids : \A e \in Domains : row[e] # i},
             row' = [row EXCEPT ![d] = id],
             call' = [call EXCEPT ![c].states[d] = id]
      PROVE  /\ call' \in [Calls -> Call] /\ Others(c)
             /\ row' \in [Domains -> Ids \cup {NoRow}]
             /\ call'[c].snapshot = call[c].snapshot /\ call'[c].pc = "create"
             /\ call'[c].states = [call[c].states EXCEPT ![d] = id]
  <2> DEFINE r == [call[c] EXCEPT !.states = [call[c].states EXCEPT ![d] = id]]
  <2>1. call' = [call EXCEPT ![c] = r]
    BY <1>1, <1>4
  <2>2. [call[c].states EXCEPT ![d] = id] \in [Domains -> Ids \cup {NoRow}]
    BY <1>2 DEF Call
  <2>3. /\ r \in Call /\ r.pc = call[c].pc /\ r.snapshot = call[c].snapshot
        /\ r.states = [call[c].states EXCEPT ![d] = id]
    BY <1>2, <2>2 DEF Call
  <2> HIDE DEF r
  <2>4. call'[c] = r /\ call' \in [Calls -> Call] /\ Others(c)
    BY <1>1, <2>1, <2>3 DEF Others
  <2>5. row' \in [Domains -> Ids \cup {NoRow}]
    BY <1>1, <1>4
  <2> QED
    BY <1>1, <2>3, <2>4, <2>5
<1>5. ASSUME NEW d \in Missing(c), row[d] # NoRow, UNCHANGED row,
             call' = [call EXCEPT ![c].states[d] = Conflict(d),
                                  ![c].pc = IF Missing(c) = {d} THEN "answer" ELSE @]
      PROVE  /\ call' \in [Calls -> Call] /\ Others(c)
             /\ call'[c].snapshot = call[c].snapshot
             /\ call'[c].pc = IF Missing(c) = {d} THEN "answer" ELSE "create"
             /\ call'[c].states = [call[c].states EXCEPT ![d] = row[d]]
  <2> DEFINE p == IF Missing(c) = {d} THEN "answer" ELSE "create"
             s == [call[c].states EXCEPT ![d] = row[d]]
             r == [call[c] EXCEPT !.states = s, !.pc = p]
  <2>1. call' = [call EXCEPT ![c] = r]
    BY <1>1, <1>2, <1>5 DEF Conflict, Call
  <2>2. s \in [Domains -> Ids \cup {NoRow}]
    BY <1>1, <1>2 DEF Call
  <2>3. p \in {"create", "answer"}
    OBVIOUS
  <2> HIDE DEF p, s
  <2>4. /\ r \in Call /\ r.pc = p /\ r.snapshot = call[c].snapshot /\ r.states = s
    BY <1>2, <2>2, <2>3 DEF Call
  <2> HIDE DEF r
  <2>5. call'[c] = r /\ call' \in [Calls -> Call] /\ Others(c)
    BY <1>1, <2>1, <2>4 DEF Others
  <2> QED
    BY <2>4, <2>5 DEF p, s
<1>6. CASE Missing(c) # {}
  <2>1. PICK d \in Missing(c) :
          IF row[d] = NoRow
          THEN \E id \in {i \in Ids : \A e \in Domains : row[e] # i} :
                 /\ row' = [row EXCEPT ![d] = id]
                 /\ call' = [call EXCEPT ![c].states[d] = id]
          ELSE /\ call' = [call EXCEPT ![c].states[d] = Conflict(d),
                                       ![c].pc = IF Missing(c) = {d} THEN "answer" ELSE @]
               /\ UNCHANGED row
    BY <1>6 DEF Create
  <2>2. CASE row[d] = NoRow
    <3>1. PICK id \in {i \in Ids : \A e \in Domains : row[e] # i} :
            /\ row' = [row EXCEPT ![d] = id]
            /\ call' = [call EXCEPT ![c].states[d] = id]
      BY <2>1, <2>2
    <3>2. /\ call' \in [Calls -> Call] /\ Others(c)
          /\ row' \in [Domains -> Ids \cup {NoRow}]
          /\ call'[c].snapshot = call[c].snapshot /\ call'[c].pc = "create"
          /\ call'[c].states = [call[c].states EXCEPT ![d] = id]
      BY <2>2, <3>1, <1>4
    <3> QED BY <2>2, <3>1, <3>2
  <2>3. CASE row[d] # NoRow
    <3>1. /\ UNCHANGED row
          /\ call' = [call EXCEPT ![c].states[d] = Conflict(d),
                                  ![c].pc = IF Missing(c) = {d} THEN "answer" ELSE @]
      BY <2>1, <2>3
    <3>2. /\ call' \in [Calls -> Call] /\ Others(c)
          /\ call'[c].snapshot = call[c].snapshot
          /\ call'[c].pc = IF Missing(c) = {d} THEN "answer" ELSE "create"
          /\ call'[c].states = [call[c].states EXCEPT ![d] = row[d]]
      BY <2>3, <3>1, <1>5
    <3> QED BY <1>1, <2>3, <3>1, <3>2
  <2> QED
    BY <2>2, <2>3
<1> QED
  BY <1>3, <1>6

-----------------------------------------------------------------------------
(* Types.                                                                  *)

WebState == [data : [Domains -> Gone..MaxExpiry], error : BOOLEAN,
             loading : BOOLEAN, told : BOOLEAN]

(* A reader that starts is one.                                            *)
LEMMA FreshType == Fresh \in ReaderState
  BY DEF Fresh, ReaderState

(* The four states of the page that fetchData sets are in its type.        *)
LEMMA WebTypes ==
  ASSUME web \in WebState, NEW data \in [Domains -> Gone..MaxExpiry]
  PROVE  Started \in WebState /\ Succeeded(data) \in WebState /\ Failed \in WebState
  BY FreeType DEF Started, Succeeded, Failed, WebState

(* A page is given: the reader keeps its type.                             *)
LEMMA GiveType ==
  ASSUME TypeOK, NEW page, NEW next \in Ids \cup {NoRow}, Give(page, next)
  PROVE  /\ reader' \in ReaderState
         /\ reader'.cursor = next /\ reader'.done = (next = NoRow)
         /\ reader'.changed = reader.changed /\ reader'.disturbed = reader.disturbed
         /\ \A d \in Domains : reader'.got[d] = IF d \notin page THEN reader.got[d]
                                                ELSE IF reader.got[d] = 0 THEN 1 ELSE 2
<1> DEFINE g == [d \in Domains |-> IF d \notin page THEN reader.got[d]
                                   ELSE IF reader.got[d] = 0 THEN 1 ELSE 2]
<1>1. reader \in ReaderState
  BY DEF TypeOK
<1>2. g \in [Domains -> 0..2]
  BY <1>1 DEF ReaderState
<1>3. reader' = [reader EXCEPT !.got = g, !.done = (next = NoRow), !.cursor = next]
  BY DEF Give
<1>4. \A d \in Domains : g[d] = IF d \notin page THEN reader.got[d]
                                ELSE IF reader.got[d] = 0 THEN 1 ELSE 2
  OBVIOUS
<1> HIDE DEF g
<1>5. reader'.got = g
  BY <1>1, <1>3 DEF ReaderState
<1> QED
  BY <1>1, <1>2, <1>3, <1>4, <1>5 DEF ReaderState

(* The two answers of AnswerReader that are a page, seen from outside.     *)
LEMMA PageEffect ==
  ASSUME TypeOK, AnswerReader
  PROVE  \/ Refuse(Reader)
         \/ /\ End(Reader) /\ UNCHANGED web
            /\ reader.cursor = NoRow \/ AtCursor # {}
            /\ \/ Give(Rest, NoRow)
               \/ \E last \in Rest :
                     Give({d \in Rest : ~Before(Reader, last, d)},
                          call[Reader].states[last])
  BY DEF AnswerReader

(* Every step keeps the types.                                             *)
LEMMA ListTypes ==
  ASSUME TypeOK, [Next]_vars  PROVE TypeOK'
<1>1. /\ cloud \in [Domains -> Gone..MaxExpiry]
      /\ row \in [Domains -> Ids \cup {NoRow}]
      /\ call \in [Calls -> Call]
      /\ reader \in ReaderState /\ web \in WebState
      /\ changes \in 0..MaxChanges /\ faults \in 0..MaxFaults
  BY DEF TypeOK, WebState
<1>2. Reader \in Calls
  BY DEF Calls
<1> SUFFICES /\ cloud' \in [Domains -> Gone..MaxExpiry]
             /\ row' \in [Domains -> Ids \cup {NoRow}]
             /\ call' \in [Calls -> Call]
             /\ reader' \in ReaderState /\ web' \in WebState
             /\ changes' \in 0..MaxChanges /\ faults' \in 0..MaxFaults
  BY DEF TypeOK, WebState
<1>3. ASSUME NEW c \in Calls, Refuse(c)
      PROVE  call' \in [Calls -> Call] /\ reader' \in ReaderState /\ web' \in WebState
  BY <1>1, <1>3, FreshType, FreeType, WebTypes, EndEffect DEF Refuse
<1>4. ASSUME NEW c \in Calls, Ask(c) PROVE TypeOK'
  <2>1. UNCHANGED <<cloud, row, changes, faults>> /\ call' \in [Calls -> Call]
    BY <1>4, AskEffect DEF Ask
  <2>2. web' \in WebState
    BY <1>1, <1>4, FreeType, WebTypes DEF Ask
  <2>3. reader' \in ReaderState
    <3>1. CASE UNCHANGED reader
      BY <1>1, <3>1
    <3>2. CASE reader' = Fresh
      BY <3>2, FreshType
    <3>3. ASSUME NEW b \in BOOLEAN,
                 reader' = [reader EXCEPT !.disturbed = b]
          PROVE  reader' \in ReaderState
      BY <1>1, <3>3 DEF ReaderState
    <3>4. CASE c = Reader /\ reader.cursor # NoRow
      <4> DEFINE b == reader.disturbed \/ \E d \in Domains :
                         row[d] = reader.cursor /\ call[c].snapshot[d] # cloud[d]
      <4>1. b \in BOOLEAN
        OBVIOUS
      <4>2. reader' = [reader EXCEPT !.disturbed = b]
        BY <1>4, <3>4 DEF Ask
      <4> HIDE DEF b
      <4> QED BY <4>1, <4>2, <3>3
    <3> QED BY <1>4, <3>1, <3>2, <3>4 DEF Ask
  <2> QED
    BY <1>1, <2>1, <2>2, <2>3 DEF TypeOK, WebState
<1>5. ASSUME NEW c \in Calls, Handle(c) PROVE TypeOK'
  <2>1. CASE Query(c)
    BY <1>1, <2>1, QueryEffect DEF Query, TypeOK, WebState
  <2>2. CASE Create(c)
    BY <1>1, <2>2, CreateEffect DEF Create, TypeOK, WebState
  <2>3. CASE Abort(c)
    <3>1. faults' \in 0..MaxFaults /\ UNCHANGED <<cloud, row, changes>>
      BY <1>1, <2>3, ListAssumption DEF Abort
    <3> QED BY <1>1, <1>3, <2>3, <3>1 DEF Abort, TypeOK, WebState
  <2> QED BY <1>5, <2>1, <2>2, <2>3 DEF Handle
<1>6. ASSUME NEW c \in Calls, AnswerWeb(c) PROVE TypeOK'
  <2>1. call[c].snapshot \in [Domains -> Gone..MaxExpiry]
    BY <1>1 DEF Call
  <2> QED
    BY <1>1, <1>6, <2>1, WebTypes, EndEffect DEF AnswerWeb, TypeOK, WebState
<1>7. CASE AnswerReader
  <2>1. UNCHANGED <<cloud, row, changes, faults>>
    BY <1>7 DEF AnswerReader
  <2>2. CASE Refuse(Reader)
    BY <1>1, <1>2, <1>3, <2>1, <2>2 DEF TypeOK, WebState
  <2>3. CASE /\ End(Reader) /\ UNCHANGED web
             /\ \/ Give(Rest, NoRow)
                \/ \E last \in Rest :
                      Give({d \in Rest : ~Before(Reader, last, d)},
                           call[Reader].states[last])
    <3>1. reader' \in ReaderState
      <4>1. CASE Give(Rest, NoRow)
        BY <4>1, GiveType
      <4>2. ASSUME NEW last \in Rest,
                   Give({d \in Rest : ~Before(Reader, last, d)},
                        call[Reader].states[last])
            PROVE  reader' \in ReaderState
        <5>1. last \in Domains
          BY DEF Rest, Seen
        <5>2. call[Reader].states[last] \in Ids \cup {NoRow}
          BY <1>1, <1>2, <5>1 DEF Call
        <5> QED BY <4>2, <5>2, GiveType
      <4> QED BY <2>3, <4>1, <4>2
    <3> QED
      BY <1>1, <1>2, <2>1, <2>3, <3>1, EndEffect DEF TypeOK, WebState
  <2> QED
    BY <1>7, <2>2, <2>3, PageEffect
<1>8. CASE Again
  BY <1>1, <1>8, FreshType DEF Again, TypeOK, WebState
<1>9. ASSUME NEW d \in Domains, Change(d) PROVE TypeOK'
  <2>1. cloud' \in [Domains -> Gone..MaxExpiry]
    BY <1>1, <1>9 DEF Change
  <2>2. changes' \in 0..MaxChanges
    BY <1>1, <1>9, ListAssumption DEF Change
  <2>3. reader' \in ReaderState
    <3>1. reader.changed \cup {d} \in SUBSET Domains
      BY <1>1 DEF ReaderState
    <3>2. reader' = [reader EXCEPT !.changed = reader.changed \cup {d}]
      BY <1>9 DEF Change
    <3> QED BY <1>1, <3>1, <3>2 DEF ReaderState
  <2> QED
    BY <1>1, <1>9, <2>1, <2>2, <2>3 DEF Change, TypeOK, WebState
<1>10. CASE UNCHANGED vars
  BY <1>1, <1>10 DEF vars, TypeOK, WebState
<1> QED
  BY <1>4, <1>5, <1>6, <1>7, <1>8, <1>9, <1>10 DEF Next, TypeOK, WebState

-----------------------------------------------------------------------------
(* Rows.                                                                   *)

(* While the rows do not change, only the request that moves matters.      *)
LEMMA RowsKept ==
  ASSUME RowsInv, UNCHANGED row, NEW c \in Calls, Others(c), Knows(c)'
  PROVE  RowsInv'
<1>1. ASSUME NEW b \in Calls PROVE Knows(b)'
  <2>1. CASE b = c
    BY <2>1
  <2>2. CASE b # c
    <3>1. call'[b] = call[b] /\ Knows(b)
      BY <2>2 DEF Others, RowsInv
    <3> QED BY <3>1 DEF Knows, Seen
  <2> QED BY <2>1, <2>2
<1> QED
  BY <1>1 DEF RowsInv, RowsAreOwn

(***************************************************************************)
(* Load in one request while others create the same rows: what a request   *)
(* knows stays true, because a row is never replaced.                      *)
(***************************************************************************)
LEMMA RowsStep ==
  ASSUME TypeOK, RowsInv, [Next]_vars  PROVE RowsInv'
<1>1. /\ row \in [Domains -> Ids \cup {NoRow}] /\ call \in [Calls -> Call]
      /\ RowsAreOwn /\ \A c \in Calls : Knows(c)
  BY DEF TypeOK, RowsInv
<1>2. ASSUME NEW c \in Calls, UNCHANGED row, Others(c), call'[c].pc \in {"idle", "query"}
      PROVE  RowsInv'
  <2>1. Knows(c)'
    BY <1>2 DEF Knows
  <2> QED BY <1>2, <2>1, RowsKept
<1>3. ASSUME NEW c \in Calls, UNCHANGED row, End(c) PROVE RowsInv'
  BY <1>2, <1>3, EndEffect
<1>4. ASSUME NEW c \in Calls, Ask(c) PROVE RowsInv'
  BY <1>2, <1>4, AskEffect DEF Ask
<1>5. ASSUME NEW c \in Calls, Query(c) PROVE RowsInv'
  <2>1. UNCHANGED row
    BY <1>5 DEF Query
  <2>2. /\ Others(c) /\ call'[c].pc = "create"
        /\ call'[c].snapshot = call[c].snapshot
        /\ \A d \in Seen(c) : call'[c].states[d] = row[d]
    BY <1>5, QueryEffect
  <2>3. Knows(c)'
    BY <2>1, <2>2 DEF Knows, Seen
  <2> QED BY <2>1, <2>2, <2>3, RowsKept
<1>6. ASSUME NEW c \in Calls, Create(c) PROVE RowsInv'
  <2>1. /\ Others(c) /\ call'[c].snapshot = call[c].snapshot
        /\ call[c].pc = "create" /\ call[c] \in Call
    BY <1>1, <1>6, CreateEffect DEF Create
  <2>2. Seen(c)' = Seen(c) /\ Seen(c) \subseteq Domains
    BY <2>1 DEF Seen
  <2>3. \A d \in Seen(c) : call[c].states[d] \in {NoRow, row[d]}
    BY <1>1, <2>1 DEF Knows
  <2>4. CASE /\ Missing(c) = {} /\ UNCHANGED row
             /\ call'[c].states = call[c].states /\ call'[c].pc = "answer"
    <3>1. \A d \in Seen(c) : call[c].states[d] # NoRow
      BY <2>4 DEF Missing
    <3>2. Knows(c)'
      BY <2>2, <2>3, <2>4, <3>1 DEF Knows
    <3> QED BY <2>1, <2>4, <3>2, RowsKept
  <2>5. ASSUME NEW d \in Missing(c), row[d] # NoRow, UNCHANGED row,
               call'[c].states = [call[c].states EXCEPT ![d] = row[d]],
               call'[c].pc = IF Missing(c) = {d} THEN "answer" ELSE "create"
        PROVE  RowsInv'
    <3>1. call[c].states \in [Domains -> Ids \cup {NoRow}]
      BY <2>1 DEF Call
    <3>2. \A e \in Domains : call'[c].states[e] = IF e = d THEN row[d] ELSE call[c].states[e]
      BY <2>5, <3>1
    <3>3. \A e \in Seen(c) : call'[c].states[e] \in {NoRow, row'[e]}
      BY <2>2, <2>3, <2>5, <3>2
    <3>4. ASSUME call'[c].pc = "answer", NEW e \in Seen(c)
          PROVE  call'[c].states[e] # NoRow
      <4>1. Missing(c) = {d}
        BY <2>5, <3>4
      <4>2. e # d => call[c].states[e] # NoRow
        BY <3>4, <4>1 DEF Missing
      <4> QED BY <2>2, <2>5, <3>2, <4>2
    <3>5. Knows(c)'
      BY <2>2, <3>3, <3>4 DEF Knows
    <3> QED BY <2>1, <2>5, <3>5, RowsKept
  <2>6. ASSUME NEW d \in Missing(c), row[d] = NoRow,
               NEW id \in {i \in Ids : \A e \in Domains : row[e] # i},
               row' = [row EXCEPT ![d] = id],
               call'[c].states = [call[c].states EXCEPT ![d] = id],
               call'[c].pc = "create"
        PROVE  RowsInv'
    <3>1. d \in Domains /\ call[c].states \in [Domains -> Ids \cup {NoRow}]
      BY <2>1, <2>2 DEF Call, Missing
    <3>2. \A e \in Domains : row'[e] = IF e = d THEN id ELSE row[e]
      BY <1>1, <2>6
    <3>3. \A e \in Domains : call'[c].states[e] = IF e = d THEN id ELSE call[c].states[e]
      BY <2>6, <3>1
    <3>4. RowsAreOwn'
      <4>1. \A e \in Domains : row[e] # id
        BY <2>6
      <4>2. \A e, f \in Domains : row[e] = row[f] /\ row[e] # NoRow => e = f
        BY <1>1 DEF RowsAreOwn
      <4>3. ASSUME NEW e \in Domains, NEW f \in Domains, row'[e] = row'[f], row'[e] # NoRow
            PROVE  e = f
        BY <3>2, <4>1, <4>2, <4>3
      <4> QED BY <4>3 DEF RowsAreOwn
    <3>5. Knows(c)'
      BY <2>2, <2>3, <2>6, <3>2, <3>3 DEF Knows
    <3>6. ASSUME NEW b \in Calls \ {c} PROVE Knows(b)'
      <4>1. call'[b] = call[b] /\ Knows(b)
        BY <1>1, <2>1 DEF Others
      <4>2. Seen(b)' = Seen(b) /\ Seen(b) \subseteq Domains
        BY <4>1 DEF Seen
      <4>3. CASE call[b].pc \in {"create", "answer"}
        <5>1. \A e \in Seen(b) : call[b].states[e] \in {NoRow, row[e]}
          BY <4>1, <4>3 DEF Knows
        <5>2. \A e \in Seen(b) : call[b].states[e] \in {NoRow, row'[e]}
          BY <2>6, <3>2, <4>2, <5>1
        <5> QED BY <4>1, <4>2, <5>2 DEF Knows
      <4>4. CASE call[b].pc \notin {"create", "answer"}
        BY <4>1, <4>4 DEF Knows
      <4> QED BY <4>3, <4>4
    <3> QED BY <3>4, <3>5, <3>6 DEF RowsInv
  <2>7. \/ /\ Missing(c) = {} /\ UNCHANGED row
           /\ call'[c].states = call[c].states /\ call'[c].pc = "answer"
        \/ \E d \in Missing(c) :
             /\ row[d] = NoRow
             /\ \E id \in {i \in Ids : \A e \in Domains : row[e] # i} :
                  /\ row' = [row EXCEPT ![d] = id]
                  /\ call'[c].states = [call[c].states EXCEPT ![d] = id]
             /\ call'[c].pc = "create"
        \/ \E d \in Missing(c) :
             /\ row[d] # NoRow /\ UNCHANGED row
             /\ call'[c].states = [call[c].states EXCEPT ![d] = row[d]]
             /\ call'[c].pc = IF Missing(c) = {d} THEN "answer" ELSE "create"
    BY <1>6, CreateEffect
  <2> QED
    BY <2>4, <2>5, <2>6, <2>7
<1>7. ASSUME NEW c \in Calls, Abort(c) PROVE RowsInv'
  BY <1>3, <1>7 DEF Abort, Refuse
<1>8. ASSUME NEW c \in Calls, AnswerWeb(c) PROVE RowsInv'
  BY <1>3, <1>8 DEF AnswerWeb
<1>9. CASE AnswerReader
  <2>1. Reader \in Calls /\ UNCHANGED row /\ End(Reader)
    BY <1>9 DEF AnswerReader, Refuse, Calls
  <2> QED BY <1>3, <2>1
<1>10. CASE UNCHANGED <<row, call>>
  BY <1>1, <1>10 DEF RowsInv, RowsAreOwn, Knows, Seen
<1>11. CASE Again
  BY <1>10, <1>11 DEF Again
<1>12. ASSUME NEW d \in Domains, Change(d) PROVE RowsInv'
  BY <1>10, <1>12 DEF Change
<1>13. CASE UNCHANGED vars
  BY <1>10, <1>13 DEF vars
<1> QED
  BY <1>4, <1>5, <1>6, <1>7, <1>8, <1>9, <1>11, <1>12, <1>13 DEF Next, Handle

(* A row that exists stays.                                                *)
LEMMA RowsStay ==
  ASSUME TypeOK, NEW c \in Calls, Create(c)
  PROVE  \A e \in Domains : row[e] # NoRow => row'[e] = row[e]
<1>1. row \in [Domains -> Ids \cup {NoRow}]
  BY DEF TypeOK
<1>2. CASE UNCHANGED row
  BY <1>2
<1>3. ASSUME NEW d \in Missing(c), row[d] = NoRow, NEW id \in Ids,
             row' = [row EXCEPT ![d] = id]
      PROVE  \A e \in Domains : row[e] # NoRow => row'[e] = row[e]
  BY <1>1, <1>3
<1> QED
  BY <1>2, <1>3, CreateEffect

-----------------------------------------------------------------------------
(***************************************************************************)
(* The reader.  Between two pages everything is measured against the       *)
(* observation of the last one: its cursor has a place x there, and every  *)
(* domain that did not change was given if its place is not after x.       *)
(***************************************************************************)
Observed == call[Reader].snapshot

Below(s, d, e) == s[d] < s[e] \/ (s[d] = s[e] /\ row[d] < row[e])

Unchanged == Domains \ reader.changed

DoneIsDone == reader.done => reader.cursor = NoRow /\ call[Reader].pc = "idle"

NothingRead ==
    reader.cursor = NoRow /\ ~reader.done => \A d \in Domains : reader.got[d] = 0

Unmoved ==
    /\ reader.cursor # NoRow \/ call[Reader].pc # "idle"
    /\ ~reader.disturbed
    => \A d \in Unchanged : Observed[d] = cloud[d]

ReadUpTo(x) ==
    /\ row[x] = reader.cursor /\ Observed[x] # Gone
    /\ \A d \in Unchanged :
         /\ cloud[d] # Gone => row[d] # NoRow
         /\ reader.got[d] = IF cloud[d] # Gone /\ ~Below(Observed, x, d) THEN 1 ELSE 0

UpToCursor ==
    reader.cursor # NoRow /\ ~reader.disturbed => \E x \in Domains : ReadUpTo(x)

ReadingInv == DoneIsDone /\ NothingRead /\ Unmoved /\ UpToCursor /\ UnchangedIsReadOnce

(* Steps of others: rows are created, the reader's request may advance.    *)
LEMMA OthersMove ==
  ASSUME ReadingInv, UNCHANGED <<reader, cloud>>, Observed' = Observed,
         call'[Reader].pc = "idle" <=> call[Reader].pc = "idle",
         \A e \in Domains : row[e] # NoRow => row'[e] = row[e]
  PROVE  ReadingInv'
<1>1. DoneIsDone' /\ NothingRead' /\ Unmoved' /\ UnchangedIsReadOnce'
  BY DEF ReadingInv, DoneIsDone, NothingRead, Unmoved, Unchanged, UnchangedIsReadOnce
<1>2. ASSUME reader.cursor # NoRow, ~reader.disturbed
      PROVE  \E x \in Domains : ReadUpTo(x)'
  <2>1. PICK x \in Domains : ReadUpTo(x)
    BY <1>2 DEF ReadingInv, UpToCursor
  <2>2. row'[x] = row[x]
    BY <1>2, <2>1 DEF ReadUpTo
  <2>3. ASSUME NEW d \in Unchanged
        PROVE  /\ cloud[d] # Gone => row'[d] # NoRow
               /\ reader.got[d] = IF cloud[d] # Gone /\ ~Below(Observed, x, d)' THEN 1 ELSE 0
    <3>1. cloud[d] # Gone => row[d] # NoRow /\ row'[d] = row[d]
      BY <2>1 DEF ReadUpTo, Unchanged
    <3>2. reader.got[d] = IF cloud[d] # Gone /\ ~Below(Observed, x, d) THEN 1 ELSE 0
      BY <2>1 DEF ReadUpTo
    <3> QED BY <2>2, <3>1, <3>2 DEF Below
  <2> QED
    BY <2>1, <2>2, <2>3 DEF ReadUpTo, Unchanged
<1> QED
  BY <1>1, <1>2 DEF ReadingInv, UpToCursor

(* The reader starts from the first page.                                  *)
LEMMA ReaderRestarts ==
  ASSUME reader' = Fresh, call'[Reader].pc = "idle"
  PROVE  ReadingInv'
  BY DEF Fresh, ReadingInv, DoneIsDone, NothingRead, Unmoved, UpToCursor,
         UnchangedIsReadOnce

(***************************************************************************)
(* The next page is asked for: what the reader was given so far is at or   *)
(* before the cursor in the new observation too, unless the cursor's own   *)
(* certificate changed.                                                    *)
(***************************************************************************)
LEMMA AskReads ==
  ASSUME TypeOK, ReadingInv, Ask(Reader)
  PROVE  ReadingInv'
<1>1. /\ UNCHANGED <<cloud, row>> /\ ~reader.done
      /\ reader \in ReaderState
  BY DEF Ask, TypeOK
<1>2. call'[Reader].pc = "query" /\ Observed' = cloud
  BY AskEffect DEF Calls, Observed
<1>3. CASE reader.cursor = NoRow
  <2>1. reader' = Fresh
    BY <1>3 DEF Ask
  <2> QED
    BY <1>1, <1>2, <2>1 DEF Fresh, ReadingInv, DoneIsDone, NothingRead, Unmoved,
       UpToCursor, UnchangedIsReadOnce
<1>4. CASE reader.cursor # NoRow
  <2> DEFINE b == reader.disturbed \/ \E d \in Domains :
                    row[d] = reader.cursor /\ Observed[d] # cloud[d]
  <2>1. reader' = [reader EXCEPT !.disturbed = b]
    BY <1>4 DEF Ask, Observed
  <2>2. /\ ~b => ~reader.disturbed
        /\ ~b => \A d \in Domains : row[d] = reader.cursor => Observed[d] = cloud[d]
    OBVIOUS
  <2> HIDE DEF b
  <2>3. /\ reader'.disturbed = b /\ reader'.cursor = reader.cursor
        /\ reader'.got = reader.got /\ reader'.changed = reader.changed
        /\ reader'.done = reader.done
    BY <1>1, <2>1 DEF ReaderState
  <2>4. DoneIsDone' /\ NothingRead' /\ UnchangedIsReadOnce'
    BY <1>1, <1>4, <2>3 DEF DoneIsDone, NothingRead, UnchangedIsReadOnce
  <2>5. Unmoved'
    BY <1>1, <1>2, <2>3 DEF Unmoved, Unchanged
  <2>6. ASSUME ~b PROVE \E x \in Domains : ReadUpTo(x)'
    <3>1. PICK x \in Domains : ReadUpTo(x)
      BY <1>4, <2>2, <2>6 DEF ReadingInv, UpToCursor
    <3>2. row[x] = reader.cursor /\ Observed[x] # Gone /\ cloud[x] = Observed[x]
      BY <2>2, <2>6, <3>1 DEF ReadUpTo
    <3>3. \A d \in Unchanged : Observed[d] = cloud[d]
      BY <1>4, <2>2, <2>6 DEF ReadingInv, Unmoved
    <3>4. \A d \in Unchanged : Below(Observed, x, d)' <=> Below(Observed, x, d)
      BY <1>1, <1>2, <3>2, <3>3 DEF Below
    <3>5. Unchanged' = Unchanged
      BY <2>3 DEF Unchanged
    <3>6. \A d \in Unchanged :
             /\ cloud[d] # Gone => row[d] # NoRow
             /\ reader.got[d] = IF cloud[d] # Gone /\ ~Below(Observed, x, d) THEN 1 ELSE 0
      BY <3>1 DEF ReadUpTo
    <3>7. \A d \in Unchanged' :
             /\ cloud'[d] # Gone => row'[d] # NoRow
             /\ reader'.got[d] = IF cloud'[d] # Gone /\ ~Below(Observed, x, d)' THEN 1 ELSE 0
      BY <1>1, <2>3, <3>4, <3>5, <3>6
    <3> QED
      BY <1>1, <1>2, <2>3, <3>2, <3>7 DEF ReadUpTo
  <2> QED
    BY <2>3, <2>4, <2>5, <2>6 DEF ReadingInv, UpToCursor
<1> QED
  BY <1>3, <1>4

(* When the reader is answered, its request sorts by the rows.             *)
LEMMA AnswerOrder ==
  ASSUME TypeOK, RowsInv, call[Reader].pc = "answer"
  PROVE  /\ Seen(Reader) = {d \in Domains : Observed[d] # Gone}
         /\ \A d \in Seen(Reader) : call[Reader].states[d] = row[d] /\ row[d] # NoRow
         /\ \A d, e \in Seen(Reader) : Before(Reader, d, e) <=> Below(Observed, d, e)
         /\ \A d \in Domains : Observed[d] \in Int /\ row[d] \in Int
<1>1. Reader \in Calls /\ Knows(Reader)
  BY DEF RowsInv, Calls
<1>2. Seen(Reader) = {d \in Domains : Observed[d] # Gone}
  BY DEF Seen, Observed
<1>3. \A d \in Seen(Reader) : call[Reader].states[d] = row[d] /\ row[d] # NoRow
  BY <1>1 DEF Knows
<1>4. \A d, e \in Seen(Reader) : Before(Reader, d, e) <=> Below(Observed, d, e)
  BY <1>3 DEF Before, Below, Observed
<1>5. call[Reader] \in Call /\ row \in [Domains -> Ids \cup {NoRow}]
  BY <1>1 DEF TypeOK
<1>6. (Gone..MaxExpiry) \subseteq Int /\ (Ids \cup {NoRow}) \subseteq Int
  BY DEF Gone, Ids, NoRow
<1>7. \A d \in Domains : Observed[d] \in Int /\ row[d] \in Int
  BY <1>5, <1>6 DEF Call, Observed
<1> QED
  BY <1>2, <1>3, <1>4, <1>7

(***************************************************************************)
(* What is left to read is what was not given: an unchanged domain is in   *)
(* Rest exactly if the reader has not had it.                              *)
(***************************************************************************)
LEMMA RestIsUnread ==
  ASSUME TypeOK, RowsInv, ReadingInv, call[Reader].pc = "answer",
         ~reader.disturbed, reader.cursor = NoRow \/ AtCursor # {}
  PROVE  /\ Rest \subseteq Seen(Reader)
         /\ \A d \in Unchanged :
              reader.got[d] = IF cloud[d] # Gone /\ d \notin Rest THEN 1 ELSE 0
         /\ \A last \in Rest, d \in Unchanged :
              cloud[d] # Gone /\ d \notin Rest => ~Below(Observed, last, d)
<1>1. \A d \in Unchanged : Observed[d] = cloud[d]
  BY DEF ReadingInv, Unmoved
<1>2. \A d \in Unchanged : d \in Domains /\ (cloud[d] # Gone <=> d \in Seen(Reader))
  BY <1>1, AnswerOrder DEF Unchanged
<1>3. ~reader.done
  BY DEF ReadingInv, DoneIsDone
<1>4. Rest \subseteq Seen(Reader)
  BY DEF Rest
<1>5. CASE reader.cursor = NoRow
  <2>1. \A d \in Unchanged : reader.got[d] = 0
    BY <1>3, <1>5 DEF ReadingInv, NothingRead, Unchanged
  <2>2. Rest = Seen(Reader)
    BY <1>5 DEF Rest
  <2> QED
    BY <1>2, <2>1, <2>2
<1>6. CASE reader.cursor # NoRow
  <2>1. PICK x \in Domains : ReadUpTo(x)
    BY <1>6 DEF ReadingInv, UpToCursor
  <2>2. x \in Seen(Reader) /\ row[x] = reader.cursor
    BY <2>1, AnswerOrder DEF ReadUpTo
  <2>3. ASSUME NEW e \in AtCursor PROVE e = x
    <3>1. e \in Seen(Reader) /\ e \in Domains /\ call[Reader].states[e] = reader.cursor
      BY <2>3 DEF AtCursor, Seen
    <3>2. row[e] = row[x] /\ row[e] # NoRow
      BY <1>6, <2>2, <3>1, AnswerOrder
    <3> QED BY <3>1, <3>2 DEF RowsInv, RowsAreOwn
  <2>4. AtCursor = {x}
    BY <2>3, <1>6
  <2>5. \A d \in Seen(Reader) : d \in Rest <=> Below(Observed, x, d)
    BY <1>6, <2>2, <2>4, AnswerOrder DEF Rest, Follows
  <2>6. \A d \in Unchanged :
           reader.got[d] = IF cloud[d] # Gone /\ ~Below(Observed, x, d) THEN 1 ELSE 0
    BY <2>1 DEF ReadUpTo
  <2>7. \A d \in Unchanged :
           reader.got[d] = IF cloud[d] # Gone /\ d \notin Rest THEN 1 ELSE 0
    BY <1>2, <2>5, <2>6
  <2>8. ASSUME NEW last \in Rest, NEW d \in Unchanged, cloud[d] # Gone, d \notin Rest
        PROVE  ~Below(Observed, last, d)
    <3>1. d \in Seen(Reader) /\ last \in Seen(Reader) /\ d \in Domains /\ last \in Domains
      BY <1>2, <1>4, <2>8 DEF Seen
    <3>2. Below(Observed, x, last) /\ ~Below(Observed, x, d)
      BY <2>5, <2>8, <3>1
    <3>3. /\ Observed[x] \in Int /\ row[x] \in Int /\ Observed[d] \in Int
          /\ row[d] \in Int /\ Observed[last] \in Int /\ row[last] \in Int
      BY <3>1, AnswerOrder
    <3> QED BY <3>2, <3>3 DEF Below
  <2> QED
    BY <1>4, <2>7, <2>8
<1> QED
  BY <1>5, <1>6

(***************************************************************************)
(* A page is given: the domains of it that did not change had not been     *)
(* given before, and now the new cursor is the measure.                    *)
(***************************************************************************)
LEMMA PageReads ==
  ASSUME TypeOK, RowsInv, ReadingInv, call[Reader].pc = "answer",
         UNCHANGED <<cloud, row>>, End(Reader),
         reader.cursor = NoRow \/ AtCursor # {},
         NEW page, NEW next \in Ids \cup {NoRow}, Give(page, next),
         \/ page = Rest /\ next = NoRow
         \/ \E last \in Rest : /\ page = {d \in Rest : ~Before(Reader, last, d)}
                               /\ next = call[Reader].states[last]
  PROVE  ReadingInv'
<1>1. /\ reader'.cursor = next /\ reader'.done = (next = NoRow)
      /\ reader'.changed = reader.changed /\ reader'.disturbed = reader.disturbed
      /\ \A d \in Domains : reader'.got[d] = IF d \notin page THEN reader.got[d]
                                             ELSE IF reader.got[d] = 0 THEN 1 ELSE 2
  BY GiveType
<1>2. /\ call'[Reader].pc = "idle"
      /\ next # NoRow => Observed' = Observed
  BY <1>1, EndEffect DEF Calls, Observed
<1>3. DoneIsDone' /\ NothingRead'
  BY <1>1, <1>2 DEF DoneIsDone, NothingRead
<1>4. CASE reader.disturbed
  BY <1>1, <1>3, <1>4 DEF ReadingInv, Unmoved, UpToCursor, UnchangedIsReadOnce
<1>5. CASE ~reader.disturbed
  <2>1. /\ Rest \subseteq Seen(Reader)
        /\ \A d \in Unchanged :
             reader.got[d] = IF cloud[d] # Gone /\ d \notin Rest THEN 1 ELSE 0
        /\ \A last \in Rest, d \in Unchanged :
             cloud[d] # Gone /\ d \notin Rest => ~Below(Observed, last, d)
    BY <1>5, RestIsUnread
  <2>2. \A d \in Unchanged : d \in Domains /\ Observed[d] = cloud[d]
    BY <1>5 DEF ReadingInv, Unmoved, Unchanged
  <2>3. \A d \in Unchanged : d \in Seen(Reader) <=> cloud[d] # Gone
    BY <2>2, AnswerOrder
  <2>4. Unchanged' = Unchanged
    BY <1>1 DEF Unchanged
  <2>5. page \subseteq Rest
    OBVIOUS
  <2>6. \A d \in Unchanged : reader'.got[d] = IF d \in page THEN 1 ELSE reader.got[d]
    BY <1>1, <2>1, <2>2, <2>5
  <2>7. Unmoved'
    BY <1>1, <1>2, <2>2, <2>4 DEF Unmoved
  <2>8. CASE page = Rest /\ next = NoRow
    <3>1. \A d \in Unchanged : reader'.got[d] = IF cloud[d] # Gone THEN 1 ELSE 0
      BY <2>1, <2>3, <2>6, <2>8
    <3>2. UnchangedIsReadOnce'
      BY <2>4, <3>1 DEF UnchangedIsReadOnce, Unchanged
    <3> QED
      BY <1>1, <1>3, <2>7, <2>8, <3>2 DEF ReadingInv, UpToCursor
  <2>9. ASSUME NEW last \in Rest,
               page = {d \in Rest : ~Before(Reader, last, d)},
               next = call[Reader].states[last]
        PROVE  ReadingInv'
    <3>1. /\ last \in Seen(Reader) /\ last \in Domains /\ Observed[last] # Gone
          /\ next = row[last] /\ next # NoRow
      BY <2>1, <2>9, AnswerOrder
    <3>2. ~reader'.done
      BY <1>1, <3>1
    <3>3. \A d \in Rest : d \in page <=> ~Below(Observed, last, d)
      BY <2>1, <2>9, <3>1, AnswerOrder
    <3>4. ASSUME NEW d \in Unchanged
          PROVE  /\ cloud[d] # Gone => row[d] # NoRow
                 /\ reader'.got[d] = IF cloud[d] # Gone /\ ~Below(Observed, last, d)
                                     THEN 1 ELSE 0
      <4>1. cloud[d] # Gone => row[d] # NoRow
        BY <2>3, AnswerOrder
      <4>2. CASE d \in Rest
        BY <2>1, <2>3, <2>6, <3>3, <4>1, <4>2
      <4>3. CASE d \notin Rest
        BY <2>1, <2>5, <2>6, <4>1, <4>3
      <4> QED BY <4>1, <4>2, <4>3
    <3>5. ReadUpTo(last)'
      BY <1>1, <1>2, <2>4, <3>1, <3>4 DEF ReadUpTo, Below
    <3>6. UpToCursor' /\ UnchangedIsReadOnce'
      BY <3>1, <3>2, <3>5 DEF UpToCursor, UnchangedIsReadOnce
    <3> QED
      BY <1>3, <2>7, <3>6 DEF ReadingInv
  <2> QED
    BY <2>8, <2>9
<1> QED
  BY <1>4, <1>5

(* A domain changes in the cloud: it is no longer among the unchanged.     *)
LEMMA ChangeReads ==
  ASSUME TypeOK, ReadingInv, NEW d \in Domains, Change(d)
  PROVE  ReadingInv'
<1>1. /\ UNCHANGED <<row, call>> /\ Observed' = Observed
      /\ reader \in ReaderState /\ cloud \in [Domains -> Gone..MaxExpiry]
  BY DEF Change, TypeOK, Observed
<1>2. /\ reader'.cursor = reader.cursor /\ reader'.done = reader.done
      /\ reader'.got = reader.got /\ reader'.disturbed = reader.disturbed
      /\ Unchanged' = Unchanged \ {d}
  BY <1>1 DEF Change, ReaderState, Unchanged
<1>3. \A e \in Unchanged' : e \in Unchanged /\ cloud'[e] = cloud[e]
  BY <1>1, <1>2 DEF Change, Unchanged
<1>4. DoneIsDone' /\ NothingRead' /\ Unmoved'
  BY <1>1, <1>2, <1>3 DEF ReadingInv, DoneIsDone, NothingRead, Unmoved
<1>5. UnchangedIsReadOnce'
  BY <1>2, <1>3 DEF ReadingInv, UnchangedIsReadOnce, Unchanged
<1>6. UpToCursor'
  <2>1. ASSUME NEW x \in Domains, ReadUpTo(x) PROVE ReadUpTo(x)'
    BY <1>1, <1>2, <1>3, <2>1 DEF ReadUpTo, Below
  <2> QED
    BY <1>2, <2>1 DEF ReadingInv, UpToCursor
<1> QED
  BY <1>4, <1>5, <1>6 DEF ReadingInv

(***************************************************************************)
(* Every step keeps what the reader was given in line with its cursor.     *)
(***************************************************************************)
LEMMA ReadingStep ==
  ASSUME TypeOK, RowsInv, ReadingInv, [Next]_vars  PROVE ReadingInv'
<1>1. Reader \in Calls
  BY DEF Calls
<1>2. ASSUME NEW c \in Calls \ {Reader}, UNCHANGED <<reader, cloud, row>>, Others(c)
      PROVE  ReadingInv'
  <2>1. call'[Reader] = call[Reader]
    BY <1>1, <1>2 DEF Others
  <2> QED BY <1>2, <2>1, OthersMove DEF Observed
<1>3. ASSUME NEW c \in Calls, Ask(c) PROVE ReadingInv'
  <2>1. CASE c = Reader
    BY <1>3, <2>1, AskReads
  <2>2. CASE c # Reader
    <3>1. UNCHANGED <<reader, cloud, row>> /\ Others(c)
      BY <1>3, <2>2, AskEffect DEF Ask
    <3> QED BY <1>2, <2>2, <3>1
  <2> QED BY <2>1, <2>2
<1>4. ASSUME NEW c \in Calls, Query(c) PROVE ReadingInv'
  <2>1. /\ UNCHANGED <<reader, cloud, row>> /\ Others(c) /\ call[c].pc = "query"
        /\ call'[c].pc = "create" /\ call'[c].snapshot = call[c].snapshot
    BY <1>4, QueryEffect DEF Query
  <2>2. Observed' = Observed /\ (call'[Reader].pc = "idle" <=> call[Reader].pc = "idle")
    BY <1>1, <2>1 DEF Others, Observed
  <2> QED BY <2>1, <2>2, OthersMove
<1>5. ASSUME NEW c \in Calls, Create(c) PROVE ReadingInv'
  <2>1. /\ UNCHANGED <<reader, cloud>> /\ Others(c) /\ call[c].pc = "create"
        /\ call'[c].pc \in {"create", "answer"}
        /\ call'[c].snapshot = call[c].snapshot
    BY <1>5, CreateEffect DEF Create
  <2>2. Observed' = Observed /\ (call'[Reader].pc = "idle" <=> call[Reader].pc = "idle")
    BY <1>1, <2>1 DEF Others, Observed
  <2>3. \A e \in Domains : row[e] # NoRow => row'[e] = row[e]
    BY <1>5, RowsStay
  <2> QED BY <2>1, <2>2, <2>3, OthersMove
<1>6. ASSUME NEW c \in Calls, Refuse(c), UNCHANGED <<cloud, row>> PROVE ReadingInv'
  <2>1. call'[c].pc = "idle" /\ Others(c)
    BY <1>6, EndEffect DEF Refuse
  <2>2. CASE c = Reader
    BY <1>6, <2>1, <2>2, ReaderRestarts DEF Refuse
  <2>3. CASE c # Reader
    BY <1>2, <1>6, <2>1, <2>3 DEF Refuse
  <2> QED BY <2>2, <2>3
<1>7. ASSUME NEW c \in Calls, Abort(c) PROVE ReadingInv'
  BY <1>6, <1>7 DEF Abort
<1>8. ASSUME NEW c \in Calls, AnswerWeb(c) PROVE ReadingInv'
  <2>1. c # Reader /\ UNCHANGED <<reader, cloud, row>> /\ Others(c)
    BY <1>8, EndEffect DEF AnswerWeb
  <2> QED BY <1>2, <2>1
<1>9. CASE AnswerReader
  <2>1. UNCHANGED <<cloud, row>> /\ call[Reader].pc = "answer"
    BY <1>9 DEF AnswerReader
  <2>2. CASE Refuse(Reader)
    BY <1>1, <1>6, <2>1, <2>2
  <2>3. CASE /\ End(Reader) /\ (reader.cursor = NoRow \/ AtCursor # {})
             /\ Give(Rest, NoRow)
    BY <2>1, <2>3, PageReads
  <2>4. ASSUME End(Reader), reader.cursor = NoRow \/ AtCursor # {}, NEW last \in Rest,
               Give({d \in Rest : ~Before(Reader, last, d)}, call[Reader].states[last])
        PROVE  ReadingInv'
    <3> DEFINE page == {d \in Rest : ~Before(Reader, last, d)}
               next == call[Reader].states[last]
    <3>1. next \in Ids \cup {NoRow}
      BY <1>1 DEF TypeOK, Call, Rest, Seen
    <3>2. /\ Give(page, next)
          /\ \E l \in Rest : /\ page = {d \in Rest : ~Before(Reader, l, d)}
                             /\ next = call[Reader].states[l]
      BY <2>4
    <3> HIDE DEF page, next
    <3> QED BY <2>1, <2>4, <3>1, <3>2, PageReads
  <2> QED
    BY <1>9, <2>2, <2>3, <2>4, PageEffect
<1>10. CASE Again
  <2>1. reader' = Fresh /\ call'[Reader].pc = "idle"
    BY <1>10 DEF Again, ReadingInv, DoneIsDone
  <2> QED BY <2>1, ReaderRestarts
<1>11. ASSUME NEW d \in Domains, Change(d) PROVE ReadingInv'
  BY <1>11, ChangeReads
<1>12. CASE UNCHANGED vars
  BY <1>12, OthersMove DEF vars, Observed
<1> QED
  BY <1>3, <1>4, <1>5, <1>7, <1>8, <1>9, <1>10, <1>11, <1>12 DEF Next, Handle

-----------------------------------------------------------------------------
(***************************************************************************)
(* The web page, whose refreshes overlap: at any time it is loading, shows *)
(* an error, shows certificates, or was told that there are none.          *)
(***************************************************************************)
Accounted == web.loading \/ web.error \/ web.told \/ web.data # Unknown

(* Whatever answer comes last, and in whatever order, the page is honest.  *)
LEMMA AccountedStep ==
  ASSUME TypeOK, Accounted, [Next]_vars  PROVE Accounted'
<1>1. web \in WebState
  BY DEF TypeOK, WebState
<1>2. CASE web' = Started
  BY <1>1, <1>2 DEF Started, WebState, Accounted
<1>3. CASE web' = Failed
  BY <1>1, <1>3 DEF Failed, WebState, Accounted
<1>4. ASSUME NEW data, web' = Succeeded(data) PROVE Accounted'
  BY <1>1, <1>4 DEF Succeeded, WebState, Accounted
<1>5. CASE UNCHANGED web
  BY <1>5 DEF Accounted
<1> QED
  BY <1>2, <1>3, <1>4, <1>5
     DEF Next, vars, Ask, Handle, Query, Create, Abort, Refuse, AnswerWeb,
         AnswerReader, Again, Change

-----------------------------------------------------------------------------
(***************************************************************************)
(* The inductive invariant of the list.                                    *)
(***************************************************************************)
ListInv == TypeOK /\ RowsInv /\ ReadingInv /\ Accounted

(* It holds before the first request.                                      *)
LEMMA ListInit ==
  ASSUME Init  PROVE ListInv
<1>1. \A c \in Calls : call[c] = Free
  BY DEF Init
<1>2. TypeOK
  <2>1. call \in [Calls -> Call]
    BY FreeType DEF Init
  <2>2. row \in [Domains -> Ids \cup {NoRow}]
    BY DEF Init
  <2>3. /\ reader \in ReaderState
        /\ web \in [data : [Domains -> Gone..MaxExpiry], error : BOOLEAN,
                    loading : BOOLEAN, told : BOOLEAN]
    BY FreshType, FreeType DEF Init
  <2>4. cloud \in [Domains -> Gone..MaxExpiry]
    BY DEF Init
  <2>5. changes \in 0..MaxChanges /\ faults \in 0..MaxFaults
    BY ListAssumption DEF Init
  <2> QED BY <2>1, <2>2, <2>3, <2>4, <2>5 DEF TypeOK
<1>3. RowsInv
  <2>1. \A c \in Calls : call[c].pc = "idle"
    BY <1>1, FreeType
  <2>2. \A d \in Domains : row[d] = NoRow
    BY DEF Init
  <2> QED BY <2>1, <2>2 DEF RowsInv, RowsAreOwn, Knows
<1>4. ReadingInv
  <2>1. call[Reader].pc = "idle" /\ reader = Fresh
    BY <1>1, FreeType DEF Calls, Init
  <2> QED
    BY <2>1 DEF Fresh, ReadingInv, DoneIsDone, NothingRead, Unmoved, UpToCursor,
       UnchangedIsReadOnce
<1>5. Accounted
  BY DEF Init, Accounted
<1> QED
  BY <1>2, <1>3, <1>4, <1>5 DEF ListInv

(***************************************************************************)
(* ListInv is inductive: the handlers of overlapping requests, their two   *)
(* clients and a cloud that changes under them preserve it.                *)
(***************************************************************************)
THEOREM ListInvariance == Spec => []ListInv
<1>1. Init => ListInv
  BY ListInit
<1>2. ListInv /\ [Next]_vars => ListInv'
  BY ListTypes, RowsStep, ReadingStep, AccountedStep DEF ListInv
<1> QED
  BY <1>1, <1>2, PTL DEF Spec

(***************************************************************************)
(* Requests, rows, the reader and the page have their types.               *)
(***************************************************************************)
THEOREM ListTyped == Spec => []TypeOK
<1>1. ListInv => TypeOK
  BY DEF ListInv
<1> QED
  BY <1>1, ListInvariance, PTL

(***************************************************************************)
(* However many requests create the same rows at once, Load returns a row  *)
(* for every domain that was seen, and it is the row of the table: no nil  *)
(* is dereferenced by currentCertificates.                                 *)
(***************************************************************************)
THEOREM ItemsHaveRows == Spec => []EveryItemHasItsRow
<1>1. ASSUME ListInv PROVE EveryItemHasItsRow
  <2>1. ASSUME NEW c \in Calls, call[c].pc = "answer", NEW d \in Seen(c)
        PROVE  call[c].states[d] = row[d] /\ row[d] # NoRow
    BY <1>1, <2>1 DEF ListInv, RowsInv, Knows
  <2> QED BY <2>1 DEF EveryItemHasItsRow
<1> QED
  BY <1>1, ListInvariance, PTL

(***************************************************************************)
(* ListCertificates sorts what it sees anew for every page: a reader still *)
(* gets every domain that did not change exactly once, for pages of any    *)
(* size and whatever the others do, unless its cursor's own certificate    *)
(* changed between two pages.                                              *)
(***************************************************************************)
THEOREM PagesAreComplete == Spec => []UnchangedIsReadOnce
<1>1. ListInv => UnchangedIsReadOnce
  BY DEF ListInv, ReadingInv
<1> QED
  BY <1>1, ListInvariance, PTL

(***************************************************************************)
(* The page of certificates is empty without an error only if the last     *)
(* answer was an empty list, however its refreshes overlap.                *)
(***************************************************************************)
THEOREM EmptyMeansNone == Spec => []EmptyIsTrue
<1>1. ListInv => EmptyIsTrue
  BY DEF ListInv, Accounted, EmptyIsTrue
<1> QED
  BY <1>1, ListInvariance, PTL
=============================================================================
