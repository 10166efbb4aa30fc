--------------------------- MODULE CertificateList ---------------------------
(***************************************************************************)
(* The list of certificates: CertificateService.ListCertificates, the join *)
(* with the rows of t_domain (management.Load) that it shares with the     *)
(* daemon, and two clients: the web page, whose refreshes overlap, and a   *)
(* reader that asks for page after page with the cursor of the last one.   *)
(*                                                                         *)
(* Every call observes the cloud anew and sorts what it sees, by the end   *)
(* of the certificate and then by the id of the row; the cursor is the id  *)
(* of the last item of a page.  The other columns are left out.            *)
(***************************************************************************)
EXTENDS Integers, FiniteSets

CONSTANTS
    Domains,
    Refreshes,     \* bound: refreshes of the web page at a time
    Reader,        \* the request of the reader
    Limit,         \* items of a page of the reader
    MaxExpiry,     \* bound: dates
    MaxChanges,    \* bound: changes of the cloud
    MaxFaults      \* bound: observations that are not complete

ASSUME ListAssumption ==
    /\ IsFiniteSet(Domains) /\ Reader \notin Refreshes
    /\ Limit \in Nat \ {0} /\ MaxExpiry \in Nat
    /\ MaxChanges \in Nat /\ MaxFaults \in Nat

VARIABLES
    cloud,         \* end of the certificate of each domain
    row,           \* id of the row of each domain
    call,          \* the requests
    reader,
    web,
    changes, faults

vars == <<cloud, row, call, reader, web, changes, faults>>

Gone == -1         \* the domain is not in the cloud
NoCert == 0
Unknown == [d \in Domains |-> Gone]

Ids == 1..Cardinality(Domains)
NoRow == 0

Calls == Refreshes \cup {Reader}

(***************************************************************************)
(* snapshot is what the request saw of the cloud, states what Load knows   *)
(* of the rows.                                                            *)
(***************************************************************************)
Call == [pc       : {"idle", "query", "create", "answer"},
         snapshot : [Domains -> Gone..MaxExpiry],
         states   : [Domains -> Ids \cup {NoRow}]]
Free == [pc |-> "idle", snapshot |-> Unknown, states |-> [d \in Domains |-> NoRow]]

(***************************************************************************)
(* got counts how often the reader was given a domain.  Two ghosts:        *)
(* changed, the domains that changed since its first page was observed,    *)
(* and disturbed, whether one of its cursors changed from the observation  *)
(* of its own page to that of the next.                                    *)
(***************************************************************************)
ReaderState == [cursor    : Ids \cup {NoRow},
                got       : [Domains -> 0..2],
                done      : BOOLEAN,
                changed   : SUBSET Domains,
                disturbed : BOOLEAN]
Fresh == [cursor |-> NoRow, got |-> [d \in Domains |-> 0], done |-> FALSE,
          changed |-> {}, disturbed |-> FALSE]

(***************************************************************************)
(* told, a ghost: the last answer that reached the web page was a list.    *)
(***************************************************************************)
TypeOK ==
    /\ cloud \in [Domains -> Gone..MaxExpiry]
    /\ row \in [Domains -> Ids \cup {NoRow}]
    /\ call \in [Calls -> Call]
    /\ reader \in ReaderState
    /\ web \in [data : [Domains -> Gone..MaxExpiry], error : BOOLEAN, loading : BOOLEAN,
                told : BOOLEAN]
    /\ changes \in 0..MaxChanges /\ faults \in 0..MaxFaults

Init ==
    /\ cloud \in [Domains -> Gone..MaxExpiry]
    /\ row = [d \in Domains |-> NoRow]
    /\ call = [c \in Calls |-> Free]
    /\ reader = Fresh
    /\ web = [data |-> Unknown, error |-> FALSE, loading |-> TRUE, told |-> FALSE]
    /\ changes = 0 /\ faults = 0

-----------------------------------------------------------------------------
(***************************************************************************)
(* The clients.                                                            *)
(***************************************************************************)

\* fetchData: an error that is shown goes when the request leaves.
Started == [web EXCEPT !.loading = TRUE, !.error = FALSE]

Succeeded(data) == [web EXCEPT !.data = data, !.loading = FALSE, !.told = TRUE]

Failed_InSilence == [web EXCEPT !.data = Unknown, !.loading = FALSE, !.told = FALSE]
Failed == [web EXCEPT !.data = Unknown, !.error = TRUE, !.loading = FALSE, !.told = FALSE]

\* The request leaves and the cloud is observed (cloudstate.Refresh, forced).
Ask(c) ==
    /\ call[c].pc = "idle"
    /\ call' = [call EXCEPT ![c] = [Free EXCEPT !.pc = "query", !.snapshot = cloud]]
    /\ IF c = Reader
       THEN /\ ~reader.done
            /\ reader' = IF reader.cursor = NoRow THEN Fresh
                         ELSE [reader EXCEPT !.disturbed = @ \/
                                 \E d \in Domains : /\ row[d] = reader.cursor
                                                    /\ call[c].snapshot[d] # cloud[d]]
            /\ UNCHANGED web
       ELSE web' = Started /\ UNCHANGED reader
    /\ UNCHANGED <<cloud, row, changes, faults>>

\* A request ends.  The ghost of the next page is told what this one saw.
End(c) ==
    call' = [call EXCEPT ![c] = IF c = Reader /\ reader'.cursor # NoRow
                                THEN [Free EXCEPT !.snapshot = call[c].snapshot] ELSE Free]

\* An answer that is an error: the page shows it, the reader starts again.
Refuse(c) ==
    /\ IF c = Reader THEN reader' = Fresh /\ UNCHANGED web
       ELSE web' = Failed /\ UNCHANGED reader
    /\ End(c)

-----------------------------------------------------------------------------
(***************************************************************************)
(* The handler.                                                            *)
(***************************************************************************)
Seen(c) == {d \in Domains : call[c].snapshot[d] # Gone}

\* Load: the rows of the domains that were seen, in one query.
Query(c) ==
    /\ call[c].pc = "query"
    /\ call' = [call EXCEPT ![c].pc = "create",
                            ![c].states = [d \in Domains |-> IF d \in Seen(c) THEN row[d] ELSE NoRow]]
    /\ UNCHANGED <<cloud, row, reader, web, changes, faults>>

\* The row of another request that was faster is read again.
Conflict_Ignored(d) == NoRow
Conflict(d) == row[d]

\* Load: a row for each domain that had none.  Ids are UUIDs, in no order.
Missing(c) == {d \in Seen(c) : call[c].states[d] = NoRow}

Create(c) ==
    /\ call[c].pc = "create"
    /\ IF Missing(c) = {}
       THEN call' = [call EXCEPT ![c].pc = "answer"] /\ UNCHANGED row
       ELSE \E d \in Missing(c) :
              IF row[d] = NoRow
              THEN \E id \in {i \in Ids : \A e \in Domains : row[e] # i} :
                     /\ row' = [row EXCEPT ![d] = id]
                     /\ call' = [call EXCEPT ![c].states[d] = id]
              ELSE /\ call' = [call EXCEPT ![c].states[d] = Conflict(d),
                                           ![c].pc = IF Missing(c) = {d} THEN "answer" ELSE @]
                   /\ UNCHANGED row
    /\ UNCHANGED <<cloud, reader, web, changes, faults>>

\* The observation is not complete (no list is better than a part of one), or a
\* query of Load fails: the rows that were created before it stay.
Abort(c) ==
    /\ \/ call[c].pc = "query"
       \/ call[c].pc = "create" /\ Missing(c) # {}
    /\ faults < MaxFaults /\ faults' = faults + 1
    /\ Refuse(c)
    /\ UNCHANGED <<cloud, row, changes>>

\* currentCertificates: domains without a certificate, then by its end, then by id.
Before(c, d, e) ==
    LET end == call[c].snapshot
    IN end[d] < end[e] \/ (end[d] = end[e] /\ call[c].states[d] < call[c].states[e])

\* The item of the cursor, if it is still listed, and the items after it.
AtCursor == {d \in Seen(Reader) : call[Reader].states[d] = reader.cursor}

Follows_Itself(e, d) == ~Before(Reader, d, e)
Follows(e, d) == Before(Reader, e, d)

Rest == IF reader.cursor = NoRow THEN Seen(Reader)
        ELSE {d \in Seen(Reader) : \E e \in AtCursor : Follows(e, d)}

\* The web page asks for the first 100: all there are.
AnswerWeb(c) ==
    /\ c # Reader
    /\ call[c].pc = "answer"
    /\ web' = Succeeded(call[c].snapshot)
    /\ UNCHANGED <<cloud, row, reader, changes, faults>>
    /\ End(c)

\* The reader gets a page, and the cursor of the next one if there are more.
Give(page, next) ==
    reader' = [reader EXCEPT
        !.got = [d \in Domains |-> IF d \notin page THEN @[d] ELSE IF @[d] = 0 THEN 1 ELSE 2],
        !.done = (next = NoRow),
        !.cursor = next]

AnswerReader ==
    /\ call[Reader].pc = "answer"
    /\ \/ /\ reader.cursor # NoRow /\ AtCursor = {}  \* the cursor has left the cloud
          /\ Refuse(Reader)
       \/ /\ reader.cursor = NoRow \/ AtCursor # {}
          /\ \/ Cardinality(Rest) <= Limit /\ Give(Rest, NoRow)
             \/ /\ Cardinality(Rest) > Limit
                /\ \E last \in Rest :
                      LET page == {d \in Rest : ~Before(Reader, last, d)}
                      IN Cardinality(page) = Limit /\ Give(page, call[Reader].states[last])
          /\ End(Reader) /\ UNCHANGED web
    /\ UNCHANGED <<cloud, row, changes, faults>>

\* The reader reads the list once more.
Again ==
    /\ reader.done
    /\ reader' = Fresh
    /\ UNCHANGED <<cloud, row, call, web, changes, faults>>

-----------------------------------------------------------------------------
\* A certificate is renewed or deleted, a domain appears or leaves.
Change(d) ==
    /\ changes < MaxChanges /\ changes' = changes + 1
    /\ cloud' \in {[cloud EXCEPT ![d] = e] : e \in (Gone..MaxExpiry) \ {cloud[d]}}
    /\ reader' = [reader EXCEPT !.changed = @ \cup {d}]
    /\ UNCHANGED <<row, call, web, faults>>

Handle(c) == Query(c) \/ Create(c) \/ Abort(c)

Next ==
    \/ \E c \in Calls : Ask(c) \/ Handle(c) \/ AnswerWeb(c)
    \/ AnswerReader
    \/ Again
    \/ \E d \in Domains : Change(d)

Spec == Init /\ [][Next]_vars

-----------------------------------------------------------------------------
(***************************************************************************)
(* Load gives every domain that was seen its row, also when two requests   *)
(* create the same row at once: the handler, which dereferences them all,  *)
(* meets no nil.                                                           *)
(***************************************************************************)
EveryItemHasItsRow ==
    \A c \in Calls : call[c].pc = "answer" =>
        \A d \in Seen(c) : call[c].states[d] = row[d] /\ row[d] # NoRow

(***************************************************************************)
(* Page after page, the reader is given every domain that did not change   *)
(* exactly once, however others move in the list meanwhile, unless one of  *)
(* its cursors was such an other: the page after a renewed domain starts   *)
(* at its new place.                                                       *)
(***************************************************************************)
UnchangedIsReadOnce ==
    reader.done /\ ~reader.disturbed =>
        \A d \in Domains \ reader.changed :
            reader.got[d] = IF cloud[d] = Gone THEN 0 ELSE 1

(***************************************************************************)
(* An empty page without an error means that there are no certificates: a  *)
(* failure is never shown as an empty list, however refreshes overlap.     *)
(***************************************************************************)
EmptyIsTrue ==
    ~web.loading /\ ~web.error /\ web.data = Unknown => web.told

=============================================================================
