----------------------------- MODULE Assignment -----------------------------
(***************************************************************************)
(* Who coordinates an event, and who is told of what is asked about it:    *)
(* the Lead's assignments and reassignments (backend/src/lead), the        *)
(* coordinators' availability (backend/src/coordinator-availability), and  *)
(* the coordinator's notices of change requests, cancellation requests and *)
(* clarifications (backend/src/clarifications).                            *)
(*                                                                         *)
(* A handler that works on an event locks its row first, so it is one step *)
(* unless another row matters too: an assignment locks the event, then     *)
(* checks the coordinator's availability and holds that row FOR SHARE      *)
(* until it commits, and is two steps. A save of the availability locks    *)
(* no event: its UPDATE compares with the value its snapshot had, and the  *)
(* queries that tell the Lead follow one by one, each committed on its     *)
(* own. Any of them may fail and leave the earlier ones standing, and the  *)
(* saves of one coordinator may cross.                                     *)
(*                                                                         *)
(* Abstracted: Planning stands for Approved as well; the details, reviews  *)
(* and outcomes of requests (EventChanges); the notices of bookings,       *)
(* holds and equipment, which a reassignment treats as it does those here; *)
(* the notices to the organiser and to the former coordinator; accounts    *)
(* that are made inactive; the second and later Leads.                     *)
(***************************************************************************)
EXTENDS Naturals

CONSTANTS
  Coordinators, \* the active coordinators who are not the Lead
  None,         \* not a coordinator
  MaxMoves,     \* bound: assignments and reassignments
  MaxAsked,     \* bound: requests, and clarification threads
  MaxSaves,     \* bound: saves of an availability
  Calls         \* bound: the saves under way at a time

ASSUME NoneAssumption == None \notin Coordinators
ASSUME BoundsAssumption ==
  /\ MaxMoves \in Nat
  /\ MaxAsked \in Nat
  /\ MaxSaves \in Nat

VARIABLES
  status,    \* events.status
  owner,     \* events.coordinator_id, or None
  move,      \* the coordinator an uncommitted assignment is to, or None
  pending,   \* the kinds of request that await a decision
  heard,     \* of each kind: who was told of its latest request
  thread,    \* who opened the unresolved clarification, or None
  unread,    \* the coordinators' unread notices, <<recipient, kind>>
  available, \* users.is_available
  saves,     \* the saves of an availability under way
  lead,      \* the coordinators that an unread notice to the Lead names
  told,      \* those the Lead was told of since they became unavailable
  astray,    \* history: those whose save crossed another or broke off, and
             \* none has run through alone since
  moves, asks, saved \* how many of each there have been

event == <<status, pending, thread>>
vars == <<status, owner, move, pending, heard, thread, unread, available,
          saves, lead, told, astray, moves, asks, saved>>

-----------------------------------------------------------------------------
(* Types *)

Status == {"Submitted", "Planning", "Confirmed", "Rejected", "Completed",
           "Cancelled"}
Active == {"Submitted", "Planning", "Confirmed"}

Requests == {"change", "cancellation"}
Kinds    == Requests \cup {"yours", "clarification"}

\* One save: its value, the value its snapshot had, and what it does next.
Save == [call : Calls, of : Coordinators, to : BOOLEAN,
         was : BOOLEAN, next : {"update", "count", "tell", "clear"}]

TypeOK ==
  /\ status \in Status
  /\ owner \in Coordinators \cup {None}
  /\ move \in Coordinators \cup {None}
  /\ pending \subseteq Requests
  /\ heard \in [Requests -> SUBSET Coordinators]
  /\ thread \in Coordinators \cup {None}
  /\ unread \subseteq Coordinators \X Kinds
  /\ available \in [Coordinators -> BOOLEAN]
  /\ saves \subseteq Save
  /\ lead \subseteq Coordinators
  /\ told \subseteq Coordinators
  /\ astray \subseteq Coordinators
  /\ moves \in 0 .. MaxMoves
  /\ asks \in 0 .. MaxAsked
  /\ saved \in 0 .. MaxSaves

Init ==
  /\ status = "Submitted"
  /\ owner = None
  /\ move = None
  /\ pending = {}
  /\ heard = [k \in Requests |-> {}]
  /\ thread = None
  /\ unread = {}
  /\ available = [c \in Coordinators |-> TRUE]
  /\ saves = {}
  /\ lead = {}
  /\ told = {}
  /\ astray = {}
  /\ moves = 0
  /\ asks = 0
  /\ saved = 0

-----------------------------------------------------------------------------
(* Assignment and reassignment                                             *)

Unlocked == move = None

\* availableCoordinator: the coordinator's row is held until the commit.
MoveTo(c) ==
  /\ Unlocked
  /\ moves < MaxMoves
  /\ available[c]
  /\ move' = c
  /\ moves' = moves + 1
  /\ UNCHANGED <<event, owner, heard, unread, available, saves, lead, told,
                 astray, asks, saved>>

Assign(c) ==
  /\ owner = None
  /\ status = "Submitted"
  /\ MoveTo(c)

\* The page sends the coordinator it showed.
Reassign(shown, c) ==
  /\ owner # None
  /\ status \in Active
  /\ owner = shown
  /\ owner # c
  /\ MoveTo(c)

(* A faulty variant of the next operator: what is pending is passed on     *)
(* without a word of it.                                                   *)
HandOverSilently(former, c) ==
  /\ unread' = {n \in unread : n[1] # former} \cup {<<c, "yours">>}
  /\ UNCHANGED heard

\* The former coordinator's notices no longer apply, and the new one is
\* told of the event and of what is pending on it.
HandOver(former, c) ==
  /\ unread' = {n \in unread : n[1] # former}
                 \cup {<<c, k>> : k \in pending \cup {"yours"}}
  /\ heard' = [k \in Requests |->
                 IF k \in pending THEN heard[k] \cup {c} ELSE heard[k]]

\* The writes of an assignment, and its commit.
CommitMove ==
  /\ move # None
  /\ owner' = move
  /\ HandOver(owner, move)
  /\ move' = None
  /\ UNCHANGED <<event, available, saves, lead, told, astray, moves, asks,
                 saved>>

-----------------------------------------------------------------------------
(* What is asked about the event, and who is told                          *)

(* A faulty variant of the next operator: nobody is told as if they were   *)
(* somebody.                                                               *)
TellNobody(who, kind) == unread' = unread \cup {<<who, kind>>}

\* A notice to the coordinator, if there is one.
Tell(who, kind) ==
  unread' = IF who = None THEN unread ELSE unread \cup {<<who, kind>>}

\* ChangeRequestsService.create and CancellationRequestsService.create: one
\* pending request of a kind. Without a coordinator, the assignment tells.
Ask(kind) ==
  /\ Unlocked
  /\ asks < MaxAsked
  /\ status \in Active
  /\ kind \notin pending
  /\ pending' = pending \cup {kind}
  /\ asks' = asks + 1
  /\ Tell(owner, kind)
  /\ heard' = [heard EXCEPT ![kind] = {owner} \ {None}]
  /\ UNCHANGED <<status, owner, move, thread, available, saves, lead, told,
                 astray, moves, saved>>

\* The end of a request: withdrawn by the organiser in whatever status (a
\* change request), or declined by the coordinator. The notice stays.
End(kind) ==
  /\ Unlocked
  /\ kind \in pending
  /\ kind = "cancellation" => owner # None /\ status \in Active
  /\ pending' = pending \ {kind}
  /\ UNCHANGED <<status, owner, move, heard, thread, unread, available,
                 saves, lead, told, astray, moves, asks, saved>>

\* createClarification: only the assigned coordinator opens one.
OpenThread ==
  /\ Unlocked
  /\ asks < MaxAsked
  /\ owner # None
  /\ status \in {"Submitted", "Planning"}
  /\ thread = None
  /\ thread' = owner
  /\ asks' = asks + 1
  /\ UNCHANGED <<status, owner, move, pending, heard, unread, available,
                 saves, lead, told, astray, moves, saved>>

(* A faulty variant of the next operator: the thread's author is told.     *)
Opener == thread

\* The coordinator whom an answer of the organiser's goes to.
Recipient == owner

\* reply by the organiser: closed once Confirmed.
Reply ==
  /\ Unlocked
  /\ thread # None
  /\ status \notin {"Cancelled", "Confirmed"}
  /\ Tell(Recipient, "clarification")
  /\ UNCHANGED <<event, owner, move, heard, available, saves, lead, told,
                 astray, moves, asks, saved>>

\* resolve, by the organiser, who tells the coordinator, or the other way.
Resolve(by) ==
  /\ Unlocked
  /\ thread # None
  /\ status # "Cancelled"
  /\ by = "coordinator" => owner # None
  /\ thread' = None
  /\ IF by = "organiser" THEN Tell(Recipient, "clarification")
                         ELSE UNCHANGED unread
  /\ UNCHANGED <<status, owner, move, pending, heard, available, saves,
                 lead, told, astray, moves, asks, saved>>

\* readNotification.
Read(n) ==
  /\ unread' = unread \ {n}
  /\ UNCHANGED <<event, owner, move, heard, available, saves, lead, told,
                 astray, moves, asks, saved>>

-----------------------------------------------------------------------------
(* The event's status, moved by the other modules' handlers                *)

Moves == {<<"Submitted", "Planning">>, <<"Submitted", "Rejected">>,
          <<"Planning", "Confirmed">>, <<"Confirmed", "Planning">>,
          <<"Confirmed", "Completed">>}

\* approve and reject, confirm and complete by the assigned coordinator; an
\* approved change request takes a Confirmed event back to Planning.
Advance(to) ==
  /\ Unlocked
  /\ owner # None
  /\ <<status, to>> \in Moves
  /\ <<status, to>> = <<"Confirmed", "Planning">> => "change" \in pending
  /\ status' = to
  /\ pending' = IF <<status, to>> = <<"Confirmed", "Planning">>
                THEN pending \ {"change"} ELSE pending
  /\ UNCHANGED <<owner, move, heard, thread, unread, available, saves, lead,
                 told, astray, moves, asks, saved>>

\* cancelInside: the pending change request is closed; the cancellation
\* request is decided only when it is the reason.
Cancel(accepted) ==
  /\ Unlocked
  /\ owner # None
  /\ status \in Active
  /\ accepted => "cancellation" \in pending
  /\ status' = "Cancelled"
  /\ pending' = IF accepted THEN {} ELSE pending \ {"change"}
  /\ UNCHANGED <<owner, move, heard, thread, unread, available, saves, lead,
                 told, astray, moves, asks, saved>>

-----------------------------------------------------------------------------
(* The coordinators' availability, and the notice to the Lead              *)

Settled(c) == \A s \in saves : s.of # c

\* The UPDATE starts: its FROM subquery reads the snapshot. Nothing keeps a
\* second tab, or the call after one that was given up, from crossing it.
StartSave(k, c, to) ==
  /\ saved < MaxSaves
  /\ \A s \in saves : s.call # k
  /\ saved' = saved + 1
  /\ saves' = saves \cup {[call |-> k, of |-> c, to |-> to,
                           was |-> available[c], next |-> "update"]}
  /\ astray' = IF Settled(c) THEN astray ELSE astray \cup {c}
  /\ UNCHANGED <<event, owner, move, heard, unread, available, lead, told,
                 moves, asks>>

Then(s, next) == (saves \ {s}) \cup {[s EXCEPT !.next = next]}

(* A faulty variant of the next operator: the check of an assignment does  *)
(* not hold the coordinator's row.                                         *)
ShareLockFree(c) == c \in Coordinators

\* No uncommitted assignment holds the coordinator's row.
RowFree(c) == move # c

\* The UPDATE takes the row and commits; the Lead's notice follows from the
\* two values the statement returned.
Update(s) ==
  /\ s.next = "update"
  /\ RowFree(s.of)
  /\ available' = [available EXCEPT ![s.of] = s.to]
  /\ saves' = IF s.was /\ ~s.to THEN Then(s, "count")
              ELSE IF ~s.was /\ s.to THEN Then(s, "clear")
              ELSE saves \ {s}
  /\ told' = IF available[s.of] /\ ~s.to THEN told \ {s.of} ELSE told
  /\ UNCHANGED <<event, owner, move, heard, unread, lead, astray, moves,
                 asks, saved>>

\* The coordinator has an active event that has been committed.
Busy(c) == owner = c /\ status \in Active

\* A save that comes to its end, whose value stands and beside which no other
\* is under way, has put its coordinator's notices right.
Mended(s) ==
  /\ \A t \in saves \ {s} : t.of # s.of
  /\ available[s.of] = s.to

EndSave(s) ==
  /\ saves' = saves \ {s}
  /\ astray' = IF Mended(s) THEN astray \ {s.of} ELSE astray

\* tellLead: nothing to tell of a coordinator without an active event.
Count(s) ==
  /\ s.next = "count"
  /\ IF Busy(s.of) THEN saves' = Then(s, "tell") /\ UNCHANGED astray
                   ELSE EndSave(s)
  /\ UNCHANGED <<event, owner, move, heard, unread, available, lead, told,
                 moves, asks, saved>>

TellLead(s) ==
  /\ s.next = "tell"
  /\ lead' = lead \cup {s.of}
  /\ told' = told \cup {s.of}
  /\ EndSave(s)
  /\ UNCHANGED <<event, owner, move, heard, unread, available, moves, asks,
                 saved>>

ClearLeadNotice(s) ==
  /\ s.next = "clear"
  /\ lead' = lead \ {s.of}
  /\ EndSave(s)
  /\ UNCHANGED <<event, owner, move, heard, unread, available, told, moves,
                 asks, saved>>

\* A statement fails, or the process stops: what was committed stays, and
\* nobody goes on with the rest.
SaveFails(s) ==
  /\ saves' = saves \ {s}
  /\ astray' = IF s.next = "update" THEN astray ELSE astray \cup {s.of}
  /\ UNCHANGED <<event, owner, move, heard, unread, available, lead, told,
                 moves, asks, saved>>

\* readNotification, by the Lead.
LeadReads(c) ==
  /\ lead' = lead \ {c}
  /\ UNCHANGED <<event, owner, move, heard, unread, available, saves, told,
                 astray, moves, asks, saved>>

-----------------------------------------------------------------------------

Next ==
  \/ \E c \in Coordinators : Assign(c)
  \/ \E shown, c \in Coordinators : Reassign(shown, c)
  \/ CommitMove
  \/ \E kind \in Requests : Ask(kind)
  \/ \E kind \in Requests : End(kind)
  \/ OpenThread
  \/ Reply
  \/ \E by \in {"organiser", "coordinator"} : Resolve(by)
  \/ \E n \in unread : Read(n)
  \/ \E to \in Status : Advance(to)
  \/ \E accepted \in BOOLEAN : Cancel(accepted)
  \/ \E k \in Calls, c \in Coordinators, to \in BOOLEAN :
       StartSave(k, c, to)
  \/ \E s \in saves : Update(s)
  \/ \E s \in saves : Count(s)
  \/ \E s \in saves : TellLead(s)
  \/ \E s \in saves : ClearLeadNotice(s)
  \/ \E s \in saves : SaveFails(s)
  \/ \E c \in lead : LeadReads(c)

Spec == Init /\ [][Next]_vars

-----------------------------------------------------------------------------
(* Properties                                                              *)

(* Whoever coordinates the event has been told of every request that is    *)
(* pending on it, however the request, the assignment and the              *)
(* reassignments were ordered ("a coordinator who receives an event that   *)
(* already has a pending request is told about it the same way").          *)
PendingIsTold ==
  owner # None => \A kind \in pending : owner \in heard[kind]

(* Nobody but the event's coordinator has an unread notice that says the   *)
(* event is theirs or asks them to act on it: a reassignment takes back    *)
(* what was sent, and no later answer goes to a former coordinator.        *)
FormerIsNotAsked == \A n \in unread : n[1] = owner

(* Once the saves of a coordinator are over, the Lead knows: of every      *)
(* unavailable coordinator who holds an active event they have been told,  *)
(* because an assignment is either seen by the count that follows the save *)
(* or refused because of it, and no notice is left of an available one.    *)
(* Whoever went astray, by a save that broke off after its UPDATE or that  *)
(* crossed another, is excepted until a save runs through alone.           *)
LeadKnows ==
  \A c \in Coordinators \ astray :
    Settled(c) => IF available[c] THEN c \notin lead
                                 ELSE Busy(c) => c \in told

-----------------------------------------------------------------------------
(* The inductive invariant *)

MoveIsAvailable == move # None => available[move]

SavesWellFormed ==
  \A s \in saves :
    /\ \A t \in saves : t.call = s.call => t = s
    /\ s.next \in {"count", "tell"} => ~s.to
    /\ s.next = "clear" => s.to

\* The saves of a coordinator not astray follow each other, so the value a
\* statement has read is the one it replaces, and the one it wrote stands.
SavesInOrder ==
  \A s \in saves : s.of \notin astray =>
    /\ \A t \in saves : t.of = s.of => t = s
    /\ s.next = "update" => s.was = available[s.of]
    /\ s.next # "update" => s.to = available[s.of]

\* What the Lead does not know yet, or knows no longer, is about to be put right.
LeadIsBeingTold ==
  \A c \in Coordinators \ astray :
    /\ c \in lead => \/ ~available[c]
                    \/ \E s \in saves : s.of = c /\ s.next = "clear"
    /\ ~available[c] /\ Busy(c) =>
         \/ c \in told
         \/ \E s \in saves : s.of = c /\ s.next \in {"count", "tell"}

(* Checked and proved to be inductive: the types, a coordinator who is     *)
(* being assigned an event is available, and every save that is not astray *)
(* still has before it the statement that tells the Lead the truth.        *)
IInv ==
  /\ TypeOK
  /\ MoveIsAvailable
  /\ SavesWellFormed
  /\ SavesInOrder
  /\ LeadIsBeingTold
  /\ PendingIsTold
  /\ FormerIsNotAsked

-----------------------------------------------------------------------------
(* What a comment of the repository says *)

(* coordinator-availability.service.ts:18-21: "SPM-47 AC10: going          *)
(* unavailable with active events tells the Lead those events may need     *)
(* reassignment". So a save that is answered, and leaves no other of its   *)
(* coordinator under way, leaves nobody unavailable, with an active event  *)
(* and unknown to the Lead.                                                *)
AnsweredSaveIsTold ==
  [][\A s \in saves :
       /\ Update(s) \/ Count(s) \/ TellLead(s)
       /\ Settled(s.of)'
       => available'[s.of] \/ ~Busy(s.of)' \/ s.of \in told']_vars
=============================================================================
