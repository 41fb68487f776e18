--------------------------------- MODULE Crm ---------------------------------
(***************************************************************************)
(* Leads, call lists and opportunities (internal/crm).  Representatives    *)
(* take leads off shared lists and log their calls, managers fill, archive *)
(* and delete lists, leads become customers, and opportunities are won by  *)
(* quotes accepted elsewhere.                                              *)
(*                                                                         *)
(* Transactions are READ COMMITTED.  A claim and an addition to a list are *)
(* two steps, the statement's snapshot and its effect, and so is the       *)
(* statement by which an accepted quote wins its opportunities; linking a  *)
(* quote and moving an opportunity read before they write.  The other      *)
(* commands lock the row they decide on, or check its version, and are one *)
(* step.                                                                   *)
(***************************************************************************)
EXTENDS Integers, FiniteSets

CONSTANTS Leads, Lists, Reps,
          Chief,        \* the representative with crm.manage and crm.view_all
          Phone,        \* number of each lead
          MaxAttempts,  \* attempts of each list before it gives a lead up
          MaxCalls,     \* bound: calls of one lead
          Opps, Stages, StageKind,
          MaxMoves      \* bound: changes of one opportunity

ASSUME CrmAssumption ==
    /\ Chief \in Reps /\ "nobody" \notin Reps /\ "none" \notin Lists
    /\ MaxAttempts \in [Lists -> Nat \ {0}] /\ MaxCalls \in Nat /\ MaxMoves \in Nat
    /\ StageKind \in [Stages -> {"OPEN", "WON", "LOST"}]

VARIABLES
    lead,      \* the leads
    task,      \* the follow-up task of each lead
    list,      \* state of each list: "active", "archived", "deleted"
    item,      \* the entry of each lead in each list
    claim,     \* the claim each representative is making
    adding,    \* leads that are being added to each list
    stage,     \* active stages
    opp,       \* the opportunities
    linking,   \* quote status read by the linking command of each opportunity
    moving,    \* stage and version read by the move of each opportunity
    winning,   \* the stages the statement that wins the opportunities has seen
    offer      \* the quote: status, whether its acceptance was told and handled

leadVars == <<lead, task, list, item, claim, adding>>
pipeVars == <<stage, opp, linking, moving, winning, offer>>

NoRep == "nobody"
NoLead == [status |-> "NONE", dnc |-> FALSE, calls |-> 0, next |-> "none", owner |-> NoRep]
NoItem == [status |-> "NONE", attempts |-> 0, due |-> FALSE, by |-> NoRep, live |-> FALSE, met |-> {}]
NoClaim == [on |-> "none", seen |-> {}, met |-> {}]
Queued == [NoItem EXCEPT !.status = "PENDING", !.due = TRUE]
NoOpp == [of |-> "none", stage |-> "none", linked |-> FALSE, version |-> 0, excused |-> FALSE]
NoStage == [o \in Opps |-> "none"]
NotWinning == [on |-> FALSE, to |-> "none", seen |-> NoStage]

Waiting(i) == i.status \in {"PENDING", "CALLBACK"}
Callable(l) == ~ lead[l].dnc /\ lead[l].status \notin {"NONE", "CONVERTED", "DISQUALIFIED"}
canSee(r, l) == r = Chief \/ lead[l].owner \in {NoRep, r}
Freed(i) == [i EXCEPT !.by = NoRep, !.live = FALSE, !.met = {}]
-----------------------------------------------------------------------------
(* Leads *)
editableStatuses == {"NEW", "CONTACTED", "QUALIFIED", "DISQUALIFIED"}
callOutcomes == {"NO_ANSWER", "WRONG_NUMBER", "CALLBACK", "NOT_INTERESTED", "INTERESTED", "DO_NOT_CALL"}

findDuplicates(l) == {k \in Leads \ {l} : lead[k].status # "NONE" /\ Phone[k] = Phone[l]}
(* A new lead belongs to its creator unless a manager leaves it open *)
FirstOwner(r) == IF r = Chief THEN NoRep ELSE r

CreateLead(r, l, allowDuplicate) ==
    /\ lead[l].status = "NONE"
    /\ allowDuplicate \/ findDuplicates(l) = {}
    /\ lead' = [lead EXCEPT ![l] = [NoLead EXCEPT !.status = "NEW", !.owner = FirstOwner(r)]]
    /\ UNCHANGED <<task, list, item, claim, adding>>

(* Numbers that refused are never imported again *)
ImportLeads(r, l, row, q, allowDuplicate) ==
    /\ lead[l].status = "NONE"
    /\ \A k \in findDuplicates(l) : ~ lead[k].dnc
    /\ allowDuplicate \/ findDuplicates(l) = {}
    /\ q # "none" => (r = Chief /\ list[q] # "deleted" /\ adding[q] = {})
    /\ lead' = [lead EXCEPT ![l] = [NoLead EXCEPT !.status = IF row = "refuses" THEN "DISQUALIFIED" ELSE row,
                                                  !.dnc = row = "refuses", !.owner = FirstOwner(r)]]
    /\ item' = [p \in Lists |-> IF p = q /\ row \notin {"refuses", "DISQUALIFIED"}
                                THEN [item[p] EXCEPT ![l] = Queued] ELSE item[p]]
    /\ UNCHANGED <<task, list, claim, adding>>

(* A converted lead keeps its status; only a manager gives a lead away *)
UpdateLead(r, l, status, next, owner) ==
    /\ lead[l].status # "NONE" /\ canSee(r, l)
    /\ r = Chief \/ owner \in {lead[l].owner, r}
    /\ lead' = [lead EXCEPT ![l].status = IF @ = "CONVERTED" THEN @ ELSE status,
                            ![l].next = next, ![l].owner = owner]
    /\ UNCHANGED <<task, list, item, claim, adding>>

closeLeadItems(items, l, status) ==
    [q \in Lists |-> IF Waiting(items[q][l])
                     THEN [items[q] EXCEPT ![l] = [Freed(items[q][l]) EXCEPT !.status = status]] ELSE items[q]]

SetDoNotCall(r, l, doNotCall) ==
    /\ lead[l].status # "NONE" /\ canSee(r, l)
    /\ ~ doNotCall => r = Chief
    /\ lead' = [lead EXCEPT ![l].dnc = doNotCall, ![l].next = IF doNotCall THEN "none" ELSE @]
    /\ item' = IF doNotCall THEN closeLeadItems(item, l, "SKIPPED") ELSE item
    /\ UNCHANGED <<task, list, claim, adding>>

ApplyCall(s, outcome, callback) ==
    LET called == [s EXCEPT !.calls = @ + 1]
    IN  CASE outcome = "CALLBACK" ->
               [called EXCEPT !.next = "later", !.status = IF @ = "NEW" THEN "CONTACTED" ELSE @]
          [] outcome = "INTERESTED" ->
               [called EXCEPT !.status = "QUALIFIED", !.next = IF callback THEN "later" ELSE "none"]
          [] outcome = "NOT_INTERESTED" -> [called EXCEPT !.status = "DISQUALIFIED", !.next = "none"]
          [] outcome = "DO_NOT_CALL" ->
               [called EXCEPT !.status = "DISQUALIFIED", !.dnc = TRUE, !.next = "none"]
          [] OTHER -> IF callback THEN [called EXCEPT !.next = "later"] ELSE called

NextItemState(outcome, attempts, max) ==
    CASE outcome = "CALLBACK" -> "CALLBACK"
      [] outcome = "NO_ANSWER" /\ attempts < max -> "PENDING"
      [] OTHER -> "DONE"

(* The call counts in every list the lead waits in *)
advanceCallListItem(l, outcome) ==
    [q \in Lists |->
       IF Waiting(item[q][l])
       THEN LET attempts == item[q][l].attempts + 1
            IN [item[q] EXCEPT ![l] = [Freed(item[q][l]) EXCEPT !.status = NextItemState(outcome, attempts, MaxAttempts[q]),
                                                                !.attempts = attempts, !.due = FALSE]]
       ELSE item[q]]

(* The lead's row is locked; "from" is the list the call was made from *)
LogCall(r, l, outcome, callback, from) ==
    LET advanced == advanceCallListItem(l, outcome)
    IN  /\ lead[l].status # "NONE" /\ canSee(r, l)
        /\ ~ lead[l].dnc /\ lead[l].status # "CONVERTED"
        /\ outcome = "CALLBACK" => callback
        /\ lead[l].calls < MaxCalls
        /\ from # "none" => Waiting(item[from][l])
        /\ lead' = [lead EXCEPT ![l] = [ApplyCall(lead[l], outcome, callback)
                                          EXCEPT !.owner = IF @ = NoRep THEN r ELSE @]]
        /\ item' = IF outcome = "DO_NOT_CALL" THEN closeLeadItems(advanced, l, "SKIPPED") ELSE advanced
        /\ task' = IF outcome = "CALLBACK" THEN [task EXCEPT ![l] = "open"] ELSE task
        /\ UNCHANGED <<list, claim, adding>>

(* A note, a meeting or a task; a call to a lead is refused here *)
CreateActivity(r, l, kind) ==
    /\ lead[l].status # "NONE" /\ canSee(r, l)
    /\ lead' = IF kind = "MEETING" /\ lead[l].status = "NEW" THEN [lead EXCEPT ![l].status = "CONTACTED"] ELSE lead
    /\ task' = IF kind = "TASK" THEN [task EXCEPT ![l] = "open"] ELSE task
    /\ UNCHANGED <<list, item, claim, adding>>

SetTaskDone(r, l, done) ==
    /\ task[l] # "none" /\ canSee(r, l)
    /\ task' = [task EXCEPT ![l] = IF done THEN "done" ELSE "open"]
    /\ UNCHANGED <<lead, list, item, claim, adding>>
-----------------------------------------------------------------------------
(* Call lists *)
CreateCallList(q) ==
    /\ list[q] = "deleted"
    /\ list' = [list EXCEPT ![q] = "active"]
    /\ UNCHANGED <<lead, task, item, claim, adding>>

verdict(q, l, includeCalled) ==
    CASE ~ Callable(l) -> "not_callable"
      [] item[q][l].status # "NONE" -> "in_list"
      [] \E p \in Lists \ {q} : list[p] = "active" /\ Waiting(item[p][l]) -> "other_list"
      [] ~ includeCalled /\ lead[l].calls > 0 /\ lead[l].next # "due" -> "called"
      [] OTHER -> "add"

(* The list is locked, the leads and the other lists are not *)
BeginAddLeads(q, ls, includeCalled) ==
    /\ list[q] = "active" /\ adding[q] = {}
    /\ adding' = [adding EXCEPT ![q] = {l \in ls : verdict(q, l, includeCalled) = "add"}]
    /\ UNCHANGED <<lead, task, list, item, claim>>

CommitAddLeads(q) ==
    /\ adding[q] # {}
    /\ item' = [item EXCEPT ![q] = [l \in Leads |-> IF l \in adding[q] THEN Queued ELSE item[q][l]]]
    /\ adding' = [adding EXCEPT ![q] = {}]
    /\ UNCHANGED <<lead, task, list, claim>>

ArchiveCallList(q, archived) ==
    /\ list[q] # "deleted" /\ adding[q] = {}
    /\ list' = [list EXCEPT ![q] = IF archived THEN "archived" ELSE "active"]
    /\ item' = [item EXCEPT ![q] = [l \in Leads |-> Freed(item[q][l])]]
    /\ UNCHANGED <<lead, task, claim, adding>>

DeleteCallList(q) ==
    /\ list[q] # "deleted" /\ adding[q] = {}
    /\ list' = [list EXCEPT ![q] = "deleted"]
    /\ item' = [item EXCEPT ![q] = [l \in Leads |-> NoItem]]
    /\ UNCHANGED <<lead, task, claim, adding>>

RemoveItems(q, l) ==
    /\ item[q][l].status # "NONE"
    /\ item' = [item EXCEPT ![q][l] = NoItem]
    /\ UNCHANGED <<lead, task, list, claim, adding>>

(* What the claim asks of the entry itself, again once its row is locked *)
Takeable(r, q, l) ==
    LET i == item[q][l] IN Waiting(i) /\ i.due /\ (~ i.live \/ i.by = r)
(* A bug: only the entry itself is looked at, not the lead's other entries *)
MutHeldElsewhere(r, q, l) == FALSE
HeldElsewhere(r, q, l) == \E p \in Lists \ {q} : item[p][l].live /\ item[p][l].by # r
(* One's own lead comes back first, then callbacks *)
Rank(r, q, l) ==
    CASE item[q][l].by = r /\ item[q][l].live -> 0
      [] item[q][l].status = "CALLBACK" -> 1
      [] OTHER -> 2

InFlight == {r \in Reps : claim[r].on # "none"}
BeginClaim(r, q) ==
    /\ claim[r] = NoClaim /\ list[q] = "active"
    /\ claim' = [s \in Reps |->
         IF s = r
         THEN [on |-> q, met |-> InFlight,
               seen |-> {<<l, Rank(r, q, l)>> : l \in {k \in Leads : /\ Takeable(r, q, k) /\ Callable(k)
                                                                     /\ canSee(r, k) /\ ~ HeldElsewhere(r, q, k)}}]
         ELSE IF s \in InFlight THEN [claim[s] EXCEPT !.met = @ \union {r}] ELSE claim[s]]
    /\ UNCHANGED <<lead, task, list, item, adding>>

ClaimNext(r) ==
    LET q == claim[r].on
        left == {c \in claim[r].seen : Takeable(r, q, c[1])}
    IN  /\ claim[r] # NoClaim
        /\ claim' = [claim EXCEPT ![r] = NoClaim]
        /\ \/ left = {} /\ UNCHANGED item
           \/ \E c \in left :
                /\ \A d \in left : c[2] <= d[2]
                /\ item' = [item EXCEPT ![q] = [l \in Leads |->
                     IF l = c[1] THEN [item[q][l] EXCEPT !.by = r, !.live = TRUE, !.met = claim[r].met]
                     ELSE IF item[q][l].by = r THEN Freed(item[q][l]) ELSE item[q][l]]]
        /\ UNCHANGED <<lead, task, list, adding>>

ReleaseItem(r, q, l, skip) ==
    /\ (r = Chief /\ Waiting(item[q][l])) \/ item[q][l].by = r
    /\ item' = [item EXCEPT ![q][l] = [Freed(item[q][l]) EXCEPT !.status = IF skip THEN "SKIPPED" ELSE item[q][l].status]]
    /\ UNCHANGED <<lead, task, list, claim, adding>>

(* Time passes: a claim runs out, an entry or a lead comes due *)
Lapse(q, l) ==
    /\ \/ item[q][l].live /\ item' = [item EXCEPT ![q][l].live = FALSE] /\ UNCHANGED lead
       \/ Waiting(item[q][l]) /\ ~ item[q][l].due /\ item' = [item EXCEPT ![q][l].due = TRUE] /\ UNCHANGED lead
       \/ lead[l].next = "later" /\ lead' = [lead EXCEPT ![l].next = "due"] /\ UNCHANGED item
    /\ UNCHANGED <<task, list, claim, adding>>
-----------------------------------------------------------------------------
(* The pipeline *)
Kind(s) == StageKind[s]
Opened(o) == opp[o].stage # "none" /\ Kind(opp[o].stage) = "OPEN"

CreateStage(s) ==
    s \notin stage /\ stage' = stage \union {s} /\ UNCHANGED <<opp, linking, moving, winning, offer>>
(* A stage is retired when no open opportunity is in it *)
UpdateStage(s) ==
    /\ s \in stage /\ ~ \E o \in Opps : opp[o].stage = s /\ Opened(o)
    /\ stage' = stage \ {s}
    /\ UNCHANGED <<opp, linking, moving, winning, offer>>

(* The opportunity of a converted lead starts on its customer *)
CreateOpportunity(o, l, s) ==
    /\ opp[o] = NoOpp /\ s \in stage /\ Kind(s) = "OPEN"
    /\ l # "party" => lead[l].status # "NONE"
    /\ opp' = [opp EXCEPT ![o] = [NoOpp EXCEPT !.of = IF l # "party" /\ lead[l].status = "CONVERTED" THEN "party" ELSE l,
                                               !.stage = s, !.version = 1]]
    /\ UNCHANGED <<stage, linking, moving, winning, offer>>

BeginMoveStage(o, s) ==
    /\ opp[o] # NoOpp /\ moving[o].to = "none" /\ s \in stage
    /\ opp[o].version < MaxMoves
    /\ moving' = [moving EXCEPT ![o] = [to |-> s, version |-> opp[o].version]]
    /\ UNCHANGED <<stage, opp, linking, winning, offer>>

(* The event was handled, or the statement that does it has its snapshot *)
Late == offer.handled \/ winning.on
(* Moving back to an open stage reopens; moved between two open stages     *)
(* under the winning statement, the row is passed over by it               *)
MoveStage(o) ==
    /\ moving[o].to # "none"
    /\ moving' = [moving EXCEPT ![o] = [to |-> "none", version |-> 0]]
    /\ opp' = IF opp[o].version = moving[o].version
              THEN [opp EXCEPT ![o] = [opp[o] EXCEPT !.stage = moving[o].to, !.version = @ + 1,
                                                     !.excused = Kind(moving[o].to) = "OPEN" /\ Late]]
              ELSE opp
    /\ UNCHANGED <<stage, linking, winning, offer>>

WonStages == {s \in stage : Kind(s) = "WON"}
(* "none" when no stage is there to win in *)
FirstWon == IF WonStages = {} THEN {"none"} ELSE WonStages
(* A row whose stage is no longer the one the statement saw fails the      *)
(* join's recheck and is left as it is                                     *)
WonRow(x, to, seen) ==
    CASE to = "none" -> [x EXCEPT !.excused = @ \/ x.linked]
      [] to # "none" /\ x.linked /\ Kind(x.stage) = "OPEN" /\ x.stage = seen ->
           [x EXCEPT !.stage = to, !.version = @ + 1]
      [] OTHER -> x
winOpportunitiesForQuote(opps, to, seen) == [o \in Opps |-> WonRow(opps[o], to, seen[o])]

BeginLinkQuote(o) ==
    /\ opp[o].of = "party" /\ linking[o] = "none" /\ opp[o].version < MaxMoves
    /\ linking' = [linking EXCEPT ![o] = offer.status]
    /\ UNCHANGED <<stage, opp, moving, winning, offer>>

(* A quote accepted and handled between the read and the write is missed;  *)
(* so is one already ended.  The link holds its own row while it wins; the *)
(* quote's other opportunities may be on the move and be passed over.      *)
LinkQuote(o) ==
    LET linked == [opp EXCEPT ![o] = [opp[o] EXCEPT !.linked = TRUE, !.version = @ + 1,
                                                    !.excused = @ \/ (linking[o] # "ACCEPTED" /\ Late)]]
        Seen(passed) == [p \in Opps |-> IF p \in passed THEN "none" ELSE linked[p].stage]
    IN  /\ linking[o] # "none"
        /\ linking' = [linking EXCEPT ![o] = "none"]
        /\ IF linking[o] = "ACCEPTED"
           THEN \E w \in FirstWon, passed \in SUBSET {p \in Opps \ {o} : moving[p].to # "none"} :
                   opp' = winOpportunitiesForQuote(linked, w, Seen(passed))
           ELSE opp' = linked
        /\ UNCHANGED <<stage, moving, winning, offer>>

AcceptQuote ==
    /\ offer.status = "SENT" /\ offer' = [offer EXCEPT !.status = "ACCEPTED", !.told = TRUE]
    /\ UNCHANGED <<stage, opp, linking, moving, winning>>

(* A sent quote is rejected or cancelled, an accepted one cancelled; the   *)
(* event of its acceptance and the opportunities it won stay               *)
EndQuote ==
    /\ offer.status \in {"SENT", "ACCEPTED"} /\ offer' = [offer EXCEPT !.status = "ENDED"]
    /\ UNCHANGED <<stage, opp, linking, moving, winning>>

(* The event comes at least once *)
BeginHandleQuote ==
    /\ offer.told /\ ~ winning.on
    /\ \E w \in FirstWon :
          winning' = [on |-> TRUE, to |-> w, seen |-> [o \in Opps |-> IF opp[o].linked THEN opp[o].stage ELSE "none"]]
    /\ UNCHANGED <<stage, opp, linking, moving, offer>>

HandleQuoteAccepted ==
    /\ winning.on
    /\ winning' = NotWinning
    /\ offer' = [offer EXCEPT !.handled = TRUE]
    /\ opp' = winOpportunitiesForQuote(opp, winning.to, winning.seen)
    /\ UNCHANGED <<stage, linking, moving>>

ConvertLead(r, l) ==
    /\ lead[l].status \notin {"NONE", "CONVERTED"} /\ canSee(r, l)
    /\ lead' = [lead EXCEPT ![l].status = "CONVERTED", ![l].next = "none"]
    /\ item' = closeLeadItems(item, l, "DONE")
    /\ opp' = [o \in Opps |-> IF opp[o].of = l THEN [opp[o] EXCEPT !.of = "party", !.version = @ + 1] ELSE opp[o]]
    /\ UNCHANGED <<task, list, claim, adding, stage, linking, moving, winning, offer>>
-----------------------------------------------------------------------------
LeadInit ==
    /\ lead = [l \in Leads |-> NoLead] /\ task = [l \in Leads |-> "none"]
    /\ list = [q \in Lists |-> "active"] /\ item = [q \in Lists |-> [l \in Leads |-> NoItem]]
    /\ claim = [r \in Reps |-> NoClaim] /\ adding = [q \in Lists |-> {}]
PipeInit ==
    /\ stage = Stages /\ opp = [o \in Opps |-> NoOpp] /\ linking = [o \in Opps |-> "none"]
    /\ moving = [o \in Opps |-> [to |-> "none", version |-> 0]]
    /\ winning = NotWinning
    /\ offer = [status |-> "SENT", told |-> FALSE, handled |-> FALSE]

LeadStep(r, l) ==
    \/ \E d \in BOOLEAN : CreateLead(r, l, d) \/ SetDoNotCall(r, l, d) \/ SetTaskDone(r, l, d)
    \/ \E row \in {"NEW", "DISQUALIFIED", "refuses"}, q \in Lists \union {"none"}, d \in BOOLEAN :
          ImportLeads(r, l, row, q, d)
    \/ \E s \in editableStatuses, n \in {"none", "due"}, u \in Reps \union {NoRep} : UpdateLead(r, l, s, n, u)
    \/ \E k \in {"NOTE", "MEETING", "TASK"} : CreateActivity(r, l, k)
CallStep(r, l) ==
    \/ \E c \in callOutcomes, b \in BOOLEAN, q \in Lists \union {"none"} : LogCall(r, l, c, b, q)
    \/ \E q \in Lists, s \in BOOLEAN : ReleaseItem(r, q, l, s)
QueueStep(q, ls) ==
    \/ CommitAddLeads(q) \/ \E b \in BOOLEAN : BeginAddLeads(q, ls, b)
    \/ \E r \in Reps : BeginClaim(r, q)
    \/ \E l \in ls : Lapse(q, l)
ListStep(q, ls) ==
    \/ CreateCallList(q) \/ DeleteCallList(q)
    \/ \E b \in BOOLEAN : ArchiveCallList(q, b)
    \/ \E l \in ls : RemoveItems(q, l)
PipeStep ==
    \/ \E s \in Stages : CreateStage(s) \/ UpdateStage(s)
    \/ \E o \in Opps : LinkQuote(o) \/ BeginLinkQuote(o) \/ MoveStage(o)
    \/ \E o \in Opps, s \in Stages : BeginMoveStage(o, s) \/ \E l \in Leads \union {"party"} : CreateOpportunity(o, l, s)
    \/ AcceptQuote \/ EndQuote \/ BeginHandleQuote \/ HandleQuoteAccepted

CrmStep ==
    \/ /\ \/ \E r \in Reps, l \in Leads : LeadStep(r, l) \/ CallStep(r, l)
          \/ \E q \in Lists, ls \in SUBSET Leads : QueueStep(q, ls) \/ ListStep(q, ls)
          \/ \E r \in Reps : ClaimNext(r)
       /\ UNCHANGED pipeVars
    \/ PipeStep /\ UNCHANGED leadVars
    \/ \E r \in Reps, l \in Leads : ConvertLead(r, l)
CrmSpec == LeadInit /\ PipeInit /\ [][CrmStep]_<<leadVars, pipeVars>>
-----------------------------------------------------------------------------
(* No two representatives hold one lead, in whatever lists it waits:       *)
(* "SKIP LOCKED plus the claim columns keep two reps from ever getting the *)
(* same lead" (ClaimNext).  The one exception is named: claims from two    *)
(* lists under way at the same time do not see each other.                 *)
OneCaller ==
    \A l \in Leads, p, q \in Lists :
       LET i == item[p][l]  j == item[q][l]
       IN  (i.live /\ j.live /\ i.by # j.by) => (j.by \in i.met \/ i.by \in j.met)

(* Once the event of an accepted quote was handled, no opportunity tied to *)
(* the quote is still open, whether the link came before or after          *)
(* (HandleQuoteAccepted, LinkQuote).  The exceptions are named: it was     *)
(* reopened by hand, it was moved to another open stage under the winning  *)
(* statement (whose join on the stage then passes the row over), no stage  *)
(* was there to win it, the link was being made meanwhile, or the quote    *)
(* had been rejected or cancelled when it was linked.                      *)
AcceptedIsWon ==
    \A o \in Opps : (offer.handled /\ opp[o].linked /\ Opened(o)) => opp[o].excused

(* What one seller does reaches the others: a lead has one caller and an   *)
(* accepted quote one outcome.                                             *)
SellersAgree == OneCaller /\ AcceptedIsWon
=============================================================================
