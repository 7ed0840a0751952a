----------------------------- MODULE DomRemote -----------------------------
(***************************************************************************)
(* A tea-dom application that runs in a worker: the page with its document *)
(* and its queue of turns (js/remote.mjs, js/dom.mjs), the worker          *)
(* (js/worker.mjs, js/reactor.mjs), the guest's turns (src/reactor.dawn)   *)
(* with the reconciler of TreeDiff, and a reader who clicks, types and     *)
(* presses keys while turns are in flight.                                 *)
(*                                                                         *)
(* The application is any one that shows a field and a list of keyed items:*)
(* what a message makes of its model is chosen freely, but for typed text, *)
(* which it takes over.  A document node carries the key of the tree node  *)
(* it was built for; the code does not, only the properties look at it.    *)
(***************************************************************************)
EXTENDS TreeDiff

CONSTANTS
  Lists,      \* the lists an application may show: sequences of [key, self]
  Texts,      \* what may be in the field
  NoText,     \* the empty text; also: an event that carries none
  Tags,       \* the fetches an application may ask for, each once
  None,       \* no document, no job, no tree
  MayFail,    \* turns may be refused or panic, and the worker may fail
  MaxEvents   \* events and restarts in all (a bound for TLC)

(* A list's items have keys, no two of them the same: what the code asks of
   an application whose elements are to survive. *)
ASSUME DomRemoteAssumption ==
  /\ Lists \subseteq Seq([key : NodeKeys, self : NodeData])
  /\ \A items \in Lists : IsInjective(Keys(items))
  /\ NoText \in Texts
  /\ Texts \subseteq NodeData /\ SUBSET Tags \subseteq NodeData
  /\ {"div", "input", "ul", "li"} \subseteq NodeTags
  /\ Height >= 3                       \* the application's view has three levels
  /\ MayFail \in BOOLEAN /\ MaxEvents \in Nat

VARIABLES
  model,      \* the model of the last turn that succeeded
  kept,       \* the guest's retained state: the outcomes it absorbed
  shown,      \* the model and tree the guest left the page with
  inbox,      \* the request in the worker, or None
  outbox,     \* what the worker has posted and the page not yet taken
  fetch,      \* fetch[t]: unasked, going or fetched
  doc,        \* the document under the mount
  focus,      \* whether its field has the focus
  queue,      \* the turns that wait
  busy,       \* whether pump() runs
  dead,       \* whether the worker has failed
  applied,    \* how many replies were applied: names the elements each built
  used        \* how many events there were

guest == <<model, kept, shown>>
vars == <<model, kept, shown, inbox, outbox, fetch, doc, focus, queue, busy, dead, applied, used>>

(* The application's view: a node of each kind and what it listens for *)
View(k, m) ==
  Node("div", NoKey, NoText,
       << Node("input", NoKey, m.field, <<>>),
          Node("ul", NoKey, k,
               [i \in DOMAIN m.items |-> Node("li", m.items[i].key, m.items[i].self, <<>>)]) >>)
Listens(tag) == CASE tag = "input" -> {"input", "keydown"} [] tag = "li" -> {"click"} [] OTHER -> {}

(* The elements with children in S, and the documents such a view may have *)
Ids == [tag : NodeTags, key : NodeKeys \cup {NoKey}, built : Nat]
ElementsOver(S) == [id : Ids, tag : NodeTags, key : NodeKeys \cup {NoKey}, self : NodeData, kids : S]
Documents == ElementsOver(Seq(ElementsOver(Seq(ElementsOver({<<>>})))))

ASSUME NoneAssumption == None \notin Documents /\ \A n \in 0..Height : None \notin Tree[n]

EventJob(el, path, event, payload, key) ==
  [op |-> "event", el |-> el, path |-> path, event |-> event, payload |-> payload, key |-> key]
SupplyJob(tag) == [op |-> "supply", tag |-> tag]
InitJob == [op |-> "init"]

Init ==
  /\ model = [items |-> <<>>, field |-> NoText]
  /\ kept = {}
  /\ shown = None
  /\ inbox = InitJob                       \* mount() has sent it
  /\ outbox = <<>>
  /\ fetch = [t \in Tags |-> "unasked"]
  /\ doc = None
  /\ focus = FALSE
  /\ queue = <<>>
  /\ busy = TRUE
  /\ dead = FALSE
  /\ applied = 0
  /\ used = 0

-----------------------------------------------------------------------------
(* The document *)

Element(w, kids) ==
  [id |-> [tag |-> w.tag, key |-> w.key, built |-> applied],
   tag |-> w.tag, key |-> w.key, self |-> w.self, kids |-> kids]

(* A new element for a node, and for each below it: a view has three levels *)
Build(w) ==
  Element(w, [i \in DOMAIN w.kids |->
    Element(w.kids[i], [j \in DOMAIN w.kids[i].kids |-> Element(w.kids[i].kids[j], <<>>)])])

(* The set of addresses of that element: one, or none *)
AddressOf(d, id) ==
  {path \in {<<>>} : d.id = id}
    \cup {<<i>> : i \in {i \in DOMAIN d.kids : d.kids[i].id = id}}
    \cup UNION {{<<i, j>> : j \in {j \in DOMAIN d.kids[i].kids : d.kids[i].kids[j].id = id}}
                  : i \in DOMAIN d.kids}

Only(S) == CHOOSE x \in S : TRUE     \* the element of a set that has one

NodeAt(w, path) == IF HasPath(w, path) THEN At(w, path) ELSE None

Field(d) == d.kids[1]
Items(d) == d.kids[2].kids
WithSelf(d, self) == [d EXCEPT !.self = self]
WithText(d, text) == [d EXCEPT !.kids[1].self = text]

(* [mutant] a removal and a rebuild *)
MovedRebuilt(kids, from, to) ==
  InsertAt(RemoveAt(kids, from), to, [kids[from] EXCEPT !.id.built = applied])

(* insertBefore moves a node that is in the list already. `to` counts in the
   list as it will be, the reference child is one of the list as it is. *)
Moved(kids, from, to) ==
  LET rest == RemoveAt(kids, from)
      ref == IF to < from THEN kids[to] ELSE kids[to + 1]
  IN  IF to >= Len(kids) THEN Append(rest, kids[from])
      ELSE InsertAt(rest, Position(rest, ref), kids[from])

(* The table of ops, of a child list and of an element *)
HostKids(kids, op) ==
  IF op.op = "append" THEN kids \o [i \in DOMAIN op.ws |-> Build(op.ws[i])]
  ELSE IF op.op = "truncate" THEN SubSeq(kids, 1, op.keep)
  ELSE IF op.op = "insert" THEN InsertAt(kids, op.at, Build(op.w))
  ELSE IF op.op = "remove" THEN RemoveAt(kids, op.at)
  ELSE Moved(kids, op.from, op.to)

HostOp(d, op) ==
  IF op.op = "replace" THEN Build(op.w)
  ELSE IF op.op = "set-self" THEN WithSelf(d, op.w.self)
  ELSE Rekid(d, HostKids(d.kids, op))

HostAt(d, path, op) == Put(d, path, HostOp(At(d, path), op))

(* The document after each patch.  (The set of one has TLC compute a document
   once, not at each of its uses.) *)
HostApplied(d, patches) ==
  LET after[i \in 0..Len(patches)] ==
        IF i = 0 THEN d
        ELSE Only({HostAt(e, patches[i].path, patches[i].op) : e \in {after[i - 1]}})
  IN  after

HostApply(d, patches) == HostApplied(d, patches)[Len(patches)]

-----------------------------------------------------------------------------
(* The page: turns are sent one at a time *)

HasLeft(job) == job.op = "event" /\ AddressOf(doc', job.el) = {}

(* [mutant] the address recorded when the event fired *)
RequestAsFired(job) == job

(* The address is recovered when the turn is sent. *)
Request(job) ==
  IF job.op = "event" THEN [job EXCEPT !.path = Only(AddressOf(doc', job.el))]
                      ELSE job

(* pump() from where it is to the next turn it sends, or to its end; the
   events of elements that have left the document are dropped. *)
PumpOn(q) ==
  LET due == {i \in DOMAIN q : ~HasLeft(q[i])}
  IN  IF due = {}
        THEN /\ queue' = <<>> /\ busy' = FALSE /\ inbox' = None
        ELSE /\ queue' = Drop(q, Min(due))
             /\ busy' = TRUE
             /\ inbox' = Request(q[Min(due)])

Enqueue(job) ==
  IF busy THEN queue' = Append(queue, job) /\ UNCHANGED <<busy, inbox>>
          ELSE PumpOn(<<job>>)

(* [mutant] patches and nothing more *)
PutNothingBack(old, new) == new

(* While events wait, the focused field is put back as the reader has it. *)
PutBack(old, new) ==
  IF /\ focus /\ \E i \in DOMAIN queue : queue[i].op = "event"
     /\ Field(new).id = Field(old).id
    THEN WithText(new, Field(old).self)
    ELSE new

Settle(reply) ==
  IF reply.ok
    THEN LET new == HostApply(doc, reply.patches)
         IN  /\ doc' = IF doc = None THEN new ELSE PutBack(doc, new)
             /\ focus' = (focus /\ Field(new).id = Field(doc).id)
             /\ applied' = applied + 1
    ELSE UNCHANGED <<doc, focus, applied>>

(* [mutant] a reply that is not ok ends pump() where it is *)
TakeReplyOrStop ==
  /\ outbox # <<>> /\ Head(outbox).op = "reply"
  /\ outbox' = Tail(outbox)
  /\ Settle(Head(outbox))
  /\ IF Head(outbox).ok THEN PumpOn(queue) ELSE UNCHANGED <<queue, busy, inbox>>
  /\ UNCHANGED <<guest, fetch, dead, used>>

(* The reply's promise is resolved and pump() goes on before anything else. *)
TakeReply ==
  /\ outbox # <<>> /\ Head(outbox).op = "reply"
  /\ outbox' = Tail(outbox)
  /\ Settle(Head(outbox))
  /\ PumpOn(queue)
  /\ UNCHANGED <<guest, fetch, dead, used>>

(* A finished fetch waits its turn like an event. *)
TakeFetched ==
  /\ outbox # <<>> /\ Head(outbox).op = "fetched"
  /\ outbox' = Tail(outbox)
  /\ UNCHANGED <<doc, focus>>
  /\ Enqueue(SupplyJob(Head(outbox).tag))
  /\ UNCHANGED <<guest, fetch, dead, applied, used>>

(* onerror: the turn in flight is rejected, and so is each that is sent after *)
WorkerFails ==
  /\ MayFail /\ ~dead
  /\ dead' = TRUE
  /\ queue' = <<>> /\ busy' = FALSE /\ inbox' = None /\ outbox' = <<>>
  /\ UNCHANGED <<guest, fetch, doc, focus, applied, used>>

-----------------------------------------------------------------------------
(* The worker and the guest *)

Posts(reply) == outbox' = Append(outbox, reply)
Refuses == Posts([op |-> "reply", ok |-> FALSE])

(* A turn that succeeds ends with model m and retained state k, and may ask
   for fetches; they begin once the reply is posted. *)
Answers(k, m, patches) ==
  /\ model' = m
  /\ kept' = k
  /\ shown' = [model |-> m, tree |-> View(k, m)]
  /\ Posts([op |-> "reply", ok |-> TRUE, patches |-> patches])
  /\ \E asked \in SUBSET {t \in Tags : fetch[t] = "unasked"} :
       fetch' = [t \in Tags |-> IF t \in asked THEN "going" ELSE fetch[t]]

(* held_tree: the tree the last turn answered, if it was of this model *)
HeldTree == IF shown # None /\ shown.model = model THEN shown.tree ELSE View(kept, model)

TurnsTo(k, m) == Answers(k, m, Diff(HeldTree, View(k, m)))

NextFields(req) == IF req.event = "input" THEN {req.payload} ELSE {model.field, NoText}

TakeTurn ==
  \/ /\ inbox.op = "init"
     /\ \E items \in Lists :
          LET m == [items |-> items, field |-> NoText]
          IN  Answers({}, m, <<Patch(<<>>, Replace(View({}, m)))>>)
  \/ /\ inbox.op = "event"
     /\ LET at == NodeAt(HeldTree, inbox.path)
        IN  IF at # None /\ inbox.event \in Listens(at.tag)
              THEN \E items \in Lists, field \in NextFields(inbox) :
                     TurnsTo(kept, [items |-> items, field |-> field])
              ELSE Refuses /\ UNCHANGED <<guest, fetch>>            \* no-handler
  \/ /\ inbox.op = "supply"
     /\ IF shown = None THEN Refuses /\ UNCHANGED <<guest, fetch>>
        ELSE \E items \in Lists :
               TurnsTo(kept \cup {inbox.tag}, [model EXCEPT !.items = items])
  \/ MayFail /\ Refuses /\ UNCHANGED <<guest, fetch>>    \* a panic, an aborted instance

HandleTurn ==
  /\ inbox # None
  /\ TakeTurn
  /\ inbox' = None
  /\ UNCHANGED <<doc, focus, queue, busy, dead, applied, used>>

FetchEnds(t) ==
  /\ fetch[t] = "going" /\ ~dead
  /\ fetch' = [fetch EXCEPT ![t] = "fetched"]
  /\ Posts([op |-> "fetched", tag |-> t])
  /\ UNCHANGED <<guest, inbox, doc, focus, queue, busy, dead, applied, used>>

-----------------------------------------------------------------------------
(* The reader, and the page that restarts the application *)

Event ==
  /\ used < MaxEvents /\ ~dead
  /\ used' = used + 1
  /\ UNCHANGED <<guest, outbox, fetch, focus, dead, applied>>

Click(i) ==
  /\ Event
  /\ UNCHANGED doc
  /\ Enqueue(EventJob(Items(doc)[i].id, <<2, i>>, "click", NoText, Items(doc)[i].key))

Type(text) ==
  /\ Event
  /\ focus /\ Field(doc).self # text
  /\ doc' = WithText(doc, text)
  /\ Enqueue(EventJob(Field(doc).id, <<1>>, "input", text, NoKey))

Press ==
  /\ Event
  /\ focus
  /\ UNCHANGED doc
  /\ Enqueue(EventJob(Field(doc).id, <<1>>, "keydown", NoText, NoKey))

Restart ==
  /\ Event
  /\ UNCHANGED doc
  /\ Enqueue(InitJob)

MoveFocus ==
  /\ focus' = ~focus
  /\ UNCHANGED <<guest, inbox, outbox, fetch, doc, queue, busy, dead, applied, used>>

Reader ==
  \/ /\ doc # None
     /\ \/ \E i \in DOMAIN Items(doc) : Click(i)
        \/ \E text \in Texts : Type(text)
        \/ Press
        \/ MoveFocus
  \/ (doc # None \/ ~busy) /\ Restart       \* mount() has returned

Page == TakeReply \/ TakeFetched
Next == Reader \/ Page \/ HandleTurn \/ WorkerFails \/ \E t \in Tags : FetchEnds(t)

(* The worker answers a turn, and the page takes what is posted. *)
Spec == Init /\ [][Next]_vars /\ WF_vars(Page) /\ WF_vars(HandleTurn)

-----------------------------------------------------------------------------
(* Properties *)

TypeOK ==
  /\ model \in [items : Lists \cup {<<>>}, field : Texts]
  /\ kept \in SUBSET Tags
  /\ fetch \in [Tags -> {"unasked", "going", "fetched"}]
  /\ {focus, busy, dead} \subseteq BOOLEAN
  /\ used \in 0..MaxEvents
  /\ (inbox # None \/ queue # <<>>) => busy

(* However many turns moved the element it fired on, an event reaches the
   node of the guest's tree that this element shows. *)
EventHitsItsElement ==
  inbox # None /\ inbox.op = "event" =>
    LET at == NodeAt(View(kept, model), inbox.path)
    IN  at # None /\ at.key = inbox.key /\ inbox.event \in Listens(at.tag)

ShowsView(d) ==
  LET v == View(kept, model)
  IN  /\ d.kids[2].self = v.kids[2].self
      /\ [i \in DOMAIN Items(d) |-> [key |-> Items(d)[i].key, self |-> Items(d)[i].self]]
           = model.items

(* The patches of a turn make the document the guest's view, and keep the
   element of every item that both have. *)
PatchesLandStep ==
  (/\ outbox # <<>> /\ outbox' = Tail(outbox) /\ ~dead'
   /\ Head(outbox).op = "reply" /\ Head(outbox).ok) =>
      /\ ShowsView(doc')
      /\ (doc # None /\ doc.id = doc'.id) =>
           \A i \in DOMAIN Items(doc), j \in DOMAIN Items(doc') :
             Items(doc)[i].key = Items(doc')[j].key => Items(doc)[i].id = Items(doc')[j].id
PatchesLand == [][PatchesLandStep]_vars

(* No turn takes back what the reader has typed into the focused field while
   an input event of it waits. *)
NotRolledBackStep ==
  (/\ doc # None /\ focus /\ focus' /\ used' = used
   /\ \E i \in DOMAIN queue : queue[i].op = "event" /\ queue[i].event = "input"
                                /\ queue[i].el = Field(doc).id)
  => Field(doc').self = Field(doc).self
NotRolledBack == [][NotRolledBackStep]_vars

(* idle() resolves: every turn is sent and answered, dropped or rejected. *)
IdleReached == busy ~> ~busy

(* What remote.mjs says of the field it puts back: "the queued turn carries
   that value, and the guest is about to agree with it". *)
FieldAgrees == ~busy /\ doc # None => Field(doc).self = model.field
=============================================================================
