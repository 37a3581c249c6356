------------------------------- MODULE Moderation -------------------------------
(***************************************************************************)
(* The messages of one conversation and their moderation (Messaging*       *)
(* services, ContentModerationService): a text is scanned and shown unless *)
(* it is flagged, a photo waits for review; items of the moderation queue  *)
(* are decided by reviewers, readers report, authors appeal.               *)
(*                                                                         *)
(* Every statement commits by itself: the row of a decision and its effect *)
(* on the message are two steps, as are a report and its queue item.       *)
(***************************************************************************)
EXTENDS Integers, Sequences, FiniteSets

CONSTANTS
    Texts,
    Flagged,    \* texts in which detectForbiddenPatterns finds something
    Photos,     \* photo messages, of two attachments each
    Captioned,  \* those whose caption has a forbidden pattern
    Reviewers,
    Decisions,  \* what reviewQueueItem is called with
    Faults,     \* whether a write that the code swallows may fail
    MaxItems,   \* bound on queue items
    MaxReviews, \* bound on decisions
    MaxAppeals  \* bound on appeals

ModerationAssumption ==
    /\ Flagged \subseteq Texts /\ Captioned \subseteq Photos /\ Texts \cap Photos = {}
    /\ Decisions \subseteq {"approve", "reject", "escalate", "no_action"}
    /\ Faults \in BOOLEAN /\ MaxItems \in Nat /\ MaxReviews \in Nat /\ MaxAppeals \in Nat

VARIABLES
    taskState, \* of the task: "assigned" accepts messages, "readonly" shows them
    message,   \* task_messages: moderation_status, "none" before
    sending,   \* where the call that sends it stands
    todo,      \* queue items a call has still to insert
    queue,     \* content_moderation_queue
    review,    \* what each reviewer's call has still to do
    reviews,   \* decisions made
    appeal,    \* content_appeals
    reports,   \* messages reported
    told,      \* messages the recipient was notified of
    read,      \* messages with a read_at
    lost       \* history: messages an item of whose sender's call was not inserted

vars == <<taskState, message, sending, todo, queue, review, reviews, appeal, reports, told, read, lost>>

Messages == Texts \cup Photos
Idle == [do |-> "nothing"]
Item(m, type) == [content |-> m, type |-> type, status |-> "pending"]

TypeOK ==
    /\ taskState \in {"assigned", "readonly"}
    /\ message \in [Messages -> {"none", "pending", "flagged", "quarantined", "approved"}]
    /\ sending \in [Messages -> {"no", "allowed", "refused", "stored", "attached", "done"}]
    /\ todo \in [Messages -> Seq({"message", "photo"})]
    /\ queue \in Seq([content : Messages, type : {"message", "photo"},
                      status : {"pending", "approved", "rejected", "escalated"}])
    /\ Len(queue) <= MaxItems
    /\ review \in [Reviewers -> {Idle} \cup [do : {"approve", "quarantine"}, item : 1..MaxItems]
                                 \cup [do : {"restore", "mark"}, item : 1..MaxItems]]
    /\ reviews \in 0..MaxReviews
    /\ appeal \in Seq([item : 1..MaxItems, status : {"pending", "upheld", "overturned"}])
    /\ Len(appeal) <= MaxAppeals
    /\ reports \subseteq Messages /\ told \subseteq Texts /\ read \subseteq Messages
    /\ lost \subseteq Messages

Init ==
    /\ taskState = "assigned"
    /\ message = [m \in Messages |-> "none"] /\ sending = [m \in Messages |-> "no"]
    /\ todo = [m \in Messages |-> <<>>] /\ queue = <<>>
    /\ review = [r \in Reviewers |-> Idle] /\ reviews = 0
    /\ appeal = <<>> /\ reports = {} /\ told = {} /\ read = {}
    /\ lost = {}

-----------------------------------------------------------------------------
\* getMessagesForTask, getUnreadCount and getConversations of the recipient.
Visible(m) == message[m] \in {"pending", "approved"}

TaskCloses ==
    /\ taskState = "assigned" /\ taskState' = "readonly"
    /\ UNCHANGED <<message, sending, todo, queue, review, reviews, appeal, reports, told, read, lost>>

\* loadMessagingContext, before anything is written; the task may close meanwhile.
LoadContext(m) ==
    /\ sending[m] = "no" /\ taskState = "assigned"
    /\ sending' = [sending EXCEPT ![m] = "allowed"]
    /\ UNCHANGED <<taskState, message, todo, queue, review, reviews, appeal, reports, told, read, lost>>

\* What ends a call before it has stored anything: an unknown template or an empty
\* text, the rate limit, a photo's receipt that is used up, a failing INSERT.
SendRefused(m) ==
    /\ sending[m] = "allowed"
    /\ sending' = [sending EXCEPT ![m] = "refused"]
    /\ UNCHANGED <<taskState, message, todo, queue, review, reviews, appeal, reports, told, read, lost>>

PersistText(m) ==
    /\ m \in Texts /\ sending[m] = "allowed"
    /\ message' = [message EXCEPT ![m] = IF m \in Flagged THEN "flagged" ELSE "pending"]
    /\ sending' = [sending EXCEPT ![m] = IF m \in Flagged THEN "done" ELSE "stored"]
    /\ todo' = [todo EXCEPT ![m] = <<"message">>]
    /\ UNCHANGED <<taskState, queue, review, reviews, appeal, reports, told, read, lost>>

\* The attachments go to the queue side by side, the caption after them.
PersistPhoto(m) ==
    /\ m \in Photos /\ sending[m] = "allowed"
    /\ message' = [message EXCEPT ![m] = "quarantined"]
    /\ sending' = [sending EXCEPT ![m] = "attached"]
    /\ todo' = [todo EXCEPT ![m] = <<"photo", "photo">>]
    /\ UNCHANGED <<taskState, queue, review, reviews, appeal, reports, told, read, lost>>

QueueCaption(m) ==
    /\ sending[m] = "attached" /\ todo[m] = <<>>
    /\ sending' = [sending EXCEPT ![m] = "done"]
    /\ todo' = [todo EXCEPT ![m] = IF m \in Captioned THEN <<"message">> ELSE <<>>]
    /\ UNCHANGED <<taskState, message, queue, review, reviews, appeal, reports, told, read, lost>>

\* A clean text is announced whatever becomes of its queue item.
DeliverMessage(m) ==
    /\ sending[m] = "stored"
    /\ sending' = [sending EXCEPT ![m] = "done"]
    /\ told' = told \cup {m}
    /\ UNCHANGED <<taskState, message, todo, queue, review, reviews, appeal, reports, read, lost>>

\* A mutant: what could not be inserted is left for later, by nobody.
M_ModerateContent(m) ==
    /\ todo[m] # <<>> /\ queue = <<>>
    /\ todo' = [todo EXCEPT ![m] = Tail(@)]
    /\ queue' = Append(queue, Item(m, Head(todo[m])))
    /\ UNCHANGED <<taskState, message, sending, review, reviews, appeal, reports, told, read, lost>>

\* moderateContent always inserts; when that fails it answers so, or throws, and every
\* caller goes on as if it had inserted.
ModerateContent(m) ==
    /\ todo[m] # <<>>
    /\ todo' = [todo EXCEPT ![m] = Tail(@)]
    /\ \/ Len(queue) < MaxItems /\ queue' = Append(queue, Item(m, Head(todo[m]))) /\ UNCHANGED lost
       \/ Faults /\ lost' = (IF m \in reports THEN lost ELSE lost \cup {m}) /\ UNCHANGED queue
    /\ UNCHANGED <<taskState, message, sending, review, reviews, appeal, reports, told, read>>

MarkAsRead(m) ==
    /\ Visible(m) /\ m \notin read /\ sending[m] = "done"
    /\ read' = read \cup {m}
    /\ UNCHANGED <<taskState, message, sending, todo, queue, review, reviews, appeal, reports, told, lost>>

\* createReport by the recipient, of a kind that is queued.
CreateReport(m) ==
    /\ m \in read /\ m \notin reports /\ todo[m] = <<>>
    /\ reports' = reports \cup {m}
    /\ todo' = [todo EXCEPT ![m] = <<"message">>]
    /\ UNCHANGED <<taskState, message, sending, queue, review, reviews, appeal, told, read, lost>>

-----------------------------------------------------------------------------
\* reviewQueueItem: the item's row first, whatever its status was.
StatusOf(decision) ==
    CASE decision = "reject" -> "rejected"
      [] decision = "escalate" -> "escalated"
      [] OTHER -> "approved"

ReviewQueueItem(r, i, decision) ==
    /\ review[r] = Idle /\ reviews < MaxReviews
    /\ reviews' = reviews + 1
    /\ queue' = [queue EXCEPT ![i].status = StatusOf(decision)]
    /\ review' = [review EXCEPT ![r] = IF decision = "approve" THEN [do |-> "approve", item |-> i]
                                       ELSE IF decision = "reject" THEN [do |-> "quarantine", item |-> i]
                                       ELSE Idle]
    /\ UNCHANGED <<taskState, message, sending, todo, appeal, reports, told, read, lost>>

\* applyModerationAction: a photo is restored once no item of its message is short of approval.
Cleared(i) ==
    queue[i].type = "photo" =>
        \A j \in DOMAIN queue : queue[j].content = queue[i].content => queue[j].status = "approved"

Applied(i, action) ==
    LET m == queue[i].content
    IN  IF action = "quarantine" THEN message' = [message EXCEPT ![m] = "quarantined"]
        ELSE IF Cleared(i) THEN message' = [message EXCEPT ![m] = "approved"]
        ELSE UNCHANGED message

ApplyReview(r) ==
    /\ review[r].do \in {"approve", "quarantine"}
    /\ \/ Applied(review[r].item, review[r].do)
       \/ Faults /\ UNCHANGED message
    /\ review' = [review EXCEPT ![r] = Idle]
    /\ UNCHANGED <<taskState, sending, todo, queue, reviews, appeal, reports, told, read, lost>>

-----------------------------------------------------------------------------
\* createAppeal of a rejection; nothing keeps a second one of the same item out.
CreateAppeal(i) ==
    /\ queue[i].status = "rejected" /\ Len(appeal) < MaxAppeals
    /\ appeal' = Append(appeal, [item |-> i, status |-> "pending"])
    /\ UNCHANGED <<taskState, message, sending, todo, queue, review, reviews, reports, told, read, lost>>

\* reviewAppeal: the appeal's row, whatever its status was; what an overturned one
\* restores comes before its queue item is marked.
ReviewAppeal(r, k, verdict) ==
    /\ review[r] = Idle /\ reviews < MaxReviews
    /\ reviews' = reviews + 1
    /\ appeal' = [appeal EXCEPT ![k].status = verdict]
    /\ review' = [review EXCEPT ![r] = IF verdict = "overturned" THEN [do |-> "restore", item |-> appeal[k].item]
                                       ELSE Idle]
    /\ UNCHANGED <<taskState, message, sending, todo, queue, reports, told, read, lost>>

Restore(r) ==
    /\ review[r].do = "restore"
    /\ \/ Applied(review[r].item, "approve")
       \/ Faults /\ UNCHANGED message
    /\ review' = [review EXCEPT ![r] = [do |-> "mark", item |-> review[r].item]]
    /\ UNCHANGED <<taskState, sending, todo, queue, reviews, appeal, reports, told, read, lost>>

MarkItem(r) ==
    /\ review[r].do = "mark"
    /\ queue' = [queue EXCEPT ![review[r].item].status = "approved"]
    /\ review' = [review EXCEPT ![r] = Idle]
    /\ UNCHANGED <<taskState, message, sending, todo, reviews, appeal, reports, told, read, lost>>

-----------------------------------------------------------------------------
GoesOn(m) ==
    \/ PersistText(m) \/ PersistPhoto(m) \/ QueueCaption(m)
    \/ DeliverMessage(m) \/ ModerateContent(m)

Work(r) == ApplyReview(r) \/ Restore(r) \/ MarkItem(r)

Next ==
    \/ TaskCloses
    \/ \E m \in Messages : LoadContext(m) \/ SendRefused(m) \/ GoesOn(m) \/ MarkAsRead(m) \/ CreateReport(m)
    \/ \E r \in Reviewers, i \in DOMAIN queue, d \in Decisions : ReviewQueueItem(r, i, d)
    \/ \E i \in DOMAIN queue : CreateAppeal(i)
    \/ \E r \in Reviewers, k \in DOMAIN appeal, v \in {"upheld", "overturned"} : ReviewAppeal(r, k, v)
    \/ \E r \in Reviewers : Work(r)

\* A call that has begun goes on.
Fairness ==
    /\ \A m \in Messages : WF_vars(GoesOn(m))
    /\ \A r \in Reviewers : WF_vars(Work(r))

Spec == Init /\ [][Next]_vars /\ Fairness

-----------------------------------------------------------------------------
\* No reviewer's call is half done.
AtRest == \A r \in Reviewers : review[r] = Idle
ItemsOf(m) == {i \in DOMAIN queue : queue[i].content = m}

\* What was flagged, and a photo, is visible to the recipient only after a reviewer has
\* decided some item of it, and is never announced (MessagingTextService, MessagingPhotoService).
ShownAfterDecision ==
    \A m \in Flagged \cup Photos :
        /\ Visible(m) => \E i \in ItemsOf(m) : queue[i].status # "pending"
        /\ m \notin told

\* While one reviewer works and nothing fails, a message with one item is hidden when
\* that item stands rejected, and a text is shown when it stands approved.
DecisionStands ==
    AtRest => \A m \in Messages : Cardinality(ItemsOf(m)) = 1 =>
        \A i \in ItemsOf(m) : /\ queue[i].status = "rejected" => ~Visible(m)
                              /\ queue[i].status = "approved" /\ m \in Texts => Visible(m)

\* A call that has passed the context ends; a message it stored is in the queue then,
\* with every attachment and a caption to look at, unless an insertion failed and was
\* only logged.
Wanted(m) == IF m \in Texts THEN 1 ELSE IF m \in Captioned THEN 3 ELSE 2
Begun(m) == sending[m] = "allowed"
Queued(m) ==
    \/ sending[m] = "refused"
    \/ sending[m] = "done" /\ (Cardinality(ItemsOf(m)) >= Wanted(m) \/ m \in lost)
SentIsQueued == \A m \in Messages : Begun(m) ~> Queued(m)

\* Of a photo: it is not shown before every item of its message is approved.
PhotoIsReviewed ==
    AtRest => \A m \in Photos : Visible(m) => \A i \in ItemsOf(m) : queue[i].status = "approved"

\* Of an appeal: overturned, the content is restored.
OverturnedIsRestored ==
    AtRest /\ reviews <= 2 => \A k \in DOMAIN appeal :
        appeal[k].status = "overturned" /\ ItemsOf(queue[appeal[k].item].content) = {appeal[k].item}
        => Visible(queue[appeal[k].item].content)

\* Of decisions side by side: the item's and the message's agree afterwards.
ReviewersAgree ==
    AtRest => \A i \in DOMAIN queue :
        queue[i].status = "rejected" /\ ItemsOf(queue[i].content) = {i} => ~Visible(queue[i].content)

\* Of a message: it is sent to a task that takes messages.
SentWhileOpen == [][\A m \in Messages : message[m] = "none" /\ message'[m] # "none" => taskState = "assigned"]_vars
=============================================================================
