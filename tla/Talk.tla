------------------------------- MODULE Talk --------------------------------
(* What people say around a task: comments in threads (routers/comments.py)*)
(* and messages (routers/task_messages.py) with their notices              *)
(* (routers/notifications.py), alerts of saved searches when a task is     *)
(* created (routers/saved_searches.py), and the evidence and mediator of a *)
(* dispute (routers/disputes.py).  Requests read, decide and write; rows   *)
(* are locked by nothing but their own updates.                            *)
EXTENDS Integers, FiniteSets, FiniteSetsExt

CONSTANTS
  Posts,          \* requests that may be under way at once
  Comments, MaxComments,              \* MAX_COMMENTS_PER_TASK
  Messages, Parties, Shown,           \* numbers of messages; the limit of an answer
  Searches, Seekers, MaxSearches,     \* _MAX_SAVED_SEARCHES
  Created,        \* new tasks that match
  MaxEvidence, MaxCrossed, Nil

ASSUME TalkAssumption ==
  /\ {MaxComments, Shown, MaxSearches, MaxEvidence, MaxCrossed} \subseteq Nat
  /\ Messages \subseteq Nat /\ IsFiniteSet(Comments) /\ IsFiniteSet(Searches) /\ IsFiniteSet(Posts)
  /\ Nil \notin Comments \cup [to : Parties, read : BOOLEAN, notice : {"unread", "read", "gone"}]

VARIABLES
  comment,   \* the rows of task_comments
  message,   \* the rows of task_messages: to whom, read or not, and its notice
  search,    \* the rows of saved_searches
  dispute,   \* the task's dispute: its status, mediator, evidence and events
  post,      \* requests and what they read
  removed,   \* history: comments deleted, and replies their deletion took along
  answered,  \* history: messages in an answer to their recipient
  alerted,   \* history: alerts to each user about each new task
  matched,   \* history: the tasks a search's row has counted
  told,      \* history: notices about the dispute: due, and written
  crossed    \* history: writes decided on what others had changed by then

talkVars == <<comment, message, search, dispute, post, removed, answered, alerted, matched, told, crossed>>

NoPost == [for |-> "nothing"]
NoComment == [is |-> "none", parent |-> Nil, fresh |-> FALSE, edited |-> FALSE]
NoSearch == [is |-> "none", user |-> Nil, instant |-> FALSE, matches |-> 0]
Live(c) == comment[c].is = "there"
Saved(s) == search[s].is = "there"
Thread == {c \in Comments : Live(c)}
Replies(c) == {d \in Thread : comment[d].parent = c}
SearchesOf(u) == {s \in Searches : Saved(s) /\ search[s].user = u}

TalkTypeOK ==
  /\ \A c \in Thread : comment[c].parent \in Comments \cup {Nil}
  /\ \A m \in Messages : message[m] = Nil \/ message[m].to \in Parties
  /\ dispute.evidence \in 0..MaxEvidence /\ crossed \in 0..MaxCrossed

TalkInit ==
  /\ comment = [c \in Comments |-> NoComment] /\ removed = {}
  /\ message = [m \in Messages |-> Nil] /\ answered = {}
  /\ search = [s \in Searches |-> NoSearch] /\ alerted = [t \in Created |-> [u \in Seekers |-> 0]]
  /\ matched = [s \in Searches |-> 0]
  /\ dispute = [open |-> TRUE, mediated |-> 0, evidence |-> 0, events |-> 0]
  /\ post = [p \in Posts |-> NoPost]
  /\ told = [due |-> 0, written |-> 0] /\ crossed = 0

For(p, what) == post[p].for = what
Open(p, request) == post[p] = NoPost /\ post' = [post EXCEPT ![p] = request]
Close(p) == post' = [post EXCEPT ![p] = NoPost]
Crossing(changed) == crossed' = (IF changed THEN crossed + 1 ELSE crossed) /\ crossed' <= MaxCrossed
PostDies(p) == /\ post[p] # NoPost /\ Close(p)
               /\ UNCHANGED <<comment, message, search, dispute, removed, answered, alerted, matched, told, crossed>>

(* Comments.                                                               *)
CommentsUnchanged == UNCHANGED <<comment, removed>>
OthersThanComments == UNCHANGED <<message, search, dispute, answered, alerted, matched, told>>

CountComments(p, parent) ==
  /\ Cardinality(Thread) < MaxComments /\ (parent = Nil \/ parent \in Thread)
  /\ Open(p, [for |-> "comment", parent |-> parent, seen |-> Thread])
  /\ CommentsUnchanged /\ OthersThanComments /\ crossed' = crossed
PostComment(p, c) ==
  /\ For(p, "comment") /\ Close(p)
  /\ IF post[p].parent = Nil \/ post[p].parent \in Thread     \* else the key has no row
     THEN /\ comment[c].is = "none"
          /\ comment' = [comment EXCEPT ![c] = [is |-> "there", parent |-> post[p].parent, fresh |-> TRUE, edited |-> FALSE]]
          /\ Crossing(Thread # post[p].seen)
     ELSE UNCHANGED <<comment, crossed>>
  /\ removed' = removed /\ OthersThanComments
Age(c) ==
  /\ Live(c) /\ comment[c].fresh /\ comment' = [comment EXCEPT ![c].fresh = FALSE]
  /\ UNCHANGED <<post, removed, crossed>> /\ OthersThanComments
EditComment(c) ==
  /\ Live(c) /\ comment[c].fresh /\ comment' = [comment EXCEPT ![c].edited = TRUE]
  /\ UNCHANGED <<post, removed, crossed>> /\ OthersThanComments

(* The replies found first are detached from the comment; those that came  *)
(* since go with it, by the cascade of the foreign key.                    *)
FindReplies(p, c) ==
  /\ Live(c) /\ Open(p, [for |-> "delete", of |-> c, seen |-> Replies(c)])
  /\ CommentsUnchanged /\ OthersThanComments /\ crossed' = crossed
Detached(seen) == [d \in Comments |-> IF d \in seen \cap Thread THEN [comment[d] EXCEPT !.parent = Nil] ELSE comment[d]]
WithReplies(S) == \A d \in Thread : comment[d].parent \in S => d \in S
Under(S) == {d \in Comments : \A T \in SUBSET Comments : S \subseteq T /\ WithReplies(T) => d \in T}
DeleteComment(p) ==
  /\ For(p, "delete") /\ Close(p)
  /\ LET c == post[p].of
         late == Replies(c) \ post[p].seen
         lost == {c} \cup Under(late)
     IN IF Live(c) /\ post[p].seen \subseteq Thread
        THEN /\ comment' = [d \in Comments |-> IF d \in lost THEN [comment[d] EXCEPT !.is = "gone"]
                                                ELSE Detached(post[p].seen)[d]]
             /\ removed' = removed \cup {[of |-> c, late |-> lost \ {c}]}
             /\ Crossing(late # {})
        ELSE UNCHANGED <<comment, removed, crossed>>           \* an update finds no row
  /\ OthersThanComments
(* Messages: one and its notice are one transaction.                       *)
OthersThanMessages == UNCHANGED <<comment, search, dispute, removed, alerted, matched, told, crossed>>
Waiting(m, u) == message[m] # Nil /\ message[m].to = u /\ ~message[m].read

(* Messages are numbered by created_at; they are committed in any order.   *)
SendMessage(m, u) ==
  /\ message[m] = Nil
  /\ message' = [message EXCEPT ![m] = [to |-> u, read |-> FALSE, notice |-> "unread"]]
  /\ UNCHANGED <<post, answered>> /\ OthersThanMessages

(* The earliest of the thread, up to the limit; those to the reader among  *)
(* them are marked.                                                        *)
Earliest == {m \in Messages : message[m] # Nil /\ Cardinality({n \in 1..m : message[n] # Nil}) <= Shown}
FetchMessages(p, u) ==
  /\ Open(p, [for |-> "read", who |-> u, seen |-> {m \in Earliest : Waiting(m, u)}])
  /\ UNCHANGED <<message, answered>> /\ OthersThanMessages
EveryMessage(seen, u) == {m \in Messages : Waiting(m, u)} \* mutant
Marked(seen, u) == seen
MarkMessages(p) ==
  /\ For(p, "read") /\ Close(p)
  /\ LET marked == Marked(post[p].seen, post[p].who) IN
     message' = [m \in Messages |-> IF m \in marked THEN [message[m] EXCEPT !.read = TRUE] ELSE message[m]]
  /\ answered' = answered \cup post[p].seen
  /\ OthersThanMessages

(* Notices are marked and deleted one by one, or all there are by then.    *)
NoticesOf(u) == {m \in Messages : message[m] # Nil /\ message[m].to = u /\ message[m].notice # "gone"}
SetNotices(some, status) ==
  /\ some # {}
  /\ message' = [m \in Messages |-> IF m \in some THEN [message[m] EXCEPT !.notice = status] ELSE message[m]]
  /\ UNCHANGED <<post, answered>> /\ OthersThanMessages
MarkAllRead(u) == SetNotices({m \in NoticesOf(u) : message[m].notice = "unread"}, "read")
DeleteNotice(m) == m \in UNION {NoticesOf(u) : u \in Parties} /\ SetNotices({m}, "gone")
DeleteAllNotices(u) == SetNotices(NoticesOf(u), "gone")

(* Saved searches and their alerts.                                        *)
OthersThanSearches == UNCHANGED <<comment, message, dispute, removed, answered, told>>

CountSearches(p, u) ==
  /\ Cardinality(SearchesOf(u)) < MaxSearches
  /\ Open(p, [for |-> "save", who |-> u, seen |-> SearchesOf(u)])
  /\ UNCHANGED <<search, alerted, matched, crossed>> /\ OthersThanSearches
SaveSearch(p, s) ==
  /\ For(p, "save") /\ Close(p) /\ search[s].is = "none"
  /\ search' = [search EXCEPT ![s] = [is |-> "there", user |-> post[p].who, instant |-> TRUE, matches |-> 0]]
  /\ Crossing(SearchesOf(post[p].who) # post[p].seen)
  /\ UNCHANGED <<alerted, matched>> /\ OthersThanSearches
SetAlert(s) ==
  /\ Saved(s) /\ search' = [search EXCEPT ![s].instant = ~@]
  /\ UNCHANGED <<post, alerted, matched, crossed>> /\ OthersThanSearches
DeleteSearch(s) ==
  /\ Saved(s) /\ search' = [search EXCEPT ![s].is = "gone"]
  /\ UNCHANGED <<post, alerted, matched, crossed>> /\ OthersThanSearches

(* One search of each user; all alerts are one transaction, which fails if *)
(* one of these searches was deleted since.                                *)
ReadSearches(p, t) ==
  /\ \A q \in Posts : ~(For(q, "alert") /\ post[q].task = t) /\ \A u \in Seekers : alerted[t][u] = 0
  /\ \E picked \in SUBSET Searches :
       /\ picked # {}
       /\ \A s \in picked : Saved(s) /\ search[s].instant
       /\ \A u \in Seekers : Cardinality(picked \cap SearchesOf(u)) =
            IF \E s \in SearchesOf(u) : search[s].instant THEN 1 ELSE 0
       /\ Open(p, [for |-> "alert", task |-> t, seen |-> [s \in picked |-> search[s]]])
  /\ UNCHANGED <<search, alerted, matched, crossed>> /\ OthersThanSearches
Alert(p) ==
  /\ For(p, "alert") /\ Close(p)
  /\ LET seen == post[p].seen
         picked == DOMAIN seen
     IN IF \E s \in picked : ~Saved(s) THEN UNCHANGED <<search, alerted, matched, crossed>>
        ELSE /\ search' = [s \in Searches |-> IF s \in picked THEN [search[s] EXCEPT !.matches = seen[s].matches + 1]
                                              ELSE search[s]]
             /\ alerted' = [alerted EXCEPT ![post[p].task] =
                              [u \in Seekers |-> @[u] + Cardinality({s \in picked : seen[s].user = u})]]
             /\ matched' = [s \in Searches |-> IF s \in picked THEN matched[s] + 1 ELSE matched[s]]
             /\ Crossing(\E s \in picked : search[s].matches # seen[s].matches)
  /\ OthersThanSearches

(* Disputes: evidence and mediator are logged with the change, and their   *)
(* notices are written in a second transaction.                            *)
OthersThanDisputes == UNCHANGED <<comment, message, search, removed, answered, alerted, matched, crossed>>
NoticeDue(p) == Open(p, [for |-> "notice"]) /\ told' = [told EXCEPT !.due = @ + 1]

SubmitEvidence(p, role) ==
  /\ dispute.evidence < MaxEvidence
  /\ dispute' = [dispute EXCEPT !.evidence = @ + 1, !.events = @ + 1]
  /\ IF role = "worker" THEN NoticeDue(p) ELSE UNCHANGED <<post, told>>
  /\ OthersThanDisputes
ReadDispute(p) ==
  /\ dispute.open /\ Open(p, [for |-> "mediator"])
  /\ UNCHANGED <<dispute, told>> /\ OthersThanDisputes
AssignMediator(p) ==
  /\ For(p, "mediator") /\ dispute.mediated < MaxEvidence
  /\ dispute' = [dispute EXCEPT !.mediated = @ + 1, !.events = @ + 1]
  /\ post' = [post EXCEPT ![p] = [for |-> "notice"]] /\ told' = [told EXCEPT !.due = @ + 1]
  /\ OthersThanDisputes
WriteNotice(p) ==
  /\ For(p, "notice") /\ Close(p) /\ told' = [told EXCEPT !.written = @ + 1]
  /\ dispute' = dispute /\ OthersThanDisputes
Resolve ==
  /\ dispute.open /\ dispute' = [dispute EXCEPT !.open = FALSE]
  /\ UNCHANGED <<post, told>> /\ OthersThanDisputes

CommentNext ==
  \/ \E p \in Posts : \/ \E parent \in Comments \cup {Nil} : CountComments(p, parent)
                      \/ \E c \in Comments : PostComment(p, c) \/ FindReplies(p, c)
                      \/ DeleteComment(p) \/ PostDies(p)
  \/ \E c \in Comments : Age(c) \/ EditComment(c)
MessageNext ==
  \/ \E u \in Parties : \/ MarkAllRead(u) \/ DeleteAllNotices(u)
                        \/ \E m \in Messages : SendMessage(m, u)
                        \/ \E p \in Posts : FetchMessages(p, u)
  \/ \E m \in Messages : DeleteNotice(m)
  \/ \E p \in Posts : MarkMessages(p)
SearchNext ==
  \/ \E p \in Posts : \/ \E u \in Seekers : CountSearches(p, u)
                      \/ \E s \in Searches : SaveSearch(p, s)
                      \/ \E t \in Created : ReadSearches(p, t)
                      \/ Alert(p)
  \/ \E s \in Searches : SetAlert(s) \/ DeleteSearch(s)
DisputeNext ==
  \/ \E p \in Posts : \/ \E role \in {"requester", "worker", "mediator"} : SubmitEvidence(p, role)
                      \/ ReadDispute(p) \/ AssignMediator(p) \/ WriteNotice(p) \/ PostDies(p)
  \/ Resolve
TalkNext == CommentNext \/ MessageNext \/ SearchNext \/ DisputeNext
TalkSpec == TalkInit /\ [][TalkNext]_talkVars

-----------------------------------------------------------------------------
(* A reply is never left without its parent, and a comment goes only by    *)
(* its own deletion, or with a parent whose deletion overlapped the reply. *)
(* A message counts as read only if an answer to its recipient holds it.   *)
(* A user is alerted once about a task, by one search, and what the        *)
(* searches count are these alerts.  The log of a dispute is complete,     *)
(* and no notice of it is written twice.  The limits hold but for one      *)
(* comment or search with each request that another overlapped.            *)
TalkKept ==
  /\ \A c \in Thread : comment[c].parent = Nil \/ comment[c].parent \in Thread
  /\ Cardinality(Thread) <= MaxComments + crossed
  /\ \A c \in Comments : comment[c].is = "gone" =>
       \E r \in removed : r.of = c \/ (crossed > 0 /\ c \in r.late)
  /\ \A m \in Messages : message[m] # Nil /\ message[m].read => m \in answered
  /\ \A t \in Created : \A u \in Seekers : alerted[t][u] <= 1
  /\ \A s \in Searches : Saved(s) =>
       search[s].matches <= matched[s] /\ (crossed = 0 => search[s].matches = matched[s])
  /\ \A u \in Seekers : Cardinality(SearchesOf(u)) <= MaxSearches + crossed
  /\ dispute.events = dispute.evidence + dispute.mediated /\ told.written <= told.due
=============================================================================
