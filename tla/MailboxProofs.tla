---------------------------- MODULE MailboxProofs ----------------------------
(***************************************************************************)
(* The dispatcher and the reader of the inbox, for every set of keys,      *)
(* every selection of faults and all bounds: types, the replies the daemon *)
(* counts as seen, the notices it has recorded as sent, what the reader's  *)
(* cursor has passed, and that nothing happens twice while nothing fails.  *)
(***************************************************************************)
EXTENDS Mailbox, SequenceTheorems, WellFoundedInduction, TLAPS

\* Replies are only on their way during a poll, of threads that exist.
PollInv ==
  /\ pc # "poll" => fresh = <<>>
  /\ \A k \in todo : mem.threads[k] # NoThread

\* The ids of the notices of the outbox rise, and the batch of a tick is the
\* outbox as far as it had got, some more of it sent.
OutboxInv ==
  /\ \A i \in 1 .. Len(outbox) : outbox[i].id <= notices
  /\ \A i, j \in 1 .. Len(outbox) : i < j => outbox[i].id < outbox[j].id
  /\ pc = "deliver" =>
       /\ Len(batch) <= Len(outbox)
       /\ \A i \in 1 .. Len(batch) :
            /\ batch[i].id = outbox[i].id
            /\ outbox[i].sent => batch[i].sent

DispatcherInv == DispatcherTypeOK /\ PollInv /\ OutboxInv /\ SeenIsKept


Posts == [id : 1 .. MaxNotices, thread : Nat, replies : 0 .. MaxReplies]

USE DispatcherAssumption DEF DispatcherAssumption, NoThread

-----------------------------------------------------------------------------
(* Types *)

LEMMA PostsType ==
  ASSUME DispatcherTypeOK
  PROVE  posts \in Seq(Posts) /\ Len(posts) \in Nat
BY DEF DispatcherTypeOK, Posts

\* A message that reaches the chat is a post, whatever the daemon makes of it.
LEMMA PostedType ==
  ASSUME DispatcherTypeOK, pc = "deliver", at <= Len(batch)
  PROVE  /\ batch[at] \in Entries
         /\ Posted(batch[at]) \in Posts
         /\ Append(posts, Posted(batch[at])) \in Seq(Posts)
         /\ Len(Append(posts, Posted(batch[at]))) = Len(posts) + 1
<1>1. batch[at] \in Entries
  BY DEF DispatcherTypeOK
<1>2. ThreadOf(batch[at].key) \in Nat
  BY <1>1 DEF DispatcherTypeOK, DaemonStates, ThreadOf, Entries
<1>3. Posted(batch[at]) \in Posts
  BY <1>1, <1>2 DEF DispatcherTypeOK, Posted, Posts, Entries
<1>. QED  BY <1>1, <1>3 DEF DispatcherTypeOK, Posts

\* The states of the daemon stay states when the chat grows.
LEMMA StatesGrow ==
  ASSUME DispatcherTypeOK, Len(posts') \in Nat, Len(posts) <= Len(posts')
  PROVE  DaemonStates \subseteq DaemonStates'
BY DEF DispatcherTypeOK, DaemonStates

\* Pinning a new thread gives a state of the chat with one post more.
LEMMA PinnedType ==
  ASSUME DispatcherTypeOK, pc = "deliver", at <= Len(batch),
         Len(posts') = Len(posts) + 1
  PROVE  Pinned(batch[at]) \in DaemonStates'
<1>1. mem \in DaemonStates'
  BY StatesGrow DEF DispatcherTypeOK
<1>2. Len(posts) + 1 \in 0 .. Len(posts')
  BY DEF DispatcherTypeOK
<1>. QED  BY <1>1, <1>2 DEF Pinned, DaemonStates

\* A poll reads replies of its thread, in its order.
LEMMA NewRepliesType ==
  ASSUME DispatcherTypeOK, PollInv, NEW k \in todo
  PROVE  /\ posts[mem.threads[k]].replies \in 0 .. MaxReplies
         /\ NewReplies(k) \in Seq(ReplyIds)
         /\ mem.seen[k] \in Nat
         /\ [mem EXCEPT !.seen[k] = posts[mem.threads[k]].replies] \in DaemonStates
<1>1. k \in Keys /\ mem.threads[k] \in 1 .. Len(posts) /\ mem.seen[k] \in 0 .. MaxReplies
  BY DEF DispatcherTypeOK, PollInv, DaemonStates
<1>2. posts[mem.threads[k]].replies \in 0 .. MaxReplies
  <2>1. posts \in Seq(Posts)
    BY DEF DispatcherTypeOK, Posts
  <2>2. posts[mem.threads[k]] \in Posts
    BY <1>1, <2>1
  <2>. QED  BY <2>2 DEF Posts
<1>3. \A i \in 1 .. posts[mem.threads[k]].replies - mem.seen[k] :
        mem.seen[k] + i \in 1 .. MaxReplies
  BY <1>1, <1>2
<1>4. NewReplies(k) \in Seq(ReplyIds)
  <2>. DEFINE n == posts[mem.threads[k]].replies - mem.seen[k]
  <2>1. NewReplies(k) = [i \in 1 .. n |-> <<k, mem.seen[k] + i>>]
    BY DEF NewReplies
  <2>2. \A i \in 1 .. n : <<k, mem.seen[k] + i>> \in ReplyIds
    BY <1>1, <1>3 DEF ReplyIds
  <2>3. n \in Int
    BY <1>1, <1>2
  <2>4. CASE n >= 0
    BY <2>1, <2>2, <2>3, <2>4
  <2>5. CASE n < 0
    <3>1. 1 .. n = {} /\ 1 .. 0 = {}
      BY <2>3, <2>5
    <3>2. NewReplies(k) = [i \in 1 .. 0 |-> <<k, mem.seen[k] + i>>]
      BY <2>1, <3>1
    <3>. QED  BY <3>1, <3>2
  <2>. QED  BY <2>3, <2>4, <2>5
<1>5. [mem EXCEPT !.seen[k] = posts[mem.threads[k]].replies] \in DaemonStates
  BY <1>1, <1>2 DEF DispatcherTypeOK, DaemonStates
<1>. QED  BY <1>1, <1>2, <1>4, <1>5

\* What no step of the daemon, and no fault, takes out of its types.
LEMMA FaultType ==
  ASSUME NEW kind, DispatcherTypeOK, Fault(kind)
  PROVE  faults' \in 0 .. MaxFaults
BY DEF Fault, DispatcherTypeOK

LEMMA DispatcherTypeStep ==
  ASSUME DispatcherTypeOK, PollInv, DispatcherNext
  PROVE  DispatcherTypeOK'
<1>. USE DEF files, chatVars, tickVars
<1>1. ASSUME NEW key \in Keys \cup {NoKey}, Notify(key)
      PROVE  DispatcherTypeOK'
  <2>1. notices' \in 1 .. MaxNotices
    BY <1>1 DEF Notify, DispatcherTypeOK
  <2>2. outbox' \in Seq(Entries)
    BY <1>1, <2>1 DEF Notify, DispatcherTypeOK, Entries
  <2>. QED  BY <1>1, <2>1, <2>2 DEF Notify, DispatcherTypeOK, DaemonStates
<1>2. ASSUME NEW t \in 1 .. Len(posts), HumanReplies(t)
      PROVE  DispatcherTypeOK'
  <2>1. posts \in Seq(Posts)
    BY DEF DispatcherTypeOK, Posts
  <2>2. posts[t] \in Posts
    BY <2>1
  <2>. posts[t].replies + 1 \in 0 .. MaxReplies
    BY <2>2, <1>2 DEF HumanReplies, Posts
  <2>3. [posts[t] EXCEPT !.replies = @ + 1] \in Posts
    BY <2>2 DEF Posts
  <2>4. posts' = [posts EXCEPT ![t] = [posts[t] EXCEPT !.replies = @ + 1]]
    BY <1>2 DEF HumanReplies
  <2>5. posts' \in Seq(Posts) /\ Len(posts') = Len(posts)
    BY <2>1, <2>3, <2>4
  <2>6. DaemonStates' = DaemonStates
    BY <2>5 DEF DaemonStates
  <2>. QED  BY <1>2, <2>5, <2>6 DEF HumanReplies, DispatcherTypeOK, Posts
<1>3. ASSUME TickStart PROVE DispatcherTypeOK'
  BY <1>3 DEF TickStart, DispatcherTypeOK, DaemonStates
<1>4. ASSUME DeliverNext PROVE DispatcherTypeOK'
  <2>. USE <1>4 DEF DeliverNext
  <2>1. pc = "deliver" /\ at <= Len(batch)
    OBVIOUS
  <2>2. CASE batch[at].sent /\ UNCHANGED <<posts, mem, batch, faults>>
    BY <2>2 DEF DispatcherTypeOK, DaemonStates
  <2>3. CASE Delivered(batch[at])
    <3>1. posts' \in Seq(Posts) /\ Len(posts') = Len(posts) + 1
      BY <2>1, <2>3, PostedType DEF Delivered
    <3>2. Len(posts) \in Nat /\ Len(posts') \in Nat
      BY <3>1 DEF DispatcherTypeOK
    <3>3. mem' \in DaemonStates' /\ disk' \in DaemonStates'
      BY <2>1, <2>3, <3>1, <3>2, PinnedType, StatesGrow DEF Delivered, DispatcherTypeOK
    <3>4. batch' \in Seq(Entries) /\ Len(batch') = Len(batch)
      <4>1. [batch[at] EXCEPT !.sent = TRUE] \in Entries
        BY <2>1, PostedType DEF Entries
      <4>2. batch' = [batch EXCEPT ![at] = [batch[at] EXCEPT !.sent = TRUE]]
        BY <2>3 DEF Delivered
      <4>. QED  BY <4>1, <4>2, <2>1 DEF DispatcherTypeOK
    <3>5. at' \in 1 .. Len(batch') + 1
      BY <2>1, <3>4 DEF DispatcherTypeOK
    <3>. QED  BY <2>3, <3>1, <3>3, <3>4, <3>5 DEF Delivered, DispatcherTypeOK, Posts
  <2>4. CASE Refused(batch[at])
    <3>1. posts' \in Seq(Posts) /\ Len(posts') \in Nat /\ Len(posts) <= Len(posts')
      BY <2>1, <2>4, PostsType, PostedType DEF Refused
    <3>2. mem' \in DaemonStates' /\ disk' \in DaemonStates'
      BY <2>4, <3>1, StatesGrow DEF Refused, DispatcherTypeOK
    <3>3. faults' \in 0 .. MaxFaults
      BY <2>4, FaultType DEF Refused
    <3>. QED  BY <2>1, <2>4, <3>1, <3>2, <3>3 DEF Refused, DispatcherTypeOK, Posts
  <2>. QED  BY <2>2, <2>3, <2>4
<1>5. ASSUME SaveOutbox PROVE DispatcherTypeOK'
  BY <1>5 DEF SaveOutbox, DispatcherTypeOK, DaemonStates
<1>6. ASSUME SaveThreads PROVE DispatcherTypeOK'
  BY <1>6 DEF SaveThreads, DispatcherTypeOK, DaemonStates
<1>7. ASSUME Restat PROVE DispatcherTypeOK'
  <2>1. batch' \in Seq(Entries) /\ at' \in 1 .. Len(batch') + 1
    BY <1>7 DEF Restat
  <2>. QED  BY <1>7, <2>1 DEF Restat, DispatcherTypeOK, DaemonStates
<1>8. ASSUME SkipPoll PROVE DispatcherTypeOK'
  BY <1>8 DEF SkipPoll, DispatcherTypeOK, DaemonStates
<1>9. ASSUME StartPoll PROVE DispatcherTypeOK'
  BY <1>9 DEF StartPoll, DispatcherTypeOK, DaemonStates
<1>10. ASSUME NEW k \in Keys, PollThread(k) PROVE DispatcherTypeOK'
  <2>1. k \in todo /\ todo' \subseteq Keys
    BY <1>10 DEF PollThread, DispatcherTypeOK
  <2>2. DaemonStates' = DaemonStates
    BY <1>10 DEF PollThread, DaemonStates
  <2>3. CASE /\ fresh' = fresh \o NewReplies(k)
             /\ mem' = [mem EXCEPT !.seen[k] = posts[mem.threads[k]].replies]
             /\ UNCHANGED faults
    <3>1. fresh' \in Seq(ReplyIds)
      <4>1. fresh \in Seq(ReplyIds)
        BY DEF DispatcherTypeOK
      <4>2. NewReplies(k) \in Seq(ReplyIds)
        BY <2>1, NewRepliesType
      <4>. QED  BY <2>3, <4>1, <4>2
    <3>2. mem' \in DaemonStates
      BY <2>1, <2>3, NewRepliesType
    <3>. QED  BY <1>10, <2>1, <2>2, <2>3, <3>1, <3>2 DEF PollThread, DispatcherTypeOK
  <2>4. CASE Fault("refuse") /\ UNCHANGED <<fresh, mem>>
    BY <1>10, <2>1, <2>2, <2>4, FaultType DEF PollThread, DispatcherTypeOK
  <2>. QED  BY <1>10, <2>3, <2>4 DEF PollThread
<1>11. ASSUME AppendInbox PROVE DispatcherTypeOK'
  <2>1. inbox \in Seq(ReplyIds) /\ fresh \in Seq(ReplyIds)
    BY DEF DispatcherTypeOK
  <2>2. inbox \o fresh \in Seq(ReplyIds) /\ <<>> \in Seq(ReplyIds)
    BY <2>1
  <2>3. inbox' \in Seq(ReplyIds) /\ fresh' \in Seq(ReplyIds)
    BY <1>11, <2>1, <2>2 DEF AppendInbox
  <2>. QED  BY <1>11, <2>3 DEF AppendInbox, DispatcherTypeOK, DaemonStates
<1>12. ASSUME SaveSeen PROVE DispatcherTypeOK'
  BY <1>12 DEF SaveSeen, DispatcherTypeOK, DaemonStates
<1>13. AbandonTick => /\ batch' \in Seq(Entries) /\ at' \in 1 .. Len(batch') + 1
                      /\ fresh' \in Seq(ReplyIds) /\ todo' \subseteq Keys /\ pc' = "idle"
  BY DEF AbandonTick
<1>14. DropFresh /\ DispatcherTypeOK => dropped' \subseteq ReplyIds
  BY DEF DropFresh, DispatcherTypeOK
<1>15. ASSUME ChatRaises PROVE DispatcherTypeOK'
  <2>1. posts' \in Seq(Posts) /\ Len(posts') \in Nat /\ Len(posts) <= Len(posts')
    BY <1>15, PostsType, PostedType DEF ChatRaises
  <2>2. mem' \in DaemonStates' /\ disk' \in DaemonStates'
    BY <1>15, <2>1, StatesGrow DEF ChatRaises, DispatcherTypeOK
  <2>. QED  BY <1>13, <1>14, <1>15, <2>1, <2>2, FaultType DEF ChatRaises, DispatcherTypeOK, Posts
<1>16. ASSUME WriteRaises PROVE DispatcherTypeOK'
  <2>1. DaemonStates' = DaemonStates
    BY <1>16 DEF WriteRaises, DaemonStates
  <2>. QED  BY <1>13, <1>14, <1>16, <2>1, FaultType DEF WriteRaises, DispatcherTypeOK
<1>17. ASSUME Crash PROVE DispatcherTypeOK'
  <2>1. DaemonStates' = DaemonStates
    BY <1>17 DEF Crash, DaemonStates
  <2>. QED  BY <1>13, <1>17, <2>1, FaultType DEF Crash, DispatcherTypeOK
<1>. QED  BY <1>1, <1>2, <1>3, <1>4, <1>5, <1>6, <1>7, <1>8, <1>9, <1>10, <1>11, <1>12,
             <1>15, <1>16, <1>17 DEF DispatcherNext, DaemonStep

-----------------------------------------------------------------------------
(* What the types rest on: the poll reads threads that exist *)

LEMMA PollStep ==
  ASSUME DispatcherTypeOK, PollInv, DispatcherNext
  PROVE  PollInv'
<1>. USE DEF PollInv, files, chatVars, tickVars
<1>1. ASSUME NEW key \in Keys \cup {NoKey}, Notify(key) PROVE PollInv'
  BY <1>1 DEF Notify
<1>2. ASSUME NEW t \in 1 .. Len(posts), HumanReplies(t) PROVE PollInv'
  BY <1>2 DEF HumanReplies
<1>3. ASSUME TickStart PROVE PollInv'
  BY <1>3 DEF TickStart
<1>4. ASSUME DeliverNext PROVE PollInv'
  <2>1. CASE UNCHANGED mem
    BY <1>4, <2>1 DEF DeliverNext
  <2>2. CASE Delivered(batch[at])
    <3>1. Len(posts) \in Nat /\ todo \subseteq Keys /\ mem \in DaemonStates
      BY DEF DispatcherTypeOK
    <3>2. \A k \in todo : mem'.threads[k] # NoThread
      BY <2>2, <3>1 DEF Delivered, Pinned, DaemonStates
    <3>. QED  BY <1>4, <3>2 DEF DeliverNext
  <2>. QED  BY <1>4, <2>1, <2>2 DEF DeliverNext, Refused
<1>5. ASSUME SaveOutbox PROVE PollInv'
  BY <1>5 DEF SaveOutbox
<1>6. ASSUME SaveThreads PROVE PollInv'
  BY <1>6 DEF SaveThreads
<1>7. ASSUME Restat PROVE PollInv'
  BY <1>7 DEF Restat
<1>8. ASSUME SkipPoll PROVE PollInv'
  BY <1>8 DEF SkipPoll
<1>9. ASSUME StartPoll PROVE PollInv'
  BY <1>9 DEF StartPoll
<1>10. ASSUME NEW k \in Keys, PollThread(k) PROVE PollInv'
  <2>1. \A j \in Keys : mem'.threads[j] = mem.threads[j]
    BY <1>10 DEF PollThread, DispatcherTypeOK, DaemonStates
  <2>. QED  BY <1>10, <2>1 DEF PollThread, DispatcherTypeOK
<1>11. ASSUME AppendInbox PROVE PollInv'
  BY <1>11 DEF AppendInbox
<1>12. ASSUME SaveSeen PROVE PollInv'
  BY <1>12 DEF SaveSeen
<1>13. ASSUME AbandonTick PROVE PollInv'
  BY <1>13 DEF AbandonTick
<1>. QED  BY <1>1, <1>2, <1>3, <1>4, <1>5, <1>6, <1>7, <1>8, <1>9, <1>10, <1>11, <1>12, <1>13
          DEF DispatcherNext, DaemonStep, ChatRaises, WriteRaises, Crash

-----------------------------------------------------------------------------
(* The replies that count as seen *)

\* The file that is appended to keeps its lines and has those of the other.
LEMMA HoldsAppended ==
  ASSUME NEW s \in Seq(ReplyIds), NEW t \in Seq(ReplyIds), NEW id,
         Holds(s, id) \/ Holds(t, id)
  PROVE  Holds(s \o t, id)
<1>1. CASE Holds(s, id)
  <2>1. PICK i \in 1 .. Len(s) : s[i] = id
    BY <1>1 DEF Holds
  <2>2. i \in 1 .. Len(s \o t) /\ (s \o t)[i] = id
    BY <2>1
  <2>. QED  BY <2>2 DEF Holds
<1>2. CASE Holds(t, id)
  <2>1. PICK i \in 1 .. Len(t) : t[i] = id
    BY <1>2 DEF Holds
  <2>2. Len(s) + i \in 1 .. Len(s \o t) /\ (s \o t)[Len(s) + i] = id
    BY <2>1
  <2>. QED  BY <2>2 DEF Holds
<1>. QED  BY <1>1, <1>2

\* A poll reads every reply after the last one seen.
LEMMA NewRepliesHold ==
  ASSUME DispatcherTypeOK, PollInv, NEW k \in todo,
         NEW n \in 1 .. posts[mem.threads[k]].replies, n > mem.seen[k]
  PROVE  Holds(NewReplies(k), <<k, n>>)
<1>. DEFINE last == posts[mem.threads[k]].replies
<1>. DEFINE old == mem.seen[k]
<1>1. last \in Nat /\ old \in Nat
  <2>1. last \in 0 .. MaxReplies /\ old \in Nat
    BY NewRepliesType
  <2>. QED  BY <2>1
<1>2. n - old \in 1 .. last - old
  BY <1>1
<1>3. NewReplies(k) = [i \in 1 .. last - old |-> <<k, old + i>>]
  BY DEF NewReplies
<1>4. last - old \in Nat
  BY <1>1, <1>2
<1>5. Len(NewReplies(k)) = last - old
  BY <1>3, <1>4
<1>6. NewReplies(k)[n - old] = <<k, n>>
  <2>1. old + (n - old) = n
    BY <1>1
  <2>. QED  BY <1>2, <1>3, <2>1
<1>. QED  BY <1>2, <1>5, <1>6 DEF Holds

LEMMA SeenStep ==
  ASSUME DispatcherTypeOK, PollInv, SeenIsKept, DispatcherNext
  PROVE  SeenIsKept'
<1>. USE DEF SeenIsKept, Holds, files, chatVars, tickVars
<1>1. ASSUME NEW key \in Keys \cup {NoKey}, Notify(key) PROVE SeenIsKept'
  BY <1>1 DEF Notify
<1>2. ASSUME NEW t \in 1 .. Len(posts), HumanReplies(t) PROVE SeenIsKept'
  BY <1>2 DEF HumanReplies
<1>3. ASSUME TickStart PROVE SeenIsKept'
  BY <1>3 DEF TickStart
<1>4. ASSUME DeliverNext PROVE SeenIsKept'
  <2>1. CASE UNCHANGED mem
    BY <1>4, <2>1 DEF DeliverNext
  <2>2. CASE Delivered(batch[at])
    <3>1. mem'.seen = mem.seen
      BY <2>2 DEF Delivered, Pinned, DispatcherTypeOK, DaemonStates
    <3>. QED  BY <1>4, <3>1 DEF DeliverNext
  <2>. QED  BY <1>4, <2>1, <2>2 DEF DeliverNext, Refused
<1>5. ASSUME SaveOutbox PROVE SeenIsKept'
  BY <1>5 DEF SaveOutbox
<1>6. ASSUME SaveThreads PROVE SeenIsKept'
  <2>1. fresh = <<>>
    BY <1>6 DEF SaveThreads, PollInv
  <2>2. \A id : ~Holds(fresh, id)
    BY <2>1
  <2>3. mem' = mem /\ disk' = mem /\ inbox' = inbox /\ fresh' = fresh /\ dropped' = dropped
    BY <1>6 DEF SaveThreads
  <2>4. \A k \in Keys : \A n \in 1 .. mem.seen[k] : <<k, n>> \in dropped \/ Holds(inbox, <<k, n>>)
    BY <2>2
  <2>. QED  BY <2>3, <2>4
<1>7. ASSUME Restat PROVE SeenIsKept'
  BY <1>7 DEF Restat
<1>8. ASSUME SkipPoll PROVE SeenIsKept'
  BY <1>8 DEF SkipPoll
<1>9. ASSUME StartPoll PROVE SeenIsKept'
  BY <1>9 DEF StartPoll
<1>10. ASSUME NEW k \in Keys, PollThread(k) PROVE SeenIsKept'
  <2>1. k \in todo
    BY <1>10 DEF PollThread
  <2>2. CASE Fault("refuse") /\ UNCHANGED <<fresh, mem>>
    BY <1>10, <2>2 DEF PollThread
  <2>3. CASE /\ fresh' = fresh \o NewReplies(k)
             /\ mem' = [mem EXCEPT !.seen[k] = posts[mem.threads[k]].replies]
    <3>1. fresh \in Seq(ReplyIds) /\ NewReplies(k) \in Seq(ReplyIds)
      BY <2>1, NewRepliesType DEF DispatcherTypeOK
    <3>2. \A j \in Keys \ {k} : mem'.seen[j] = mem.seen[j]
      BY <2>3 DEF DispatcherTypeOK, DaemonStates
    <3>3. mem'.seen[k] = posts[mem.threads[k]].replies
      BY <2>3 DEF DispatcherTypeOK, DaemonStates
    <3>4. ASSUME NEW j \in Keys, NEW n \in 1 .. mem'.seen[j]
          PROVE  <<j, n>> \in dropped \/ Holds(inbox, <<j, n>>) \/ Holds(fresh', <<j, n>>)
      <4>. HIDE DEF Holds
      <4>1. CASE n \in 1 .. mem.seen[j]
        <5>1. <<j, n>> \in dropped \/ Holds(inbox, <<j, n>>) \/ Holds(fresh, <<j, n>>)
          BY <4>1
        <5>. QED  BY <2>3, <3>1, <5>1, HoldsAppended
      <4>2. CASE n \notin 1 .. mem.seen[j]
        <5>1. j = k
          BY <3>2, <4>2
        <5>2. n \in 1 .. posts[mem.threads[k]].replies
          BY <3>3, <5>1
        <5>. posts[mem.threads[k]].replies \in Nat /\ mem.seen[k] \in Nat
          <6>1. posts[mem.threads[k]].replies \in 0 .. MaxReplies /\ mem.seen[k] \in Nat
            BY <2>1, NewRepliesType
          <6>. QED  BY <6>1
        <5>. n > mem.seen[k]
          BY <4>2, <5>1, <5>2
        <5>3. Holds(NewReplies(k), <<j, n>>)
          BY <2>1, <5>1, <5>2, NewRepliesHold
        <5>. QED  BY <2>3, <3>1, <5>3, HoldsAppended
      <4>. QED  BY <4>1, <4>2
    <3>5. inbox' = inbox /\ dropped' = dropped /\ disk' = disk
      BY <1>10 DEF PollThread
    <3>. QED  BY <3>4, <3>5
  <2>. QED  BY <1>10, <2>2, <2>3 DEF PollThread
<1>11. ASSUME AppendInbox PROVE SeenIsKept'
  <2>1. CASE fresh = <<>>
    BY <1>11, <2>1 DEF AppendInbox
  <2>2. CASE inbox' = inbox \o fresh
    <3>1. inbox \in Seq(ReplyIds) /\ fresh \in Seq(ReplyIds)
      BY DEF DispatcherTypeOK
    <3>2. \A id : Holds(inbox, id) \/ Holds(fresh, id) => Holds(inbox', id)
      BY <2>2, <3>1, HoldsAppended
    <3>3. mem' = mem /\ disk' = disk /\ dropped' = dropped
      BY <1>11 DEF AppendInbox
    <3>. HIDE DEF Holds
    <3>4. \A k \in Keys : \A n \in 1 .. mem.seen[k] :
            <<k, n>> \in dropped \/ Holds(inbox, <<k, n>>) \/ Holds(fresh, <<k, n>>)
      OBVIOUS
    <3>5. \A k \in Keys : \A n \in 1 .. disk.seen[k] :
            <<k, n>> \in dropped \/ Holds(inbox, <<k, n>>)
      OBVIOUS
    <3>6. \A k \in Keys : \A n \in 1 .. mem'.seen[k] :
            <<k, n>> \in dropped' \/ Holds(inbox', <<k, n>>)
      BY <3>2, <3>3, <3>4
    <3>7. \A k \in Keys : \A n \in 1 .. disk'.seen[k] :
            <<k, n>> \in dropped' \/ Holds(inbox', <<k, n>>)
      BY <3>2, <3>3, <3>5
    <3>. QED  BY <3>6, <3>7 DEF Holds
  <2>. QED  BY <1>11, <2>1, <2>2 DEF AppendInbox
<1>12. ASSUME SaveSeen PROVE SeenIsKept'
  <2>1. fresh = <<>>
    BY <1>12 DEF SaveSeen, PollInv
  <2>2. \A id : ~Holds(fresh, id)
    BY <2>1
  <2>3. mem' = mem /\ disk' = mem /\ inbox' = inbox /\ fresh' = fresh /\ dropped' = dropped
    BY <1>12 DEF SaveSeen
  <2>4. \A k \in Keys : \A n \in 1 .. mem.seen[k] : <<k, n>> \in dropped \/ Holds(inbox, <<k, n>>)
    BY <2>2
  <2>. QED  BY <2>3, <2>4
<1>13. ASSUME ChatRaises \/ WriteRaises PROVE SeenIsKept'
  BY <1>13 DEF ChatRaises, WriteRaises, AbandonTick, DropFresh
<1>14. ASSUME Crash PROVE SeenIsKept'
  BY <1>14 DEF Crash, AbandonTick
<1>. QED  BY <1>1, <1>2, <1>3, <1>4, <1>5, <1>6, <1>7, <1>8, <1>9, <1>10, <1>11, <1>12,
             <1>13, <1>14 DEF DispatcherNext, DaemonStep

-----------------------------------------------------------------------------
(* The notices recorded as sent *)

LEMMA OutboxStep ==
  ASSUME DispatcherTypeOK, OutboxInv, DispatcherNext
  PROVE  OutboxInv'
<1>. USE DEF OutboxInv, files, chatVars, tickVars
<1>1. ASSUME NEW key \in Keys \cup {NoKey}, Notify(key) PROVE OutboxInv'
  <2>1. /\ outbox \in Seq(Entries) /\ notices \in Nat /\ notices' = notices + 1
        /\ outbox' = Append(outbox, [id |-> notices', key |-> key, sent |-> FALSE])
        /\ batch' = batch /\ pc' = pc
    BY <1>1 DEF Notify, DispatcherTypeOK
  <2>2. /\ Len(outbox') = Len(outbox) + 1
        /\ \A i \in 1 .. Len(outbox) : outbox'[i] = outbox[i]
        /\ outbox'[Len(outbox) + 1].id = notices + 1
    BY <2>1
  <2>3. \A i \in 1 .. Len(outbox) : outbox[i].id \in Nat
    <3>1. \A i \in 1 .. Len(outbox) : outbox[i] \in Entries
      BY <2>1
    <3>. QED  BY <3>1 DEF Entries
  <2>4. Len(outbox) \in Nat
    BY <2>1
  <2>5. \A i \in 1 .. Len(outbox') : i \in 1 .. Len(outbox) \/ i = Len(outbox) + 1
    BY <2>2, <2>4
  <2>6. \A i \in 1 .. Len(outbox') : outbox'[i].id <= notices'
    BY <2>1, <2>2, <2>3, <2>4, <2>5
  <2>7. \A i, j \in 1 .. Len(outbox') : i < j => outbox'[i].id < outbox'[j].id
    BY <2>1, <2>2, <2>3, <2>4, <2>5
  <2>8. Len(batch) \in Nat
    BY DEF DispatcherTypeOK
  <2>9. ASSUME pc = "deliver"
        PROVE  /\ Len(batch) <= Len(outbox')
               /\ \A i \in 1 .. Len(batch) :
                    /\ batch[i].id = outbox'[i].id
                    /\ outbox'[i].sent => batch[i].sent
    BY <2>2, <2>4, <2>8, <2>9
  <2>. QED  BY <2>1, <2>6, <2>7, <2>9
<1>2. ASSUME NEW t \in 1 .. Len(posts), HumanReplies(t) PROVE OutboxInv'
  BY <1>2 DEF HumanReplies
<1>3. ASSUME TickStart PROVE OutboxInv'
  BY <1>3 DEF TickStart, DispatcherTypeOK
<1>4. ASSUME DeliverNext PROVE OutboxInv'
  <2>1. CASE batch' = batch
    BY <1>4, <2>1 DEF DeliverNext
  <2>2. CASE Delivered(batch[at])
    <3>1. batch \in Seq(Entries) /\ at \in 1 .. Len(batch)
      BY <1>4 DEF DeliverNext, DispatcherTypeOK
    <3>2. /\ Len(batch') = Len(batch)
          /\ \A i \in 1 .. Len(batch) :
               batch'[i].id = batch[i].id /\ (batch[i].sent => batch'[i].sent)
      BY <2>2, <3>1 DEF Delivered, Entries
    <3>. QED  BY <1>4, <3>2 DEF DeliverNext
  <2>. QED  BY <1>4, <2>1, <2>2 DEF DeliverNext, Refused
<1>5. ASSUME SaveOutbox PROVE OutboxInv'
  <2>1. CASE outbox' = batch
    <3>1. Len(batch) \in Nat /\ Len(outbox) \in Nat /\ Len(batch) <= Len(outbox)
      BY <1>5 DEF SaveOutbox, DispatcherTypeOK
    <3>2. \A i \in 1 .. Len(batch) : i \in 1 .. Len(outbox)
      BY <3>1
    <3>3. pc = "deliver" /\ pc' # "deliver" /\ notices' = notices
      BY <1>5 DEF SaveOutbox
    <3>4. \A i \in 1 .. Len(batch) : batch[i].id = outbox[i].id
      BY <3>3
    <3>. QED  BY <2>1, <3>2, <3>3, <3>4
  <2>2. CASE UNCHANGED outbox
    BY <1>5, <2>2 DEF SaveOutbox
  <2>. QED  BY <1>5, <2>1, <2>2 DEF SaveOutbox
<1>6. ASSUME SaveThreads PROVE OutboxInv'
  BY <1>6 DEF SaveThreads
<1>7. ASSUME Restat PROVE OutboxInv'
  BY <1>7 DEF Restat
<1>8. ASSUME SkipPoll PROVE OutboxInv'
  BY <1>8 DEF SkipPoll
<1>9. ASSUME StartPoll PROVE OutboxInv'
  BY <1>9 DEF StartPoll
<1>10. ASSUME NEW k \in Keys, PollThread(k) PROVE OutboxInv'
  BY <1>10 DEF PollThread
<1>11. ASSUME AppendInbox PROVE OutboxInv'
  BY <1>11 DEF AppendInbox
<1>12. ASSUME SaveSeen PROVE OutboxInv'
  BY <1>12 DEF SaveSeen
<1>13. ASSUME ChatRaises \/ WriteRaises \/ Crash PROVE OutboxInv'
  BY <1>13 DEF ChatRaises, WriteRaises, Crash, AbandonTick
<1>. QED  BY <1>1, <1>2, <1>3, <1>4, <1>5, <1>6, <1>7, <1>8, <1>9, <1>10, <1>11, <1>12,
             <1>13 DEF DispatcherNext, DaemonStep

-----------------------------------------------------------------------------
(* The theorems *)

\* The reader writes none of what the dispatcher owns; it may spend a fault.
LEMMA ReaderStep ==
  ASSUME DispatcherInv, ApplyCommands \/ SaveCursor \/ MonitorRestart
  PROVE  DispatcherInv' /\ posts' = posts
<1>1. faults' \in 0 .. MaxFaults
  BY FaultType DEF ApplyCommands, SaveCursor, MonitorRestart, dispatcherVars, DispatcherInv,
     DispatcherTypeOK
<1>2. UNCHANGED <<files, chatVars, tickVars, mem, dropped>>
  BY DEF ApplyCommands, SaveCursor, MonitorRestart, dispatcherVars
<1>. QED  BY <1>1, <1>2 DEF files, chatVars, tickVars, DispatcherInv, DispatcherTypeOK, DaemonStates,
             PollInv, OutboxInv, SeenIsKept, Holds

LEMMA DispatcherStarts == Init => DispatcherInv
<1>. SUFFICES ASSUME Init PROVE DispatcherInv
  OBVIOUS
<1>. USE DEF Init, DispatcherInit
<1>1. NoState \in DaemonStates
  BY DEF NoState, DaemonStates
<1>2. DispatcherTypeOK
  <2>1. at \in 1 .. Len(batch) + 1
    OBVIOUS
  <2>2. <<>> \in Seq(Entries) /\ <<>> \in Seq(ReplyIds) /\ <<>> \in Seq(Posts)
    OBVIOUS
  <2>3. 0 \in 0 .. MaxNotices /\ 0 \in 0 .. MaxFaults
    OBVIOUS
  <2>. HIDE DispatcherAssumption
  <2>. QED  BY <1>1, <2>1, <2>2, <2>3 DEF DispatcherTypeOK, Posts
<1>3. PollInv /\ OutboxInv
  BY DEF PollInv, OutboxInv
<1>4. SeenIsKept
  <2>1. \A k \in Keys : mem.seen[k] = 0 /\ disk.seen[k] = 0
    BY DEF NoState
  <2>2. 1 .. 0 = {}
    OBVIOUS
  <2>. QED  BY <2>1, <2>2 DEF SeenIsKept
<1>. QED  BY <1>2, <1>3, <1>4 DEF DispatcherInv

\* The invariant of the dispatcher holds in every state the two processes reach.
THEOREM DispatcherInvariant == Spec => []DispatcherInv
<1>1. Init => DispatcherInv
  BY DispatcherStarts
<1>2. DispatcherInv /\ [Next]_vars => DispatcherInv'
  <2>. SUFFICES ASSUME DispatcherInv, [Next]_vars PROVE DispatcherInv'
    OBVIOUS
  <2>1. CASE DispatcherNext
    BY <2>1, DispatcherTypeStep, PollStep, SeenStep, OutboxStep DEF DispatcherInv
  <2>2. CASE ApplyCommands \/ SaveCursor \/ MonitorRestart
    BY <2>2, ReaderStep
  <2>3. CASE UNCHANGED vars
    BY <2>3 DEF vars, dispatcherVars, files, chatVars, tickVars, DispatcherInv, DispatcherTypeOK,
       DaemonStates, PollInv, OutboxInv, SeenIsKept, Holds
  <2>. QED  BY <2>1, <2>2, <2>3 DEF Next
<1>. QED  BY <1>1, <1>2, PTL DEF Spec

\* A reply that counts as seen is in the inbox, on its way there, or was dropped
\* by a tick that raised: _poll_inbound appends before it saves.
THEOREM SeenRepliesAreKept == Spec => []SeenIsKept
<1>1. DispatcherInv => SeenIsKept
  BY DEF DispatcherInv
<1>. QED  BY <1>1, DispatcherInvariant, PTL

\* A notice the outbox shows as sent is never sent again: a tick delivers what is
\* unsent in its copy, and the file shows no more as sent than the copy does.
THEOREM SentNoticesStaySent == Spec => SentOnce
<1>. DEFINE Step == \A i \in 1 .. Len(outbox) :
       outbox[i].sent => \A j \in Len(posts) + 1 .. Len(posts') : posts'[j].id # outbox[i].id
<1>1. DispatcherInv /\ [Next]_vars => [Step]_dispatcherVars
  <2>. SUFFICES ASSUME DispatcherInv, [Next]_vars PROVE [Step]_dispatcherVars
    OBVIOUS
  <2>0. posts \in Seq(Posts) /\ Len(posts) \in Nat
    BY PostsType DEF DispatcherInv
  <2>1. ASSUME Len(posts') = Len(posts) PROVE Step
    BY <2>0, <2>1
  <2>2. ASSUME pc = "deliver", at <= Len(batch), ~batch[at].sent,
               posts' = Append(posts, Posted(batch[at]))
        PROVE  Step
    <3>1. Len(posts') = Len(posts) + 1 /\ posts'[Len(posts) + 1].id = batch[at].id
      BY <2>0, <2>2, PostedType DEF DispatcherInv, Posted
    <3>2. at \in 1 .. Len(batch) /\ Len(batch) \in Nat /\ Len(outbox) \in Nat
      BY <2>2 DEF DispatcherInv, DispatcherTypeOK
    <3>3. at \in 1 .. Len(outbox) /\ batch[at].id = outbox[at].id /\ ~outbox[at].sent
      BY <2>2, <3>2 DEF DispatcherInv, OutboxInv
    <3>4. \A i \in 1 .. Len(outbox) : outbox[i].id \in Nat
      <4>1. \A i \in 1 .. Len(outbox) : outbox[i] \in Entries
        BY DEF DispatcherInv, DispatcherTypeOK
      <4>. QED  BY <4>1 DEF Entries
    <3>5. \A i \in 1 .. Len(outbox) : i # at => outbox[i].id # outbox[at].id
      BY <3>2, <3>3, <3>4 DEF DispatcherInv, OutboxInv
    <3>6. \A j \in Len(posts) + 1 .. Len(posts') : j = Len(posts) + 1
      BY <2>0, <3>1
    <3>. QED  BY <3>1, <3>3, <3>5, <3>6
  <2>. HIDE DEF Step
  <2>3. CASE DeliverNext
    <3>1. CASE posts' = posts
      BY <2>1, <3>1
    <3>2. CASE posts' = Append(posts, Posted(batch[at])) /\ ~batch[at].sent
      BY <2>2, <2>3, <3>2 DEF DeliverNext
    <3>. QED  BY <2>3, <3>1, <3>2 DEF DeliverNext, Delivered, Refused
  <2>4. CASE ChatRaises
    <3>1. CASE posts' = posts
      BY <2>1, <3>1
    <3>2. CASE /\ pc = "deliver" /\ at <= Len(batch) /\ ~batch[at].sent
               /\ posts' = Append(posts, Posted(batch[at]))
      BY <2>2, <3>2
    <3>. QED  BY <2>4, <3>1, <3>2 DEF ChatRaises
  <2>5. ASSUME NEW t \in 1 .. Len(posts), HumanReplies(t) PROVE Step
    BY <2>0, <2>1, <2>5 DEF HumanReplies
  <2>6. CASE posts' = posts
    BY <2>1, <2>6
  <2>. QED
    BY <2>3, <2>4, <2>5, <2>6, ReaderStep
       DEF Next, DispatcherNext, DaemonStep, vars, dispatcherVars, chatVars, Notify, TickStart,
           SaveOutbox, SaveThreads, Restat, SkipPoll, StartPoll, PollThread, AppendInbox, SaveSeen,
           WriteRaises, Crash
<1>. QED  BY <1>1, DispatcherInvariant, PTL DEF Spec, SentOnce

-----------------------------------------------------------------------------
(* The reader: where the cursor is, and what was applied *)

\* The least-number principle.
LEMMA Least ==
  ASSUME NEW T \in SUBSET Nat, T # {}
  PROVE  \E m \in T : \A k \in T : m <= k
<1>. DEFINE R == OpToRel(<, Nat)
<1>1. IsWellFoundedOn(R, Nat)
  BY NatLessThanWellFounded
<1>2. \A x, y \in Nat : <<x, y>> \in R <=> x < y
  BY DEF OpToRel
<1>. HIDE DEF R
<1>3. PICK x \in T : \A y \in T : ~(<<y, x>> \in R)
  BY <1>1, WFMin
<1>4. \A y \in T : x <= y
  <2>. SUFFICES ASSUME NEW y \in T PROVE x <= y
    OBVIOUS
  <2>1. x \in Nat /\ y \in Nat /\ ~(y < x)
    BY <1>2, <1>3
  <2>. QED  BY <2>1
<1>. QED  BY <1>4

\* A line that is there has a first place.
LEMMA PlaceFacts ==
  ASSUME DispatcherTypeOK, NEW c, Holds(inbox, c)
  PROVE  /\ PlaceOf(c) \in 1 .. Len(inbox) /\ inbox[PlaceOf(c)] = c
         /\ \A j \in 1 .. PlaceOf(c) - 1 : inbox[j] # c
<1>. DEFINE T == {i \in 1 .. Len(inbox) : inbox[i] = c}
<1>1. Len(inbox) \in Nat
  BY DEF DispatcherTypeOK
<1>2. T \in SUBSET Nat /\ T # {}
  BY <1>1 DEF Holds
<1>3. PICK m \in T : \A k \in T : m <= k
  BY <1>2, Least
<1>4. \A j \in 1 .. m - 1 : inbox[j] # c
  <2>. SUFFICES ASSUME NEW j \in 1 .. m - 1, inbox[j] = c PROVE FALSE
    OBVIOUS
  <2>1. j \in T
    BY <1>1
  <2>. QED  BY <1>1, <1>3, <2>1
<1>. QED  BY <1>3, <1>4 DEF PlaceOf

\* It keeps that place while the file grows.
LEMMA PlaceStays ==
  ASSUME DispatcherTypeOK, NEW c, Holds(inbox, c),
         Len(inbox') \in Nat, Len(inbox) <= Len(inbox'),
         \A i \in 1 .. Len(inbox) : inbox'[i] = inbox[i]
  PROVE  Holds(inbox', c) /\ PlaceOf(c)' = PlaceOf(c)
<1>. DEFINE p == PlaceOf(c)
            First(i) == inbox'[i] = c /\ \A j \in 1 .. i - 1 : inbox'[j] # c
<1>1. Len(inbox) \in Nat
  BY DEF DispatcherTypeOK
<1>2. p \in 1 .. Len(inbox) /\ inbox[p] = c /\ \A j \in 1 .. p - 1 : inbox[j] # c
  BY PlaceFacts
<1>. HIDE DEF p
<1>3. p \in 1 .. Len(inbox') /\ inbox'[p] = c /\ \A j \in 1 .. p - 1 : inbox'[j] # c
  BY <1>1, <1>2
<1>4. \A i \in 1 .. Len(inbox') : First(i) => i = p
  <2>. SUFFICES ASSUME NEW i \in 1 .. Len(inbox'), First(i), i # p PROVE FALSE
    OBVIOUS
  <2>1. CASE i < p
    BY <1>1, <1>3, <2>1
  <2>2. CASE p < i
    BY <1>1, <1>3, <2>2
  <2>. QED  BY <1>1, <1>2, <2>1, <2>2
<1>5. PlaceOf(c)' = CHOOSE i \in 1 .. Len(inbox') : First(i)
  BY DEF PlaceOf
<1>6. First(p)
  BY <1>3
<1>. HIDE DEF First
<1>7. PlaceOf(c)' = p
  BY <1>3, <1>4, <1>5, <1>6
<1>. QED  BY <1>3, <1>7 DEF p, Holds

\* Where a line is depends on the file alone.
LEMMA PlaceSame ==
  ASSUME DispatcherTypeOK, UNCHANGED inbox, NEW c, Holds(inbox, c)
  PROVE  Holds(inbox', c) /\ PlaceOf(c)' = PlaceOf(c)
<1>1. Len(inbox) \in Nat
  BY DEF DispatcherTypeOK
<1>. QED  BY <1>1, PlaceStays

\* The invariant after a step that leaves the file alone.
LEMMA PassedAfter ==
  ASSUME DispatcherTypeOK, UNCHANGED inbox,
         \A c \in {cursor', savedCursor'} \ {None} :
           Holds(inbox, c) /\ \A i \in 1 .. PlaceOf(c) : applied'[inbox[i]] > 0
  PROVE  PassedIsApplied'
<1>. SUFFICES ASSUME NEW c \in {cursor', savedCursor'} \ {None}
     PROVE  Holds(inbox', c) /\ \A i \in 1 .. PlaceOf(c)' : applied'[inbox'[i]] > 0
  BY DEF PassedIsApplied
<1>1. Holds(inbox', c) /\ PlaceOf(c)' = PlaceOf(c)
  BY PlaceSame
<1>. QED  BY <1>1

\* How many lines the reader has behind it.
Place(c) == IF c = None THEN 0 ELSE PlaceOf(c)

LEMMA ReadNewFacts ==
  ASSUME TypeOK, PassedIsApplied
  PROVE  /\ Place(cursor) \in 0 .. Len(inbox) /\ Len(inbox) \in Nat
         /\ Len(ReadNew) = Len(inbox) - Place(cursor)
         /\ \A i \in 1 .. Len(ReadNew) :
              ReadNew[i] = inbox[Place(cursor) + i] /\ ReadNew[i] \in ReplyIds
         /\ ReadNew = <<>> <=> Place(cursor) = Len(inbox)
<1>1. inbox \in Seq(ReplyIds) /\ Len(inbox) \in Nat /\ DispatcherTypeOK
  BY DEF TypeOK, DispatcherTypeOK
<1>2. CASE cursor = None
  BY <1>1, <1>2 DEF Place, ReadNew
<1>3. CASE cursor # None
  <2>. DEFINE p == PlaceOf(cursor)
  <2>1. Holds(inbox, cursor)
    BY <1>3 DEF PassedIsApplied
  <2>2. p \in 1 .. Len(inbox)
    BY <1>1, <2>1, PlaceFacts
  <2>3. ReadNew = SubSeq(inbox, p + 1, Len(inbox)) /\ Place(cursor) = p
    BY <1>3, <2>1 DEF ReadNew, Holds, Place
  <2>. HIDE DEF p
  <2>4. /\ Len(ReadNew) = Len(inbox) - p
        /\ \A i \in 1 .. Len(inbox) - p : ReadNew[i] = inbox[p + i] /\ p + i \in 1 .. Len(inbox)
    BY <1>1, <2>2, <2>3
  <2>5. ReadNew = <<>> <=> Len(ReadNew) = 0
    <3>1. ReadNew \in Seq(ReplyIds)
      BY <1>1, <2>2, <2>3
    <3>. QED  BY <3>1, EmptySeq
  <2>. QED  BY <1>1, <2>2, <2>3, <2>4, <2>5
<1>. QED  BY <1>2, <1>3

\* What is applied stays so, and the lines read are.
LEMMA AppliedGrows ==
  ASSUME TypeOK, PassedIsApplied, NEW n \in 0 .. Len(ReadNew)
  PROVE  /\ AppliedAfter(n) \in [ReplyIds -> 0 .. 2]
         /\ \A id \in ReplyIds : applied[id] > 0 => AppliedAfter(n)[id] > 0
         /\ \A i \in 1 .. n : AppliedAfter(n)[ReadNew[i]] > 0
<1>. DEFINE times(id) == {i \in 1 .. n : ReadNew[i] = id}
            h == AppliedAfter(n)
<1>1. h = [id \in ReplyIds |->
             IF times(id) = {} THEN applied[id]
             ELSE IF applied[id] = 0 /\ \A i, j \in times(id) : i = j THEN 1 ELSE 2]
  BY DEF AppliedAfter
<1>. HIDE DEF h, times
<1>2. applied \in [ReplyIds -> 0 .. 2]
  BY DEF TypeOK
<1>3. \A i \in 1 .. n : i \in 1 .. Len(ReadNew) /\ ReadNew[i] \in ReplyIds
  BY ReadNewFacts
<1>4. \A i \in 1 .. n : h[ReadNew[i]] > 0
  <2>. SUFFICES ASSUME NEW i \in 1 .. n PROVE h[ReadNew[i]] > 0
    OBVIOUS
  <2>1. times(ReadNew[i]) # {}
    BY DEF times
  <2>. QED  BY <1>1, <1>3, <2>1
<1>5. h \in [ReplyIds -> 0 .. 2]
  BY <1>1, <1>2
<1>6. ASSUME NEW id \in ReplyIds, applied[id] > 0 PROVE h[id] > 0
  <2>1. h[id] = IF times(id) = {} THEN applied[id]
                ELSE IF applied[id] = 0 /\ \A i, j \in times(id) : i = j THEN 1 ELSE 2
    BY <1>1
  <2>. QED  BY <1>6, <2>1
<1>. QED  BY <1>4, <1>5, <1>6 DEF h

\* The daemon adds to the inbox and takes nothing away.
LEMMA InboxGrows ==
  ASSUME DispatcherTypeOK, PollInv, DispatcherNext
  PROVE  /\ inbox' \in Seq(ReplyIds) /\ Len(inbox') \in Nat /\ Len(inbox) <= Len(inbox')
         /\ \A i \in 1 .. Len(inbox) : inbox'[i] = inbox[i]
<1>. USE DEF files, chatVars, tickVars
<1>1. inbox \in Seq(ReplyIds) /\ fresh \in Seq(ReplyIds)
  BY DEF DispatcherTypeOK
<1>2. CASE inbox' = inbox
  BY <1>1, <1>2
<1>3. CASE inbox' = inbox \o fresh
  BY <1>1, <1>3
<1>4. inbox' = inbox \/ inbox' = inbox \o fresh
  BY DEF DispatcherNext, DaemonStep, Notify, HumanReplies, TickStart, DeliverNext, SaveOutbox,
         SaveThreads, Restat, SkipPoll, StartPoll, PollThread, AppendInbox, SaveSeen, ChatRaises,
         WriteRaises, Crash
<1>. QED  BY <1>2, <1>3, <1>4

MailboxInv == DispatcherInv /\ TypeOK /\ PassedIsApplied

LEMMA ApplyKeeps ==
  ASSUME MailboxInv, ApplyCommands
  PROVE  TypeOK' /\ PassedIsApplied'
<1>. USE DEF MailboxInv
<1>1. DispatcherTypeOK' /\ UNCHANGED <<inbox, savedCursor>> /\ mpc' = "save"
  BY ReaderStep DEF DispatcherInv, ApplyCommands, dispatcherVars, files
<1>2. CASE ReadNew = <<>>
  <2>1. UNCHANGED <<cursor, applied>>
    BY <1>2 DEF ApplyCommands
  <2>2. PassedIsApplied'
    BY <1>1, <2>1, PassedAfter DEF TypeOK, PassedIsApplied
  <2>. QED  BY <1>1, <2>1, <2>2 DEF TypeOK
<1>3. CASE ReadNew # <<>>
  <2>. DEFINE n == Len(ReadNew)
              h == AppliedAfter(n)
  <2>1. applied' = h /\ cursor' = inbox[Len(inbox)]
    BY <1>3 DEF ApplyCommands
  <2>2. /\ Place(cursor) \in 0 .. Len(inbox) /\ Len(inbox) \in Nat
        /\ n = Len(inbox) - Place(cursor) /\ Place(cursor) # Len(inbox)
        /\ \A i \in 1 .. n : ReadNew[i] = inbox[Place(cursor) + i]
    BY <1>3, ReadNewFacts
  <2>3. n \in 0 .. Len(ReadNew) /\ Len(inbox) \in 1 .. Len(inbox)
    BY <2>2
  <2>4. /\ h \in [ReplyIds -> 0 .. 2]
        /\ \A id \in ReplyIds : applied[id] > 0 => h[id] > 0
        /\ \A i \in 1 .. n : h[ReadNew[i]] > 0
    BY <2>3, AppliedGrows
  <2>. HIDE DEF h
  <2>5. \A i \in 1 .. Len(inbox) : inbox[i] \in ReplyIds
    BY DEF TypeOK, DispatcherTypeOK
  <2>6. inbox[Len(inbox)] \in ReplyIds
    BY <2>3, <2>5
  <2>7. TypeOK'
    BY <1>1, <2>1, <2>4, <2>6 DEF TypeOK
  <2>8. \A i \in 1 .. Len(inbox) : h[inbox[i]] > 0
    <3>. SUFFICES ASSUME NEW i \in 1 .. Len(inbox) PROVE h[inbox[i]] > 0
      OBVIOUS
    <3>1. CASE i <= Place(cursor)
      <4>1. cursor # None /\ i \in 1 .. PlaceOf(cursor)
        BY <2>2, <3>1 DEF Place
      <4>2. applied[inbox[i]] > 0
        BY <4>1 DEF PassedIsApplied
      <4>. QED  BY <2>4, <2>5, <4>2
    <3>2. CASE i > Place(cursor)
      <4>1. i - Place(cursor) \in 1 .. n /\ Place(cursor) + (i - Place(cursor)) = i
        BY <2>2, <3>2
      <4>. QED  BY <2>2, <2>4, <4>1
    <3>. QED  BY <2>2, <3>1, <3>2
  <2>9. PassedIsApplied'
    <3>. SUFFICES ASSUME NEW c \in {cursor', savedCursor} \ {None}
         PROVE  Holds(inbox, c) /\ \A i \in 1 .. PlaceOf(c) : h[inbox[i]] > 0
      BY <1>1, <2>1, PassedAfter DEF TypeOK
    <3>1. Holds(inbox, c)
      <4>1. CASE c = inbox[Len(inbox)]
        BY <2>3, <4>1 DEF Holds
      <4>2. CASE c = savedCursor
        BY <4>2 DEF PassedIsApplied
      <4>. QED  BY <2>1, <4>1, <4>2
    <3>2. PlaceOf(c) \in 1 .. Len(inbox)
      BY <3>1, PlaceFacts DEF TypeOK
    <3>. QED  BY <2>2, <2>8, <3>1, <3>2
  <2>. QED  BY <2>7, <2>9
<1>. QED  BY <1>2, <1>3

LEMMA RestartKeeps ==
  ASSUME MailboxInv, SaveCursor \/ MonitorRestart
  PROVE  TypeOK' /\ PassedIsApplied'
<1>. USE DEF MailboxInv
<1>1. /\ DispatcherTypeOK' /\ UNCHANGED inbox /\ mpc' = "read"
      /\ cursor' \in {cursor, savedCursor} /\ savedCursor' \in {cursor, savedCursor}
  BY ReaderStep DEF DispatcherInv, SaveCursor, MonitorRestart, files
<1>2. /\ applied' \in [ReplyIds -> 0 .. 2]
      /\ \A id \in ReplyIds : applied[id] > 0 => applied'[id] > 0
  <2>1. CASE applied' = applied
    BY <2>1 DEF TypeOK
  <2>2. CASE \E n \in 1 .. Len(ReadNew) : applied' = AppliedAfter(n)
    <3>1. PICK n \in 1 .. Len(ReadNew) : applied' = AppliedAfter(n)
      BY <2>2
    <3>2. n \in 0 .. Len(ReadNew)
      BY <3>1
    <3>. QED  BY <3>1, <3>2, AppliedGrows
  <2>. QED  BY <2>1, <2>2 DEF SaveCursor, MonitorRestart
<1>3. TypeOK'
  BY <1>1, <1>2 DEF TypeOK
<1>4. PassedIsApplied'
  <2>. SUFFICES ASSUME NEW c \in {cursor, savedCursor} \ {None}
       PROVE  Holds(inbox, c) /\ \A i \in 1 .. PlaceOf(c) : applied'[inbox[i]] > 0
    BY <1>1, PassedAfter DEF TypeOK
  <2>1. Holds(inbox, c) /\ \A i \in 1 .. PlaceOf(c) : applied[inbox[i]] > 0
    BY DEF PassedIsApplied
  <2>2. PlaceOf(c) \in 1 .. Len(inbox) /\ Len(inbox) \in Nat
    BY <2>1, PlaceFacts DEF TypeOK, DispatcherTypeOK
  <2>3. \A i \in 1 .. Len(inbox) : inbox[i] \in ReplyIds
    BY DEF TypeOK, DispatcherTypeOK
  <2>. QED  BY <1>2, <2>1, <2>2, <2>3
<1>. QED  BY <1>3, <1>4

LEMMA DaemonKeeps ==
  ASSUME MailboxInv, DispatcherNext, UNCHANGED readerVars
  PROVE  TypeOK' /\ PassedIsApplied'
<1>. USE DEF MailboxInv, readerVars
<1>1. DispatcherTypeOK /\ DispatcherTypeOK'
  BY DispatcherTypeStep DEF DispatcherInv
<1>2. TypeOK'
  BY <1>1 DEF TypeOK
<1>3. PassedIsApplied'
  <2>. SUFFICES ASSUME NEW c \in {cursor, savedCursor} \ {None}
       PROVE  Holds(inbox', c) /\ \A i \in 1 .. PlaceOf(c)' : applied[inbox'[i]] > 0
    BY DEF PassedIsApplied, Holds, PlaceOf
  <2>1. Holds(inbox, c) /\ \A i \in 1 .. PlaceOf(c) : applied[inbox[i]] > 0
    BY DEF PassedIsApplied
  <2>2. /\ Len(inbox') \in Nat /\ Len(inbox) <= Len(inbox') /\ Len(inbox) \in Nat
        /\ \A i \in 1 .. Len(inbox) : inbox'[i] = inbox[i]
    BY InboxGrows DEF DispatcherInv, DispatcherTypeOK
  <2>3. Holds(inbox', c) /\ PlaceOf(c)' = PlaceOf(c) /\ PlaceOf(c) \in 1 .. Len(inbox)
    BY <1>1, <2>1, <2>2, PlaceStays, PlaceFacts
  <2>. QED  BY <2>1, <2>2, <2>3
<1>. QED  BY <1>2, <1>3

\* The cursor stands on a line of the inbox, and what is behind it was applied, wherever
\* either process is killed (inbox.py, apply_commands; daemon.py, _poll_inbound).
THEOREM MailboxInvariant == Spec => []MailboxInv
<1>1. Init => TypeOK /\ PassedIsApplied
  <2>. SUFFICES ASSUME Init PROVE TypeOK /\ PassedIsApplied
    OBVIOUS
  <2>1. DispatcherInv
    BY DispatcherStarts
  <2>. QED  BY <2>1 DEF Init, TypeOK, PassedIsApplied, DispatcherInv
<1>2. MailboxInv /\ [Next]_vars => TypeOK' /\ PassedIsApplied'
  <2>. SUFFICES ASSUME MailboxInv, [Next]_vars PROVE TypeOK' /\ PassedIsApplied'
    OBVIOUS
  <2>1. CASE UNCHANGED vars
    <3>. USE <2>1 DEF vars, dispatcherVars, readerVars, files, chatVars, tickVars
    <3>1. DispatcherTypeOK'
      BY DEF MailboxInv, TypeOK, DispatcherTypeOK, DaemonStates
    <3>2. PassedIsApplied'
      BY PassedAfter DEF MailboxInv, TypeOK, PassedIsApplied
    <3>. QED  BY <3>1, <3>2 DEF MailboxInv, TypeOK
  <2>. QED  BY <2>1, ApplyKeeps, RestartKeeps, DaemonKeeps DEF Next
<1>. QED  BY <1>1, <1>2, DispatcherInvariant, PTL DEF Spec, MailboxInv

\* The outbox, the inbox, the chat, the state of the daemon and the cursor of the
\* monitor hold what their files may hold.
THEOREM MailboxTypes == Spec => []TypeOK
<1>1. MailboxInv => TypeOK
  BY DEF MailboxInv
<1>. QED  BY <1>1, MailboxInvariant, PTL

\* A reply the reader has passed, and will not read again, was applied: killed between
\* two commands or before the save, the monitor leaves out none.
THEOREM NoCommandIsLeftOut == Spec => []PassedIsApplied
<1>1. MailboxInv => PassedIsApplied
  BY DEF MailboxInv
<1>. QED  BY <1>1, MailboxInvariant, PTL

-----------------------------------------------------------------------------
(* Exactly once, while nothing fails *)

Distinct(s) == \A i, j \in 1 .. Len(s) : s[i] = s[j] => i = j

CountsSeen(s) == \A i \in 1 .. Len(s) : s[i][2] <= mem.seen[s[i][1]]

\* No more of a thread counts as read than was written in it.
ThreadsRead ==
  \A k \in Keys :
    IF mem.threads[k] = NoThread THEN mem.seen[k] = 0
    ELSE mem.seen[k] <= posts[mem.threads[k]].replies

PostsDistinct ==
  /\ \A i \in 1 .. Len(posts) : posts[i].id <= notices /\ posts[i].thread # NoThread
  /\ \A i, j \in 1 .. Len(posts) : posts[i].id = posts[j].id => i = j

\* A notice that is in the chat shows as sent, in the outbox or in the batch of the
\* tick, and is in the thread of its key.
PostsRecorded ==
  \A i \in 1 .. Len(posts), e \in 1 .. Len(outbox) :
    outbox[e].id = posts[i].id =>
      /\ outbox[e].sent \/ (pc = "deliver" /\ e <= Len(batch) /\ batch[e].sent)
      /\ outbox[e].key \in Keys => posts[i].thread = mem.threads[outbox[e].key]

BatchDelivered ==
  pc = "deliver" =>
    \A e \in 1 .. Len(batch) : batch[e].key = outbox[e].key /\ (e < at => batch[e].sent)

PostsOnce == PostsDistinct /\ PostsRecorded /\ BatchDelivered

\* A reply is read once, and counts as seen from then on.
LinesOnce ==
  /\ CountsSeen(inbox) /\ CountsSeen(fresh)
  /\ Distinct(inbox) /\ Distinct(fresh)
  /\ \A i \in 1 .. Len(fresh) : ~Holds(inbox, fresh[i])

\* What is behind the cursor was applied once, and nothing after it.
AppliedOnceInv ==
  /\ \A id \in ReplyIds : applied[id] < 2 /\ (applied[id] > 0 => Holds(inbox, id))
  /\ \A i \in Place(cursor) + 1 .. Len(inbox) : applied[inbox[i]] = 0

OnceInv == faults = 0 => ThreadsRead /\ PostsOnce /\ LinesOnce /\ AppliedOnceInv

LEMMA NoFault ==
  ASSUME DispatcherTypeOK, faults' = 0
  PROVE  \A kind : ~Fault(kind)
BY DEF Fault, DispatcherTypeOK

\* What a delivery makes of the chat and of the threads.
LEMMA DeliveredFacts ==
  ASSUME DispatcherTypeOK, pc = "deliver", at <= Len(batch), Delivered(batch[at])
  PROVE  /\ Len(posts) \in Nat /\ Len(posts') = Len(posts) + 1
         /\ \A i \in 1 .. Len(posts) : posts'[i] = posts[i]
         /\ posts'[Len(posts) + 1] = Posted(batch[at])
         /\ mem'.seen = mem.seen
         /\ \A k \in Keys :
              mem'.threads[k] = IF k = batch[at].key /\ mem.threads[k] = NoThread
                                THEN Len(posts) + 1 ELSE mem.threads[k]
         /\ Posted(batch[at]).thread # NoThread
         /\ batch[at].key \in Keys => Posted(batch[at]).thread = mem'.threads[batch[at].key]
<1>1. posts \in Seq(Posts) /\ Len(posts) \in Nat /\ Posted(batch[at]) \in Posts
  BY PostsType, PostedType
<1>2. posts' = Append(posts, Posted(batch[at])) /\ mem' = Pinned(batch[at])
  BY DEF Delivered
<1>3. mem \in DaemonStates
  BY DEF DispatcherTypeOK
<1>4. /\ mem'.seen = mem.seen
      /\ \A k \in Keys :
           mem'.threads[k] = IF k = batch[at].key /\ mem.threads[k] = NoThread
                             THEN Len(posts) + 1 ELSE mem.threads[k]
  BY <1>2, <1>3 DEF Pinned, ThreadOf, DaemonStates
<1>5. Posted(batch[at]).thread =
        IF ThreadOf(batch[at].key) = NoThread THEN Len(posts) + 1 ELSE ThreadOf(batch[at].key)
  BY DEF Posted
<1>6. /\ Posted(batch[at]).thread # NoThread
      /\ batch[at].key \in Keys => Posted(batch[at]).thread = mem'.threads[batch[at].key]
  BY <1>1, <1>4, <1>5 DEF ThreadOf
<1>. QED  BY <1>1, <1>2, <1>4, <1>6

\* A poll that gets an answer.
LEMMA PolledFacts ==
  ASSUME DispatcherTypeOK, PollInv, NEW k \in Keys, PollThread(k), faults' = 0
  PROVE  /\ k \in todo
         /\ fresh' = fresh \o NewReplies(k)
         /\ mem'.threads = mem.threads
         /\ mem'.seen[k] = posts[mem.threads[k]].replies
         /\ \A j \in Keys \ {k} : mem'.seen[j] = mem.seen[j]
<1>1. /\ k \in todo /\ fresh' = fresh \o NewReplies(k)
      /\ mem' = [mem EXCEPT !.seen[k] = posts[mem.threads[k]].replies]
  BY NoFault DEF PollThread
<1>. QED  BY <1>1 DEF DispatcherTypeOK, DaemonStates

\* The steps of the dispatcher that leave the chat and the threads alone.
Quiet ==
  TickStart \/ SaveOutbox \/ SaveThreads \/ Restat \/ SkipPoll \/ StartPoll \/ AppendInbox \/ SaveSeen

LEMMA WithoutFaults ==
  ASSUME DispatcherTypeOK, DispatcherNext, faults' = 0
  PROVE  \/ \E key \in Keys \cup {NoKey} : Notify(key)
         \/ \E t \in 1 .. Len(posts) : HumanReplies(t)
         \/ DeliverNext \/ Quiet
         \/ \E k \in Keys : PollThread(k)
BY NoFault DEF DispatcherNext, DaemonStep, ChatRaises, WriteRaises, Crash, Quiet

LEMMA ThreadsStep ==
  ASSUME DispatcherTypeOK, PollInv, ThreadsRead, DispatcherNext, faults' = 0
  PROVE  ThreadsRead'
<1>. USE DEF files, chatVars, tickVars
<1>0. posts \in Seq(Posts) /\ Len(posts) \in Nat
  BY PostsType
<1>1. CASE UNCHANGED <<posts, mem>>
  BY <1>1 DEF ThreadsRead
<1>2. ASSUME NEW k \in Keys
      PROVE  /\ mem.threads[k] \in 0 .. Len(posts) /\ mem.seen[k] \in Nat
             /\ mem.threads[k] # NoThread =>
                  mem.threads[k] \in 1 .. Len(posts) /\ posts[mem.threads[k]] \in Posts
  <2>1. mem.threads[k] \in 0 .. Len(posts) /\ mem.seen[k] \in 0 .. MaxReplies
    BY DEF DispatcherTypeOK, DaemonStates
  <2>. QED  BY <1>0, <2>1
<1>3. ASSUME NEW t \in 1 .. Len(posts), HumanReplies(t) PROVE ThreadsRead'
  <2>1. posts' = [posts EXCEPT ![t].replies = @ + 1] /\ mem' = mem
    BY <1>3 DEF HumanReplies
  <2>2. ASSUME NEW i \in 1 .. Len(posts)
        PROVE  posts[i].replies \in Nat /\ posts'[i].replies \in Nat /\ posts[i].replies <= posts'[i].replies
    <3>1. posts[i] \in Posts
      BY <1>0
    <3>2. posts[i].replies \in Nat
      BY <3>1 DEF Posts
    <3>3. posts'[i].replies = IF i = t THEN posts[i].replies + 1 ELSE posts[i].replies
      <4>1. posts' = [posts EXCEPT ![t] = [posts[t] EXCEPT !.replies = @ + 1]]
        BY <2>1
      <4>2. posts'[i] = IF i = t THEN [posts[t] EXCEPT !.replies = @ + 1] ELSE posts[i]
        BY <1>0, <4>1
      <4>. QED  BY <3>1, <4>2 DEF Posts
    <3>. QED  BY <3>2, <3>3
  <2>. QED  BY <1>2, <2>1, <2>2 DEF ThreadsRead
<1>4. ASSUME DeliverNext, Delivered(batch[at]) PROVE ThreadsRead'
  <2>. SUFFICES ASSUME NEW k \in Keys
       PROVE  IF mem'.threads[k] = NoThread THEN mem'.seen[k] = 0
              ELSE mem'.seen[k] <= posts'[mem'.threads[k]].replies
    BY DEF ThreadsRead
  <2>1. /\ \A i \in 1 .. Len(posts) : posts'[i] = posts[i]
        /\ posts'[Len(posts) + 1] = Posted(batch[at])
        /\ mem'.seen = mem.seen
        /\ mem'.threads[k] = IF k = batch[at].key /\ mem.threads[k] = NoThread
                             THEN Len(posts) + 1 ELSE mem.threads[k]
    BY <1>4, DeliveredFacts DEF DeliverNext
  <2>2. Posted(batch[at]).replies = 0
    BY DEF Posted
  <2>3. CASE k = batch[at].key /\ mem.threads[k] = NoThread
    BY <1>0, <2>1, <2>2, <2>3 DEF ThreadsRead
  <2>4. CASE ~(k = batch[at].key /\ mem.threads[k] = NoThread)
    BY <1>2, <2>1, <2>4 DEF ThreadsRead
  <2>. QED  BY <2>3, <2>4
<1>5. ASSUME NEW k \in Keys, PollThread(k) PROVE ThreadsRead'
  <2>1. /\ k \in todo /\ mem'.threads = mem.threads
        /\ mem'.seen[k] = posts[mem.threads[k]].replies
        /\ \A j \in Keys \ {k} : mem'.seen[j] = mem.seen[j]
        /\ posts' = posts
    BY <1>5, PolledFacts DEF PollThread
  <2>2. mem.threads[k] # NoThread /\ posts[mem.threads[k]].replies \in Nat
    <3>1. posts[mem.threads[k]].replies \in 0 .. MaxReplies
      BY <2>1, NewRepliesType
    <3>. QED  BY <2>1, <3>1 DEF PollInv
  <2>. QED  BY <2>1, <2>2 DEF ThreadsRead
<1>6. Quiet \/ (\E key \in Keys \cup {NoKey} : Notify(key)) => UNCHANGED <<posts, mem>>
  BY DEF Quiet, Notify, TickStart, SaveOutbox, SaveThreads, Restat, SkipPoll, StartPoll, AppendInbox,
         SaveSeen
<1>7. DeliverNext => UNCHANGED <<posts, mem>> \/ Delivered(batch[at])
  BY NoFault DEF DeliverNext, Refused
<1>. QED  BY <1>1, <1>3, <1>4, <1>5, <1>6, <1>7, WithoutFaults

\* The parts that speak of the posts, when the tick is not among its deliveries.
LEMMA PostsSame ==
  ASSUME PostsOnce, UNCHANGED <<posts, outbox, notices>>, mem'.threads = mem.threads,
         pc # "deliver", pc' # "deliver"
  PROVE  PostsOnce'
BY DEF PostsOnce, PostsDistinct, PostsRecorded, BatchDelivered

LEMMA PostsStep ==
  ASSUME DispatcherTypeOK, PollInv, OutboxInv, PostsOnce, DispatcherNext, faults' = 0
  PROVE  PostsOnce'
<1>. USE DEF files, chatVars, tickVars
<1>0. /\ posts \in Seq(Posts) /\ Len(posts) \in Nat /\ Len(outbox) \in Nat /\ Len(batch) \in Nat
      /\ batch \in Seq(Entries) /\ outbox \in Seq(Entries) /\ notices \in Nat
      /\ pc = "deliver" => Len(batch) <= Len(outbox)
  BY PostsType DEF DispatcherTypeOK, OutboxInv
<1>1. \A i \in 1 .. Len(posts) : posts[i].id \in Nat
  <2>1. \A i \in 1 .. Len(posts) : posts[i] \in Posts
    BY <1>0
  <2>. QED  BY <2>1 DEF Posts
<1>2. ASSUME NEW key \in Keys \cup {NoKey}, Notify(key) PROVE PostsOnce'
  <2>1. /\ outbox' = Append(outbox, [id |-> notices + 1, key |-> key, sent |-> FALSE])
        /\ UNCHANGED <<posts, mem, pc, batch, at>> /\ notices' = notices + 1
    BY <1>2 DEF Notify
  <2>2. /\ Len(outbox') = Len(outbox) + 1
        /\ \A e \in 1 .. Len(outbox) : outbox'[e] = outbox[e]
        /\ outbox'[Len(outbox) + 1].id = notices + 1
    BY <1>0, <2>1
  <2>3. PostsDistinct'
    BY <1>0, <1>1, <2>1 DEF PostsOnce, PostsDistinct
  <2>4. PostsRecorded'
    <3>. SUFFICES ASSUME NEW i \in 1 .. Len(posts), NEW e \in 1 .. Len(outbox'),
                         outbox'[e].id = posts[i].id
         PROVE  /\ outbox'[e].sent \/ (pc = "deliver" /\ e <= Len(batch) /\ batch[e].sent)
                /\ outbox'[e].key \in Keys => posts[i].thread = mem.threads[outbox'[e].key]
      BY <2>1 DEF PostsRecorded
    <3>1. posts[i].id <= notices /\ posts[i].id \in Nat
      BY <1>1 DEF PostsOnce, PostsDistinct
    <3>2. e \in 1 .. Len(outbox)
      BY <1>0, <2>2, <3>1
    <3>. QED  BY <2>2, <3>2 DEF PostsOnce, PostsRecorded
  <2>5. BatchDelivered'
    BY <1>0, <2>1, <2>2 DEF PostsOnce, BatchDelivered
  <2>. QED  BY <2>3, <2>4, <2>5 DEF PostsOnce
<1>3. ASSUME NEW t \in 1 .. Len(posts), HumanReplies(t) PROVE PostsOnce'
  <2>1. posts' = [posts EXCEPT ![t] = [posts[t] EXCEPT !.replies = @ + 1]]
    BY <1>3 DEF HumanReplies
  <2>2. Len(posts') = Len(posts)
    BY <1>0, <2>1
  <2>3. ASSUME NEW i \in 1 .. Len(posts)
        PROVE  posts'[i].id = posts[i].id /\ posts'[i].thread = posts[i].thread
    <3>1. posts'[i] = IF i = t THEN [posts[t] EXCEPT !.replies = @ + 1] ELSE posts[i]
      BY <1>0, <2>1
    <3>2. posts[i] \in Posts
      BY <1>0
    <3>. QED  BY <3>1, <3>2 DEF Posts
  <2>4. UNCHANGED <<outbox, notices, pc, batch, at, mem>>
    BY <1>3 DEF HumanReplies
  <2>. QED  BY <2>2, <2>3, <2>4 DEF PostsOnce, PostsDistinct, PostsRecorded, BatchDelivered
<1>4. ASSUME TickStart PROVE PostsOnce'
  <2>1. pc = "idle" /\ UNCHANGED <<posts, outbox, notices, mem>>
    BY <1>4 DEF TickStart
  <2>2. pc' = "deliver" => batch' = outbox /\ at' = 1
    BY <1>4 DEF TickStart
  <2>. QED  BY <1>0, <2>1, <2>2 DEF PostsOnce, PostsDistinct, PostsRecorded, BatchDelivered
<1>5. ASSUME DeliverNext, UNCHANGED <<posts, mem, batch>>, batch[at].sent PROVE PostsOnce'
  <2>1. UNCHANGED <<posts, outbox, notices, mem, batch, pc>> /\ at' = at + 1 /\ at \in Nat
    BY <1>5 DEF DeliverNext, DispatcherTypeOK
  <2>2. BatchDelivered'
    BY <1>0, <1>5, <2>1 DEF PostsOnce, BatchDelivered
  <2>. QED  BY <2>1, <2>2 DEF PostsOnce, PostsDistinct, PostsRecorded
<1>6. ASSUME DeliverNext, Delivered(batch[at]), ~batch[at].sent PROVE PostsOnce'
  <2>. DEFINE new == Len(posts) + 1
              post == Posted(batch[at])
  <2>1. /\ pc = "deliver" /\ at \in 1 .. Len(batch) /\ at' = at + 1
        /\ UNCHANGED <<outbox, notices, pc>>
        /\ batch' = [batch EXCEPT ![at] = [batch[at] EXCEPT !.sent = TRUE]]
    BY <1>6 DEF DeliverNext, Delivered, DispatcherTypeOK
  <2>2. /\ Len(posts') = new
        /\ \A i \in 1 .. Len(posts) : posts'[i] = posts[i]
        /\ posts'[new] = post
        /\ \A k \in Keys :
             mem'.threads[k] = IF k = batch[at].key /\ mem.threads[k] = NoThread
                               THEN new ELSE mem.threads[k]
        /\ post.thread # NoThread
        /\ batch[at].key \in Keys => post.thread = mem'.threads[batch[at].key]
    BY <1>6, <2>1, DeliveredFacts
  <2>3. post.id = outbox[at].id /\ at \in 1 .. Len(outbox) /\ ~outbox[at].sent
        /\ batch[at].key = outbox[at].key
    BY <1>0, <1>6, <2>1 DEF OutboxInv, Posted, PostsOnce, BatchDelivered
  <2>. HIDE DEF post
  <2>4. \A i \in 1 .. Len(posts) : posts[i].id # post.id
    BY <1>6, <2>3 DEF PostsOnce, PostsRecorded
  <2>5. \A i \in 1 .. Len(posts') : i \in 1 .. Len(posts) \/ i = new
    BY <1>0, <2>2
  <2>6. PostsDistinct'
    <3>1. \A i \in 1 .. Len(posts') : posts'[i].id <= notices /\ posts'[i].thread # NoThread
      BY <2>2, <2>3, <2>5 DEF PostsOnce, PostsDistinct, OutboxInv
    <3>2. \A i, j \in 1 .. Len(posts') : posts'[i].id = posts'[j].id => i = j
      BY <2>2, <2>4, <2>5 DEF PostsOnce, PostsDistinct
    <3>. QED  BY <2>1, <3>1, <3>2 DEF PostsDistinct
  <2>7. /\ Len(batch') = Len(batch) /\ batch'[at].sent
        /\ \A e \in 1 .. Len(batch) :
             batch'[e].key = batch[e].key /\ (batch[e].sent => batch'[e].sent)
    BY <1>0, <2>1 DEF Entries
  <2>8. PostsRecorded'
    <3>. SUFFICES ASSUME NEW i \in 1 .. Len(posts'), NEW e \in 1 .. Len(outbox),
                         outbox[e].id = posts'[i].id
         PROVE  /\ outbox[e].sent \/ (e <= Len(batch') /\ batch'[e].sent)
                /\ outbox[e].key \in Keys => posts'[i].thread = mem'.threads[outbox[e].key]
      BY <2>1 DEF PostsRecorded
    <3>1. CASE i \in 1 .. Len(posts)
      <4>1. /\ outbox[e].sent \/ (e <= Len(batch) /\ batch[e].sent)
            /\ outbox[e].key \in Keys => posts[i].thread = mem.threads[outbox[e].key]
            /\ posts[i].thread # NoThread
        BY <2>2, <3>1 DEF PostsOnce, PostsRecorded, PostsDistinct
      <4>2. outbox[e].sent \/ (e <= Len(batch') /\ batch'[e].sent)
        BY <1>0, <2>7, <4>1
      <4>. QED  BY <2>2, <3>1, <4>1, <4>2
    <3>2. CASE i = new
      <4>1. e = at
        <5>1. \A d \in 1 .. Len(outbox) : outbox[d].id \in Nat
          <6>1. \A d \in 1 .. Len(outbox) : outbox[d] \in Entries
            BY <1>0
          <6>. QED  BY <6>1 DEF Entries
        <5>. QED  BY <1>0, <2>2, <2>3, <3>2, <5>1 DEF OutboxInv
      <4>. QED  BY <1>0, <2>1, <2>2, <2>3, <2>7, <3>2, <4>1
    <3>. QED  BY <2>5, <3>1, <3>2
  <2>9. BatchDelivered'
    BY <1>0, <2>1, <2>7 DEF PostsOnce, BatchDelivered
  <2>. QED  BY <2>6, <2>8, <2>9 DEF PostsOnce
<1>7. ASSUME SaveOutbox PROVE PostsOnce'
  <2>1. /\ pc = "deliver" /\ pc' # "deliver" /\ UNCHANGED <<posts, notices, mem, batch>>
        /\ at = Len(batch) + 1
    <3>1. at \in 1 .. Len(batch) + 1 /\ at > Len(batch)
      BY <1>7 DEF SaveOutbox, DispatcherTypeOK
    <3>. QED  BY <1>0, <1>7, <3>1 DEF SaveOutbox
  <2>2. \A e \in 1 .. Len(batch) :
          /\ batch[e].sent /\ batch[e].key = outbox[e].key /\ batch[e].id = outbox[e].id
          /\ e \in 1 .. Len(outbox)
    BY <1>0, <2>1 DEF PostsOnce, BatchDelivered, OutboxInv
  <2>3. BatchDelivered' /\ PostsDistinct'
    BY <2>1 DEF PostsOnce, PostsDistinct, BatchDelivered
  <2>4. CASE outbox' = batch
    <3>1. PostsRecorded'
      <4>. SUFFICES ASSUME NEW i \in 1 .. Len(posts), NEW e \in 1 .. Len(batch),
                           batch[e].id = posts[i].id
           PROVE  batch[e].sent /\ (batch[e].key \in Keys => posts[i].thread = mem.threads[batch[e].key])
        BY <2>1, <2>4 DEF PostsRecorded
      <4>. QED  BY <2>2 DEF PostsOnce, PostsRecorded
    <3>. QED  BY <2>3, <3>1 DEF PostsOnce
  <2>5. CASE UNCHANGED outbox /\ ~Changed
    <3>1. \A e \in 1 .. Len(batch) : outbox[e].sent
      BY <2>5 DEF Changed
    <3>2. PostsRecorded'
      <4>. SUFFICES ASSUME NEW i \in 1 .. Len(posts), NEW e \in 1 .. Len(outbox),
                           outbox[e].id = posts[i].id
           PROVE  outbox[e].sent /\ (outbox[e].key \in Keys => posts[i].thread = mem.threads[outbox[e].key])
        BY <2>1, <2>5 DEF PostsRecorded
      <4>. QED  BY <1>0, <3>1 DEF PostsOnce, PostsRecorded
    <3>. QED  BY <2>3, <3>2 DEF PostsOnce
  <2>. QED  BY <1>7, <2>4, <2>5 DEF SaveOutbox
<1>8. ASSUME NEW k \in Keys, PollThread(k) PROVE PostsOnce'
  <2>1. pc = "poll" /\ UNCHANGED <<posts, outbox, notices, pc>> /\ mem'.threads = mem.threads
    BY <1>8, PolledFacts DEF PollThread
  <2>. QED  BY <2>1, PostsSame
<1>9. ASSUME SaveThreads \/ Restat \/ SkipPoll \/ StartPoll \/ AppendInbox \/ SaveSeen
      PROVE  PostsOnce'
  <2>1. pc # "deliver" /\ pc' # "deliver" /\ UNCHANGED <<posts, outbox, notices, mem>>
    BY <1>9 DEF SaveThreads, Restat, SkipPoll, StartPoll, AppendInbox, SaveSeen
  <2>. QED  BY <2>1, PostsSame
<1>10. DeliverNext => \/ UNCHANGED <<posts, mem, batch>> /\ batch[at].sent
                      \/ Delivered(batch[at]) /\ ~batch[at].sent
  BY NoFault DEF DeliverNext, Refused
<1>. QED  BY <1>2, <1>3, <1>4, <1>5, <1>6, <1>7, <1>8, <1>9, <1>10, WithoutFaults DEF Quiet

\* Two files without a line twice, and none in both, have none twice when joined.
LEMMA DistinctAppended ==
  ASSUME NEW s \in Seq(ReplyIds), NEW t \in Seq(ReplyIds), Distinct(s), Distinct(t),
         \A i \in 1 .. Len(t) : ~Holds(s, t[i])
  PROVE  Distinct(s \o t)
<1>1. /\ Len(s) \in Nat /\ Len(t) \in Nat /\ Len(s \o t) = Len(s) + Len(t)
      /\ \A i \in 1 .. Len(s \o t) :
           \/ i \in 1 .. Len(s) /\ (s \o t)[i] = s[i]
           \/ i - Len(s) \in 1 .. Len(t) /\ (s \o t)[i] = t[i - Len(s)]
  OBVIOUS
<1>. SUFFICES ASSUME NEW i \in 1 .. Len(s \o t), NEW j \in 1 .. Len(s \o t),
                     (s \o t)[i] = (s \o t)[j]
     PROVE  i = j
  BY DEF Distinct
<1>2. CASE i \in 1 .. Len(s) /\ (s \o t)[i] = s[i]
  <2>1. CASE j \in 1 .. Len(s) /\ (s \o t)[j] = s[j]
    BY <1>2, <2>1 DEF Distinct
  <2>2. CASE j - Len(s) \in 1 .. Len(t) /\ (s \o t)[j] = t[j - Len(s)]
    BY <1>2, <2>2 DEF Holds
  <2>. QED  BY <1>1, <2>1, <2>2
<1>3. CASE i - Len(s) \in 1 .. Len(t) /\ (s \o t)[i] = t[i - Len(s)]
  <2>1. CASE j \in 1 .. Len(s) /\ (s \o t)[j] = s[j]
    BY <1>3, <2>1 DEF Holds
  <2>2. CASE j - Len(s) \in 1 .. Len(t) /\ (s \o t)[j] = t[j - Len(s)]
    <3>1. i - Len(s) = j - Len(s)
      BY <1>3, <2>2 DEF Distinct
    <3>. QED  BY <1>1, <3>1
  <2>. QED  BY <1>1, <2>1, <2>2
<1>. QED  BY <1>1, <1>2, <1>3

\* What a poll reads of a thread lies after what it had seen of it.
LEMMA NewRepliesFacts ==
  ASSUME DispatcherTypeOK, PollInv, NEW k \in todo
  PROVE  \A i \in 1 .. Len(NewReplies(k)) :
           /\ NewReplies(k)[i] = <<k, mem.seen[k] + i>> /\ i \in Nat
           /\ mem.seen[k] + i <= posts[mem.threads[k]].replies
<1>. DEFINE last == posts[mem.threads[k]].replies
            old == mem.seen[k]
<1>1. last \in Nat /\ old \in Nat
  <2>1. last \in 0 .. MaxReplies /\ old \in Nat
    BY NewRepliesType
  <2>. QED  BY <2>1
<1>2. NewReplies(k) = [i \in 1 .. last - old |-> <<k, old + i>>]
  BY DEF NewReplies
<1>. HIDE DEF last, old
<1>3. CASE last - old \in Nat
  <2>1. Len(NewReplies(k)) = last - old
    BY <1>2, <1>3
  <2>2. \A i \in 1 .. last - old : NewReplies(k)[i] = <<k, old + i>> /\ i \in Nat /\ old + i <= last
    BY <1>1, <1>2
  <2>. QED  BY <2>1, <2>2 DEF last, old
<1>4. CASE last - old \notin Nat
  <2>1. 1 .. last - old = {} /\ 1 .. 0 = {}
    BY <1>1, <1>4
  <2>2. NewReplies(k) = [i \in 1 .. 0 |-> <<k, old + i>>]
    BY <1>2, <2>1
  <2>3. Len(NewReplies(k)) = 0
    BY <2>2
  <2>. QED  BY <2>1, <2>3
<1>. QED  BY <1>3, <1>4

LEMMA LinesStep ==
  ASSUME DispatcherTypeOK, PollInv, ThreadsRead, LinesOnce, DispatcherNext, faults' = 0
  PROVE  LinesOnce'
<1>. USE DEF files, chatVars, tickVars
<1>0. inbox \in Seq(ReplyIds) /\ fresh \in Seq(ReplyIds)
  BY DEF DispatcherTypeOK
<1>1. CASE UNCHANGED <<inbox, fresh>> /\ mem'.seen = mem.seen
  BY <1>1 DEF LinesOnce, CountsSeen, Distinct, Holds
<1>2. ASSUME NEW k \in Keys, PollThread(k) PROVE LinesOnce'
  <2>. DEFINE new == NewReplies(k)
              last == posts[mem.threads[k]].replies
  <2>1. /\ k \in todo /\ fresh' = fresh \o new /\ mem'.seen[k] = last
        /\ \A j \in Keys \ {k} : mem'.seen[j] = mem.seen[j]
        /\ inbox' = inbox
    BY <1>2, PolledFacts DEF PollThread
  <2>2. new \in Seq(ReplyIds) /\ last \in Nat
    <3>1. new \in Seq(ReplyIds) /\ last \in 0 .. MaxReplies
      BY <2>1, NewRepliesType
    <3>. QED  BY <3>1
  <2>3. \A i \in 1 .. Len(new) :
          new[i] = <<k, mem.seen[k] + i>> /\ i \in Nat /\ mem.seen[k] + i <= last
    BY <2>1, NewRepliesFacts
  <2>. HIDE DEF new, last
  <2>4. \A j \in Keys : mem.seen[j] \in Nat /\ mem'.seen[j] \in Nat /\ mem.seen[j] <= mem'.seen[j]
    <3>1. \A j \in Keys : mem.seen[j] \in Nat
      BY DEF DispatcherTypeOK, DaemonStates
    <3>2. mem.seen[k] <= last
      BY <2>1 DEF ThreadsRead, PollInv, last
    <3>. QED  BY <2>1, <2>2, <3>1, <3>2
  <2>5. ASSUME NEW s \in Seq(ReplyIds), CountsSeen(s)
        PROVE  CountsSeen(s)' /\ \A i \in 1 .. Len(new) : ~Holds(s, new[i])
    <3>1. ASSUME NEW i \in 1 .. Len(s)
          PROVE  s[i][1] \in Keys /\ s[i][2] \in Nat /\ s[i][2] <= mem.seen[s[i][1]]
      <4>1. s[i] \in ReplyIds
        OBVIOUS
      <4>. QED  BY <2>5, <4>1 DEF ReplyIds, CountsSeen
    <3>2. \A i \in 1 .. Len(s) : s[i][2] <= mem'.seen[s[i][1]]
      BY <2>4, <3>1
    <3>3. ASSUME NEW i \in 1 .. Len(new), Holds(s, new[i]) PROVE FALSE
      <4>1. PICK j \in 1 .. Len(s) : s[j] = new[i]
        BY <3>3 DEF Holds
      <4>2. s[j][1] = k /\ s[j][2] = mem.seen[k] + i /\ i \in 1 .. Len(new)
        BY <2>3, <4>1
      <4>3. mem.seen[k] + i <= mem.seen[k]
        BY <3>1, <4>2
      <4>. QED  BY <2>4, <4>3
    <3>. QED  BY <3>2, <3>3 DEF CountsSeen
  <2>6. Distinct(new)
    <3>. SUFFICES ASSUME NEW i \in 1 .. Len(new), NEW j \in 1 .. Len(new), new[i] = new[j]
         PROVE  i = j
      BY DEF Distinct
    <3>1. mem.seen[k] + i = mem.seen[k] + j
      BY <2>3
    <3>. QED  BY <2>4, <3>1
  <2>7. CountsSeen(inbox)' /\ \A i \in 1 .. Len(new) : ~Holds(inbox, new[i])
    <3>1. CountsSeen(inbox) /\ inbox' = inbox
      BY <2>1 DEF LinesOnce
    <3>. QED  BY <1>0, <2>5, <3>1 DEF CountsSeen
  <2>8. Distinct(fresh')
    <3>1. CountsSeen(fresh) /\ Distinct(fresh)
      BY DEF LinesOnce
    <3>2. \A i \in 1 .. Len(new) : ~Holds(fresh, new[i])
      BY <1>0, <2>5, <3>1
    <3>. QED  BY <1>0, <2>1, <2>2, <2>6, <3>1, <3>2, DistinctAppended
  <2>9. \A i \in 1 .. Len(fresh') :
          \/ i \in 1 .. Len(fresh) /\ fresh'[i] = fresh[i]
          \/ i - Len(fresh) \in 1 .. Len(new) /\ fresh'[i] = new[i - Len(fresh)]
    BY <1>0, <2>1, <2>2
  <2>10. \A i \in 1 .. Len(fresh') : ~Holds(inbox, fresh'[i])
    BY <2>7, <2>9 DEF LinesOnce
  <2>11. CountsSeen(fresh)'
    <3>. SUFFICES ASSUME NEW i \in 1 .. Len(fresh')
         PROVE  fresh'[i][2] <= mem'.seen[fresh'[i][1]]
      BY DEF CountsSeen
    <3>1. CASE i \in 1 .. Len(fresh) /\ fresh'[i] = fresh[i]
      <4>1. fresh[i] \in ReplyIds
        BY <1>0, <3>1
      <4>2. fresh[i][1] \in Keys /\ fresh[i][2] \in Nat /\ fresh[i][2] <= mem.seen[fresh[i][1]]
        BY <3>1, <4>1 DEF ReplyIds, LinesOnce, CountsSeen
      <4>. QED  BY <2>4, <3>1, <4>2
    <3>2. CASE i - Len(fresh) \in 1 .. Len(new) /\ fresh'[i] = new[i - Len(fresh)]
      <4>1. fresh'[i][1] = k /\ fresh'[i][2] <= last
        BY <2>3, <3>2
      <4>. QED  BY <2>1, <4>1
    <3>. QED  BY <2>9, <3>1, <3>2
  <2>. QED  BY <2>1, <2>7, <2>8, <2>10, <2>11 DEF LinesOnce, Distinct, Holds
<1>3. ASSUME AppendInbox PROVE LinesOnce'
  <2>1. mem' = mem /\ fresh' = <<>>
    BY <1>3 DEF AppendInbox
  <2>2. CASE inbox' = inbox
    BY <2>1, <2>2 DEF LinesOnce, CountsSeen, Distinct, Holds
  <2>3. CASE inbox' = inbox \o fresh
    <3>1. Distinct(inbox')
      BY <1>0, <2>3, DistinctAppended DEF LinesOnce
    <3>2. \A i \in 1 .. Len(inbox') :
            \/ i \in 1 .. Len(inbox) /\ inbox'[i] = inbox[i]
            \/ i - Len(inbox) \in 1 .. Len(fresh) /\ inbox'[i] = fresh[i - Len(inbox)]
      BY <1>0, <2>3
    <3>3. CountsSeen(inbox)'
      BY <2>1, <3>2 DEF LinesOnce, CountsSeen
    <3>. QED  BY <2>1, <3>1, <3>3 DEF LinesOnce, CountsSeen, Distinct, Holds
  <2>. QED  BY <1>3, <2>2, <2>3 DEF AppendInbox
<1>4. ASSUME DeliverNext PROVE UNCHANGED <<inbox, fresh>> /\ mem'.seen = mem.seen
  <2>1. CASE Delivered(batch[at])
    BY <1>4, <2>1, DeliveredFacts DEF DeliverNext
  <2>2. CASE UNCHANGED mem
    BY <1>4, <2>2 DEF DeliverNext
  <2>. QED  BY <1>4, <2>1, <2>2, NoFault DEF DeliverNext, Refused
<1>5. ASSUME \/ \E key \in Keys \cup {NoKey} : Notify(key)
             \/ \E t \in 1 .. Len(posts) : HumanReplies(t)
             \/ Quiet /\ ~AppendInbox
      PROVE  UNCHANGED <<inbox, fresh, mem>>
  BY <1>5 DEF Quiet, Notify, HumanReplies, TickStart, SaveOutbox, SaveThreads, Restat, SkipPoll,
              StartPoll, SaveSeen
<1>. QED  BY <1>1, <1>2, <1>3, <1>4, <1>5, WithoutFaults DEF Quiet

\* The place of the cursor does not move with the daemon.
LEMMA CursorStays ==
  ASSUME MailboxInv, cursor' = cursor, Len(inbox') \in Nat, Len(inbox) <= Len(inbox'),
         \A i \in 1 .. Len(inbox) : inbox'[i] = inbox[i]
  PROVE  Place(cursor)' = Place(cursor) /\ Place(cursor) \in 0 .. Len(inbox)
<1>1. DispatcherTypeOK /\ TypeOK /\ PassedIsApplied
  BY DEF MailboxInv, TypeOK
<1>2. Place(cursor) \in 0 .. Len(inbox)
  BY <1>1, ReadNewFacts
<1>3. CASE cursor = None
  BY <1>2, <1>3 DEF Place
<1>4. CASE cursor # None
  <2>1. Holds(inbox, cursor)
    BY <1>1, <1>4 DEF PassedIsApplied
  <2>2. \A c : Holds(inbox, c) => PlaceOf(c)' = PlaceOf(c)
    BY <1>1, PlaceStays
  <2>3. PlaceOf(cursor)' = PlaceOf(cursor)
    <3>. DEFINE c == cursor
    <3>1. cursor' = c /\ Holds(inbox, c)
      BY <2>1
    <3>2. PlaceOf(cursor)' = CHOOSE i \in 1 .. Len(inbox') :
                               inbox'[i] = cursor /\ \A j \in 1 .. i - 1 : inbox'[j] # cursor
      BY DEF PlaceOf
    <3>. QED  BY <3>1, <3>2, <2>2 DEF PlaceOf
  <2>. QED  BY <1>2, <1>4, <2>3 DEF Place
<1>. QED  BY <1>3, <1>4

LEMMA AppliedDaemon ==
  ASSUME MailboxInv, LinesOnce, AppliedOnceInv, DispatcherNext, UNCHANGED readerVars
  PROVE  AppliedOnceInv'
<1>. USE DEF readerVars
<1>0. /\ inbox \in Seq(ReplyIds) /\ fresh \in Seq(ReplyIds) /\ Len(inbox) \in Nat
      /\ applied \in [ReplyIds -> 0 .. 2]
  BY DEF MailboxInv, TypeOK, DispatcherTypeOK
<1>1. /\ Len(inbox') \in Nat /\ Len(inbox) <= Len(inbox')
      /\ \A i \in 1 .. Len(inbox) : inbox'[i] = inbox[i]
  BY InboxGrows DEF MailboxInv, DispatcherInv
<1>2. Place(cursor)' = Place(cursor) /\ Place(cursor) \in 0 .. Len(inbox)
  BY <1>1, CursorStays
<1>3. inbox' = inbox \/ inbox' = inbox \o fresh
  BY DEF files, chatVars, tickVars, DispatcherNext, DaemonStep, Notify, HumanReplies, TickStart,
         DeliverNext, SaveOutbox, SaveThreads, Restat, SkipPoll, StartPoll, PollThread, AppendInbox,
         SaveSeen, ChatRaises, WriteRaises, Crash
<1>4. ASSUME NEW i \in Place(cursor) + 1 .. Len(inbox') PROVE applied[inbox'[i]] = 0
  <2>1. CASE i <= Len(inbox)
    BY <1>0, <1>1, <1>2, <2>1 DEF AppliedOnceInv
  <2>2. CASE i > Len(inbox)
    <3>1. i - Len(inbox) \in 1 .. Len(fresh) /\ inbox'[i] = fresh[i - Len(inbox)]
      BY <1>0, <1>1, <1>2, <1>3, <2>2
    <3>2. inbox'[i] \in ReplyIds /\ ~Holds(inbox, inbox'[i])
      BY <1>0, <3>1 DEF LinesOnce
    <3>. QED  BY <1>0, <3>2 DEF AppliedOnceInv
  <2>. QED  BY <1>0, <1>1, <1>2, <2>1, <2>2
<1>5. \A id : Holds(inbox, id) => Holds(inbox', id)
  BY <1>0, <1>1 DEF Holds
<1>6. \A id \in ReplyIds : applied[id] < 2 /\ (applied[id] > 0 => Holds(inbox', id))
  BY <1>5 DEF AppliedOnceInv
<1>. QED  BY <1>2, <1>4, <1>6 DEF AppliedOnceInv, Holds

LEMMA AppliedApply ==
  ASSUME MailboxInv, LinesOnce, AppliedOnceInv, ApplyCommands
  PROVE  AppliedOnceInv'
<1>0. /\ inbox \in Seq(ReplyIds) /\ Len(inbox) \in Nat /\ applied \in [ReplyIds -> 0 .. 2]
      /\ DispatcherTypeOK /\ TypeOK /\ PassedIsApplied
  BY DEF MailboxInv, TypeOK, DispatcherTypeOK
<1>1. inbox' = inbox
  BY DEF ApplyCommands, dispatcherVars, files
<1>2. CASE ReadNew = <<>>
  <2>1. cursor' = cursor /\ applied' = applied
    BY <1>2 DEF ApplyCommands
  <2>2. Place(cursor)' = Place(cursor)
    BY <1>0, <1>1, <2>1, CursorStays
  <2>. QED  BY <1>1, <2>1, <2>2 DEF AppliedOnceInv, Holds
<1>3. CASE ReadNew # <<>>
  <2>. DEFINE n == Len(ReadNew)
              p == Place(cursor)
              last == inbox[Len(inbox)]
              times(id) == {i \in 1 .. n : ReadNew[i] = id}
  <2>1. applied' = AppliedAfter(n) /\ cursor' = last
    BY <1>3 DEF ApplyCommands
  <2>2. /\ p \in 0 .. Len(inbox) /\ n = Len(inbox) - p /\ p # Len(inbox)
        /\ \A i \in 1 .. n : ReadNew[i] = inbox[p + i]
    BY <1>0, <1>3, ReadNewFacts
  <2>3. \A i \in 1 .. n : p + i \in p + 1 .. Len(inbox) /\ p + i \in 1 .. Len(inbox)
    BY <1>0, <2>2
  <2>. HIDE DEF n, p
  <2>4. ASSUME NEW id \in ReplyIds PROVE applied'[id] < 2 /\ (applied'[id] > 0 => Holds(inbox, id))
    <3>1. applied'[id] = IF times(id) = {} THEN applied[id]
                         ELSE IF applied[id] = 0 /\ \A i, j \in times(id) : i = j THEN 1 ELSE 2
      BY <2>1 DEF AppliedAfter
    <3>2. CASE times(id) = {}
      BY <3>1, <3>2 DEF AppliedOnceInv
    <3>3. CASE times(id) # {}
      <4>1. PICK i \in 1 .. n : inbox[p + i] = id
        BY <2>2, <3>3
      <4>2. applied[id] = 0 /\ Holds(inbox, id)
        BY <2>3, <4>1 DEF AppliedOnceInv, Holds, p
      <4>3. ASSUME NEW a \in times(id), NEW b \in times(id) PROVE a = b
        <5>1. a \in 1 .. n /\ b \in 1 .. n /\ inbox[p + a] = id /\ inbox[p + b] = id
          BY <2>2
        <5>2. p + a = p + b
          BY <2>3, <5>1 DEF LinesOnce, Distinct
        <5>. QED  BY <2>2, <5>1, <5>2
      <4>4. applied'[id] = 1
        BY <3>1, <3>3, <4>2, <4>3
      <4>. QED  BY <4>2, <4>4
    <3>. QED  BY <3>2, <3>3
  <2>5. Place(cursor)' = Len(inbox)
    <3>1. Len(inbox) \in 1 .. Len(inbox) /\ last \in ReplyIds /\ last # None
      BY <1>0, <2>2, MailboxAssumption
    <3>2. Holds(inbox, last)
      BY <3>1 DEF Holds
    <3>3. PlaceOf(last) \in 1 .. Len(inbox) /\ inbox[PlaceOf(last)] = last
      BY <1>0, <3>2, PlaceFacts
    <3>4. PlaceOf(last) = Len(inbox)
      BY <3>1, <3>3 DEF LinesOnce, Distinct
    <3>5. PlaceOf(cursor)' = PlaceOf(last)
      BY <1>1, <2>1 DEF PlaceOf
    <3>. QED  BY <2>1, <3>1, <3>4, <3>5 DEF Place
  <2>. QED  BY <1>0, <1>1, <2>4, <2>5 DEF AppliedOnceInv, Holds
<1>. QED  BY <1>2, <1>3

\* While nothing has failed, the invariant of exactly once is kept.
LEMMA OnceStep ==
  ASSUME MailboxInv, MailboxInv', OnceInv, [Next]_vars
  PROVE  OnceInv'
<1>. SUFFICES ASSUME faults' = 0 PROVE (ThreadsRead /\ PostsOnce /\ LinesOnce /\ AppliedOnceInv)'
  BY DEF OnceInv
<1>0. DispatcherTypeOK /\ PollInv /\ OutboxInv
  BY DEF MailboxInv, DispatcherInv
<1>1. faults = 0
  <2>1. faults' = faults \/ faults' = faults + 1
    BY NoFault DEF Next, DispatcherNext, DaemonStep, ApplyCommands, SaveCursor, MonitorRestart, vars,
         dispatcherVars, files, chatVars, tickVars, Notify, HumanReplies, TickStart, DeliverNext,
         Delivered, Refused, SaveOutbox, SaveThreads, Restat, SkipPoll, StartPoll, PollThread,
         AppendInbox, SaveSeen, ChatRaises, WriteRaises, Crash, Fault
  <2>2. faults \in Nat
    BY <1>0 DEF DispatcherTypeOK
  <2>. QED  BY <2>1, <2>2
<1>2. ThreadsRead /\ PostsOnce /\ LinesOnce /\ AppliedOnceInv
  BY <1>1 DEF OnceInv
<1>3. CASE DispatcherNext /\ UNCHANGED readerVars
  BY <1>0, <1>2, <1>3, ThreadsStep, PostsStep, LinesStep, AppliedDaemon
<1>4. CASE UNCHANGED dispatcherVars
  <2>1. ThreadsRead' /\ PostsOnce' /\ LinesOnce'
    BY <1>2, <1>4 DEF dispatcherVars, files, chatVars, tickVars, ThreadsRead, PostsOnce,
       PostsDistinct, PostsRecorded, BatchDelivered, LinesOnce, CountsSeen, Distinct, Holds
  <2>2. CASE ApplyCommands
    BY <1>2, <2>1, <2>2, AppliedApply
  <2>3. CASE UNCHANGED <<cursor, applied>>
    <3>1. inbox' = inbox /\ Len(inbox) \in Nat
      BY <1>0, <1>4 DEF dispatcherVars, files, DispatcherTypeOK
    <3>2. Place(cursor)' = Place(cursor)
      BY <2>3, <3>1, CursorStays
    <3>3. AppliedOnceInv'
      BY <1>2, <2>3, <3>1, <3>2 DEF AppliedOnceInv, Holds
    <3>. QED  BY <2>1, <3>3
  <2>4. CASE SaveCursor
    BY <2>3, <2>4 DEF SaveCursor
  <2>5. CASE UNCHANGED vars
    BY <2>3, <2>5 DEF vars, readerVars
  <2>6. ~MonitorRestart
    BY <1>0, NoFault DEF MonitorRestart
  <2>7. CASE DispatcherNext /\ UNCHANGED readerVars
    BY <1>3, <2>7
  <2>. QED  BY <2>2, <2>4, <2>5, <2>6, <2>7 DEF Next
<1>5. CASE ApplyCommands \/ SaveCursor
  BY <1>0, <1>4, <1>5, NoFault
     DEF ApplyCommands, SaveCursor, dispatcherVars, files, chatVars, tickVars
<1>6. CASE UNCHANGED vars
  BY <1>4, <1>6 DEF vars
<1>7. ~MonitorRestart
  BY <1>0, NoFault DEF MonitorRestart
<1>. QED  BY <1>3, <1>5, <1>6, <1>7 DEF Next

\* While nothing fails, in any order of the steps of the two processes, each notice is
\* posted at most once and in the thread of its key, and each reply applied at most once
\* (a notice may be overwritten before it is read: daemon.py, _deliver_outbox and
\* _poll_inbound; inbox.py, apply_commands).
THEOREM OnceWithoutFaults == Spec => []AtMostOnceWithoutFaults
<1>1. Init => OnceInv
  <2>. SUFFICES ASSUME Init PROVE OnceInv
    OBVIOUS
  <2>1. /\ posts = <<>> /\ inbox = <<>> /\ fresh = <<>> /\ pc = "idle" /\ cursor = None
        /\ mem = NoState /\ applied = [id \in ReplyIds |-> 0]
    BY DEF Init, DispatcherInit
  <2>2. Len(posts) = 0 /\ Len(inbox) = 0 /\ Len(fresh) = 0
    BY <2>1
  <2>3. ThreadsRead
    BY <2>1 DEF ThreadsRead, NoState
  <2>4. PostsOnce
    BY <2>1, <2>2 DEF PostsOnce, PostsDistinct, PostsRecorded, BatchDelivered
  <2>5. LinesOnce
    BY <2>2 DEF LinesOnce, CountsSeen, Distinct
  <2>6. AppliedOnceInv
    BY <2>1, <2>2 DEF AppliedOnceInv, Place
  <2>. QED  BY <2>3, <2>4, <2>5, <2>6 DEF OnceInv
<1>2. MailboxInv /\ MailboxInv' /\ OnceInv /\ [Next]_vars => OnceInv'
  BY OnceStep
<1>3. OnceInv => AtMostOnceWithoutFaults
  BY DEF OnceInv, AtMostOnceWithoutFaults, PostsOnce, PostsDistinct, PostsRecorded, AppliedOnceInv
<1>. QED  BY <1>1, <1>2, <1>3, MailboxInvariant, PTL DEF Spec

=============================================================================
