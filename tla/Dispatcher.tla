----------------------------- MODULE Dispatcher -----------------------------
(***************************************************************************)
(* The dispatcher daemon, a process of its own between the files of the    *)
(* monitor and a chat: it delivers the notices the monitor appends to the  *)
(* outbox and appends to the inbox the replies people write in the         *)
(* threads those notices opened.  The backend is one that can read         *)
(* (slack_api, discord_bot).                                               *)
(*                                                                         *)
(* A thread is named by the position of the post that opened it, a reply   *)
(* by its key and its place in the thread, which stands for its timestamp. *)
(* A modification time is reduced to `touched`: whether it is later than   *)
(* the one the daemon last noted.  Message texts and channels are left out.*)
(***************************************************************************)
EXTENDS Integers, Sequences

CONSTANTS
  Keys,          \* thread keys of the notifiers that share the outbox
  NoKey,         \* a notifier without one
  Faults,        \* the kinds of fault of this instance, out of FaultKinds
  MaxNotices,    \* bound: notices the monitor queues
  MaxReplies,    \* bound: replies people write in one thread
  MaxFaults      \* bound: faults

FaultKinds ==
  {"refuse",     \* a call to the chat reports an error; it may have got through
   "raise",      \* a call to the chat raises, which ends the tick
   "io",         \* a write of a file raises, which ends the tick
   "crash",      \* the daemon is killed and started again
   "restart"}    \* so is the monitor

ASSUME DispatcherAssumption ==
  /\ NoKey \notin Keys
  /\ Faults \subseteq FaultKinds
  /\ MaxNotices \in Nat /\ MaxReplies \in Nat /\ MaxFaults \in Nat

VARIABLES
  outbox,   \* file: the notices, oldest first
  inbox,    \* file: the replies, as the daemon appended them
  touched,  \* the outbox was written since the daemon noted its time
  posts,    \* chat: the messages, each with the replies in the thread it opened
  pc,       \* where the daemon is in its tick
  batch,    \* the outbox as the tick loaded it
  at,       \* the entry of `batch` it has come to
  todo,     \* keys whose threads the poll has still to read
  fresh,    \* replies the poll has read and not yet appended
  mem,      \* DispatcherState in memory
  disk,     \* the same in its file
  dropped,  \* history: replies read in a tick that raised before it appended them
  notices, faults   \* counters of the bounds

chatVars   == <<posts, notices>>
tickVars   == <<pc, batch, at, todo, fresh>>
files      == <<outbox, touched, inbox, disk>>
dispatcherVars == <<files, chatVars, tickVars, mem, dropped, faults>>

NoThread == 0

NoState == [threads |-> [k \in Keys |-> NoThread], seen |-> [k \in Keys |-> 0]]

DispatcherInit ==
  /\ outbox = <<>> /\ inbox = <<>> /\ touched = FALSE
  /\ posts = <<>>
  /\ pc = "idle" /\ batch = <<>> /\ at = 1 /\ todo = {} /\ fresh = <<>>
  /\ mem = NoState /\ disk = NoState
  /\ dropped = {} /\ notices = 0 /\ faults = 0

Fault(kind) ==
  /\ kind \in Faults /\ faults < MaxFaults
  /\ faults' = faults + 1

-----------------------------------------------------------------------------
(* The two sides the daemon works for *)

\* FileOutboxNotifier.notify: append, whatever the daemon is doing.
Notify(key) ==
  /\ notices < MaxNotices
  /\ notices' = notices + 1
  /\ outbox' = Append(outbox, [id |-> notices', key |-> key, sent |-> FALSE])
  /\ touched' = TRUE
  /\ UNCHANGED <<inbox, posts, tickVars, mem, disk, dropped, faults>>

\* Somebody writes under the post that opened a thread.
HumanReplies(t) ==
  /\ posts[t].thread = t /\ posts[t].replies < MaxReplies
  /\ posts' = [posts EXCEPT ![t].replies = @ + 1]
  /\ UNCHANGED <<files, notices, tickVars, mem, dropped, faults>>

-----------------------------------------------------------------------------
(* The outbox half of a tick *)

\* An outbox whose time did not advance is not even read.
TickStart ==
  /\ pc = "idle"
  /\ IF touched
     THEN pc' = "deliver" /\ batch' = outbox /\ at' = 1
     ELSE pc' = "inbound" /\ UNCHANGED <<batch, at>>
  /\ UNCHANGED <<files, chatVars, todo, fresh, mem, dropped, faults>>

ThreadOf(key) == IF key \in Keys THEN mem.threads[key] ELSE NoThread

\* What a delivered message becomes: a post of the thread of its key, or one
\* that opens a thread.
Posted(e) ==
  [id |-> e.id,
   thread |-> IF ThreadOf(e.key) = NoThread THEN Len(posts) + 1 ELSE ThreadOf(e.key),
   replies |-> 0]

\* The first message delivered under a key is the parent of its thread.
Pinned(e) ==
  IF e.key \in Keys /\ ThreadOf(e.key) = NoThread
  THEN [mem EXCEPT !.threads[e.key] = Len(posts) + 1]
  ELSE mem

Delivered(e) ==
  /\ posts' = Append(posts, Posted(e))
  /\ mem' = Pinned(e)
  /\ batch' = [batch EXCEPT ![at].sent = TRUE]
  /\ UNCHANGED faults

\* Mutant: sent entries are delivered again.
DeliverNextAll ==
  /\ pc = "deliver" /\ at <= Len(batch)
  /\ at' = at + 1
  /\ Delivered(batch[at])
  /\ UNCHANGED <<files, notices, pc, todo, fresh, dropped>>

\* An error answer leaves the entry unsent; the message may be in the chat.
Refused(e) ==
  /\ Fault("refuse")
  /\ posts' \in {posts, Append(posts, Posted(e))}
  /\ UNCHANGED <<mem, batch>>

DeliverNext ==
  /\ pc = "deliver" /\ at <= Len(batch)
  /\ at' = at + 1
  /\ \/ batch[at].sent /\ UNCHANGED <<posts, mem, batch, faults>>
     \/ ~batch[at].sent /\ (Delivered(batch[at]) \/ Refused(batch[at]))
  /\ UNCHANGED <<files, notices, pc, todo, fresh, dropped>>

\* `changed`: the tick came to an unsent entry.  The file still tells, only the
\* daemon rewrites what it has loaded.
Changed == \E i \in 1 .. Len(batch) : ~outbox[i].sent

\* _save_outbox replaces the file by the batch: what was appended since is gone.
SaveOutbox ==
  /\ pc = "deliver" /\ at > Len(batch)
  /\ IF Changed
     THEN outbox' = batch /\ touched' = TRUE /\ pc' = "pin"
     ELSE pc' = "restat" /\ UNCHANGED <<outbox, touched>>
  /\ UNCHANGED <<inbox, chatVars, batch, at, todo, fresh, mem, disk, dropped, faults>>

SaveThreads ==
  /\ pc = "pin"
  /\ disk' = mem /\ pc' = "restat"
  /\ UNCHANGED <<outbox, inbox, touched, chatVars, batch, at, todo, fresh, mem, dropped, faults>>

\* The time noted is that of the file as it is now, read or not.
Restat ==
  /\ pc = "restat"
  /\ touched' = FALSE
  /\ batch' = <<>> /\ at' = 1 /\ pc' = "inbound"
  /\ UNCHANGED <<outbox, inbox, chatVars, todo, fresh, mem, disk, dropped, faults>>

-----------------------------------------------------------------------------
(* The inbound half *)

\* Neither the marker advanced nor the idle interval elapsed.
SkipPoll ==
  /\ pc = "inbound"
  /\ pc' = "idle"
  /\ UNCHANGED <<files, chatVars, batch, at, todo, fresh, mem, dropped, faults>>

StartPoll ==
  /\ pc = "inbound"
  /\ todo' = {k \in Keys : mem.threads[k] # NoThread}
  /\ pc' = IF todo' = {} THEN "idle" ELSE "poll"
  /\ UNCHANGED <<files, chatVars, batch, at, fresh, mem, dropped, faults>>

\* The replies after the last one seen, in the order they were written.
NewReplies(k) ==
  LET last == posts[mem.threads[k]].replies
  IN  [i \in 1 .. last - mem.seen[k] |-> <<k, mem.seen[k] + i>>]

\* Mutant: the state is saved with each thread, before the replies are appended.
PollThreadSaving(k) ==
  /\ pc = "poll" /\ k \in todo
  /\ todo' = todo \ {k}
  /\ fresh' = fresh \o NewReplies(k)
  /\ mem' = [mem EXCEPT !.seen[k] = posts[mem.threads[k]].replies]
  /\ disk' = mem'
  /\ UNCHANGED <<outbox, inbox, touched, chatVars, pc, batch, at, dropped, faults>>

\* Mutant: the last timestamp grows by what was fetched, the replies before included.
PollThreadCounting(k) ==
  /\ pc = "poll" /\ k \in todo
  /\ todo' = todo \ {k}
  /\ fresh' = fresh \o NewReplies(k)
  /\ mem' = [mem EXCEPT !.seen[k] = @ + posts[mem.threads[k]].replies]
  /\ UNCHANGED <<files, chatVars, pc, batch, at, dropped, faults>>

\* fetch_replies answers, or reports an error as an empty list.
PollThread(k) ==
  /\ pc = "poll" /\ k \in todo
  /\ todo' = todo \ {k}
  /\ \/ /\ fresh' = fresh \o NewReplies(k)
        /\ mem' = [mem EXCEPT !.seen[k] = posts[mem.threads[k]].replies]
        /\ UNCHANGED faults
     \/ Fault("refuse") /\ UNCHANGED <<fresh, mem>>
  /\ UNCHANGED <<files, chatVars, pc, batch, at, dropped>>

AppendInbox ==
  /\ pc = "poll" /\ todo = {}
  /\ IF fresh = <<>>
     THEN pc' = "idle" /\ UNCHANGED inbox
     ELSE pc' = "note" /\ inbox' = inbox \o fresh
  /\ fresh' = <<>>
  /\ UNCHANGED <<outbox, touched, chatVars, batch, at, todo, mem, disk, dropped, faults>>

SaveSeen ==
  /\ pc = "note"
  /\ disk' = mem /\ pc' = "idle"
  /\ UNCHANGED <<outbox, inbox, touched, chatVars, batch, at, todo, fresh, mem, dropped, faults>>

-----------------------------------------------------------------------------
(* What ends a tick early *)

AbandonTick == pc' = "idle" /\ batch' = <<>> /\ at' = 1 /\ todo' = {} /\ fresh' = <<>>

DropFresh == dropped' = dropped \cup {fresh[i] : i \in 1 .. Len(fresh)}

\* run() logs the exception and ticks again: the state in memory keeps what the
\* tick had put there, what it had read is gone.
ChatRaises ==
  /\ Fault("raise")
  /\ \/ /\ pc = "deliver" /\ at <= Len(batch) /\ ~batch[at].sent
        /\ posts' \in {posts, Append(posts, Posted(batch[at]))}
     \/ pc = "poll" /\ todo # {} /\ UNCHANGED posts
  /\ AbandonTick /\ DropFresh
  /\ UNCHANGED <<files, notices, mem>>

WriteRaises ==
  /\ Fault("io")
  /\ \/ pc = "deliver" /\ at > Len(batch) /\ Changed
     \/ pc \in {"pin", "note"}
     \/ pc = "poll" /\ todo = {} /\ fresh # <<>>
  /\ AbandonTick /\ DropFresh
  /\ UNCHANGED <<files, chatVars, mem>>

\* The new process has noted no time: an outbox that exists counts as touched.
Crash ==
  /\ Fault("crash")
  /\ AbandonTick
  /\ mem' = disk
  /\ touched' = (outbox # <<>>)
  /\ UNCHANGED <<outbox, inbox, chatVars, disk, dropped>>

-----------------------------------------------------------------------------
DaemonStep ==
  \/ TickStart \/ DeliverNext \/ SaveOutbox \/ SaveThreads \/ Restat
  \/ SkipPoll \/ StartPoll \/ (\E k \in Keys : PollThread(k))
  \/ AppendInbox \/ SaveSeen

DispatcherNext ==
  \/ \E key \in Keys \cup {NoKey} : Notify(key)
  \/ \E t \in 1 .. Len(posts) : HumanReplies(t)
  \/ DaemonStep
  \/ ChatRaises \/ WriteRaises \/ Crash

-----------------------------------------------------------------------------
ReplyIds == Keys \X (1 .. MaxReplies)

DaemonStates == [threads : [Keys -> 0 .. Len(posts)], seen : [Keys -> 0 .. MaxReplies]]

Entries == [id : 1 .. MaxNotices, key : Keys \cup {NoKey}, sent : BOOLEAN]

DispatcherTypeOK ==
  /\ outbox \in Seq(Entries) /\ batch \in Seq(Entries)
  /\ inbox \in Seq(ReplyIds) /\ fresh \in Seq(ReplyIds)
  /\ posts \in Seq([id : 1 .. MaxNotices, thread : Nat, replies : 0 .. MaxReplies])
  /\ touched \in BOOLEAN
  /\ pc \in {"idle", "deliver", "pin", "restat", "inbound", "poll", "note"}
  /\ at \in 1 .. Len(batch) + 1
  /\ todo \subseteq Keys
  /\ mem \in DaemonStates /\ disk \in DaemonStates
  /\ dropped \subseteq ReplyIds
  /\ notices \in 0 .. MaxNotices /\ faults \in 0 .. MaxFaults

Holds(file, id) == \E i \in 1 .. Len(file) : file[i] = id

\* A reply the daemon will not ask for again is in the inbox, or about to be
\* appended to it, or was dropped by a tick that raised: a daemon killed at any
\* point reads again what it had not handed over, and a call that reports an
\* error costs nothing (daemon.py, _poll_inbound).
SeenIsKept ==
  \A k \in Keys :
    /\ \A n \in 1 .. mem.seen[k] :
         <<k, n>> \in dropped \/ Holds(inbox, <<k, n>>) \/ Holds(fresh, <<k, n>>)
    /\ \A n \in 1 .. disk.seen[k] : <<k, n>> \in dropped \/ Holds(inbox, <<k, n>>)

\* A notice the outbox shows as sent is not sent again, whatever else is retried:
\* a daemon that comes back delivers only what it did not get to record.
SentOnce ==
  [][\A i \in 1 .. Len(outbox) :
       outbox[i].sent => \A j \in Len(posts) + 1 .. Len(posts') : posts'[j].id # outbox[i].id]_dispatcherVars

\* daemon.py:268-269: replies "still land eventually", so no reply counts as seen
\* without being in the inbox or on its way there.
RepliesLand ==
  \A k \in Keys : \A n \in 1 .. mem.seen[k] :
    Holds(inbox, <<k, n>>) \/ Holds(fresh, <<k, n>>)

=============================================================================
