----------------------------- MODULE OutputStream -----------------------------
(***************************************************************************)
(* BasicOStream with its BasicStreamBuffer, and the sinks it writes to:    *)
(* BasicOstreamSink (a leaf) and BasicSinkCollection, which hands every    *)
(* write on to the sinks registered in it.  Each stream has a writer, the  *)
(* thread that prints to it; a manager changes the sinks of the streams    *)
(* and the members of the collection.  A stream's mutex covers overflow(), *)
(* sync() and setSink(), but not the characters put into the buffer;       *)
(* the collection has a mutex of its own.                                  *)
(***************************************************************************)
EXTENDS Naturals, Sequences, FiniteSets

CONSTANTS
  Streams,     \* the streams, each also the name of its writer
  Leaves,      \* BasicOstreamSink objects; their ostream writes are atomic
  Collection,  \* the BasicSinkCollection
  Manager,     \* the thread that manages sinks
  None,
  BUF_SIZE,    \* 128 in the code
  MaxNames,    \* BOUND: the names of _sinks are 1 .. MaxNames, in their order
  MaxChars,    \* BOUND: MaxChars[s] characters are put into stream s
  MaxChanges   \* BOUND: calls of the manager

Sinks  == Leaves \cup {Collection}
Actors == Streams \cup {Manager}
Names  == 1 .. MaxNames
Chars  == Streams \X (Nat \ {0})   \* <<s, n>>: the n-th character put into s

ASSUME SizeAssumption ==
  BUF_SIZE \in Nat \ {0} /\ MaxNames \in Nat
  /\ MaxChars \in [Streams -> Nat] /\ MaxChanges \in Nat

ASSUME DistinctAssumption ==
  Collection \notin Leaves /\ Manager \notin Streams /\ None \notin Sinks \cup Actors

VARIABLES
  buf,       \* the characters between pbase() and pptr()
  sink,      \* _data
  lock,      \* the owner of the stream's _mutex, or None
  sent,      \* characters put so far
  to,        \* to[s][n]: the sink of the stream when its n-th character was put
  closed,    \* streams destroyed
  on,        \* the stream whose mutex an actor holds, or None
  job,       \* the writes an actor has still to make on the sink of that stream
  new,       \* the sink that setSink() is to install, or None
  changes,   \* calls the manager has made
  members,   \* _sinks: the sink of each name, or None
  since,     \* how much had been written to the collection when a name got its sink
  collLock,  \* the owner of the collection's _mutex, or None
  next,      \* the first name that the write in progress has not reached
  logged,    \* characters written to the collection
  received   \* what reached each leaf: records of a character and where it came from

stream == <<buf, sink, lock, sent, to, closed, changes>>
coll   == <<members, since, collLock, next, logged, received>>
vars   == <<stream, on, job, new, coll>>
-----------------------------------------------------------------------------
(***************************************************************************)
(* The stream.                                                             *)
(***************************************************************************)
Idle(a) == on[a] = None

\* BOUND: the manager's calls are counted.
Changed == changes < MaxChanges /\ changes' = changes + 1

FaultFree(s) == s \notin closed

\* lock_guard on the stream's mutex.
Free(s) == lock[s] = None /\ s \notin closed

\* Actor a enters a member function that writes `chunks` to the sink; setp() at
\* its end empties the buffer, which nobody reads or fills in between.
Begin(a, s, chunks) ==
  /\ Idle(a) /\ Free(s)
  /\ lock' = [lock EXCEPT ![s] = a]
  /\ on' = [on EXCEPT ![a] = s]
  /\ job' = [job EXCEPT ![a] = chunks]
  /\ buf' = [buf EXCEPT ![s] = <<>>]

\* What write(pbase(), pptr()) passes on; an empty write is left out.
Buffered(s) == IF buf[s] = <<>> THEN <<>> ELSE <<buf[s]>>

FaultOverflow(s, c) == Begin(s, s, <<<<c>>, buf[s]>>)

\* overflow(c): the buffer, then the character that did not fit.
Overflow(s, c) == Begin(s, s, <<buf[s], <<c>>>>)

FaultFull(s) == Len(buf[s]) > BUF_SIZE

\* pptr() = epptr().
Full(s) == Len(buf[s]) = BUF_SIZE

\* DISCIPLINE: the writer puts no character while the manager is in setSink() of
\* the same stream, for the buffer is not covered by the mutex.
Serialised(s) == Idle(s) /\ lock[s] = None

Put(s) ==
  /\ Serialised(s) /\ s \notin closed /\ sent[s] < MaxChars[s]
  /\ LET c == <<s, sent[s] + 1>> IN
       IF Full(s) THEN Overflow(s, c)
       ELSE /\ buf' = [buf EXCEPT ![s] = Append(@, c)]
            /\ UNCHANGED <<lock, on, job>>
  /\ sent' = [sent EXCEPT ![s] = @ + 1]
  /\ to' = [to EXCEPT ![s] = Append(@, sink[s])]
  /\ UNCHANGED <<sink, closed, changes, new, coll>>

\* sync(), and overflow(eof): the sink's flush() and eof() move no character.
Sync(s) ==
  /\ buf[s] # <<>>
  /\ Begin(s, s, <<buf[s]>>)
  /\ UNCHANGED <<sink, sent, to, closed, changes, new, coll>>

\* setSink(k), k not null: what is buffered belongs to the old sink.
SetSink(s, k) ==
  /\ Begin(Manager, s, Buffered(s))
  /\ new' = k
  /\ Changed
  /\ UNCHANGED <<sink, sent, to, closed, coll>>

\* ~BasicStreamBuffer() syncs; nobody uses a stream that is being destroyed.
Destroy(s) ==
  /\ Begin(s, s, Buffered(s))
  /\ closed' = closed \cup {s}
  /\ UNCHANGED <<sink, sent, to, changes, new, coll>>

\* The member function ends: the new sink is installed, the mutex released.
End(a) ==
  /\ ~Idle(a) /\ job[a] = <<>>
  /\ lock' = [lock EXCEPT ![on[a]] = None]
  /\ IF a = Manager
       THEN sink' = [sink EXCEPT ![on[a]] = new] /\ new' = None
       ELSE UNCHANGED <<sink, new>>
  /\ on' = [on EXCEPT ![a] = None]
  /\ UNCHANGED <<buf, sent, to, closed, changes, job, coll>>
-----------------------------------------------------------------------------
(***************************************************************************)
(* The sinks.                                                              *)
(***************************************************************************)
Target(a) == sink[on[a]]

Arriving(chunk, via) == [i \in 1 .. Len(chunk) |-> [char |-> chunk[i], via |-> via]]

Writing(a, k) == ~Idle(a) /\ job[a] # <<>> /\ Target(a) = k

\* BasicOstreamSink::write().
WriteLeaf(a) ==
  \E k \in Leaves :
    /\ Writing(a, k)
    /\ received' = [received EXCEPT ![k] = @ \o Arriving(Head(job[a]), k)]
    /\ job' = [job EXCEPT ![a] = Tail(@)]
    /\ UNCHANGED <<stream, on, new, members, since, collLock, next, logged>>

FaultCollFree == TRUE

\* lock_guard on the collection's mutex.
CollFree == collLock = None

\* BasicSinkCollection::write(): lock,
WriteCollection(a) ==
  /\ Writing(a, Collection) /\ CollFree /\ next[a] = 0
  /\ collLock' = a
  /\ next' = [next EXCEPT ![a] = 1]
  /\ logged' = logged \o Head(job[a])
  /\ UNCHANGED <<stream, on, job, new, members, since, received>>

\* hand the characters to one member after the other,
HandOn(a) ==
  /\ next[a] \in Names
  /\ IF members[next[a]] \in Leaves
       THEN received' = [received EXCEPT ![members[next[a]]] =
                           @ \o Arriving(Head(job[a]), Collection)]
       ELSE UNCHANGED received
  /\ next' = [next EXCEPT ![a] = @ + 1]
  /\ UNCHANGED <<stream, on, job, new, members, since, collLock, logged>>

FaultHandedOn(a) ==
  /\ next[a] = MaxNames + 1
  /\ next' = [next EXCEPT ![a] = 0]
  /\ job' = [job EXCEPT ![a] = Tail(@)]
  /\ UNCHANGED <<stream, on, new, members, since, collLock, logged, received>>

\* and unlock.
HandedOn(a) ==
  /\ next[a] = MaxNames + 1
  /\ collLock' = None
  /\ next' = [next EXCEPT ![a] = 0]
  /\ job' = [job EXCEPT ![a] = Tail(@)]
  /\ UNCHANGED <<stream, on, new, members, since, logged, received>>

\* putSink() and removeSink().  DISCIPLINE: a sink is registered under one name.
PutSink(n, k) ==
  /\ Idle(Manager) /\ CollFree /\ \A m \in Names : members[m] # k
  /\ members' = [members EXCEPT ![n] = k]
  /\ since' = [since EXCEPT ![n] = Len(logged)]
  /\ Changed
  /\ UNCHANGED <<buf, sink, lock, sent, to, closed, on, job, new>>
  /\ UNCHANGED <<collLock, next, logged, received>>

RemoveSink(n) ==
  /\ Idle(Manager) /\ CollFree /\ members[n] # None
  /\ members' = [members EXCEPT ![n] = None]
  /\ Changed
  /\ UNCHANGED <<buf, sink, lock, sent, to, closed, on, job, new>>
  /\ UNCHANGED <<since, collLock, next, logged, received>>
-----------------------------------------------------------------------------
Init ==
  /\ buf = [s \in Streams |-> <<>>]
  /\ sink \in [Streams -> Sinks]
  /\ lock = [s \in Streams |-> None]
  /\ sent = [s \in Streams |-> 0]
  /\ to = [s \in Streams |-> <<>>]
  /\ closed = {}
  /\ on = [a \in Actors |-> None]
  /\ job = [a \in Actors |-> <<>>]
  /\ new = None
  /\ changes = 0
  /\ members \in {m \in [Names -> Leaves \cup {None}] :
                   \A n, i \in Names : m[n] = m[i] /\ m[n] # None => n = i}
  /\ since = [n \in Names |-> 0]
  /\ collLock = None
  /\ next = [a \in Actors |-> 0]
  /\ logged = <<>>
  /\ received = [k \in Leaves |-> <<>>]

Call ==
  \/ \E s \in Streams : Put(s) \/ Sync(s) \/ Destroy(s) \/ \E k \in Sinks : SetSink(s, k)
  \/ \E n \in Names : RemoveSink(n) \/ \E k \in Leaves : PutSink(n, k)

Step(a) == WriteLeaf(a) \/ WriteCollection(a) \/ HandOn(a) \/ HandedOn(a) \/ End(a)

Next == Call \/ \E a \in Actors : Step(a)

Spec == Init /\ [][Next]_vars

\* A thread inside a call keeps running, and gets a mutex that stays free.
FairSpec == Spec /\ \A a \in Actors : WF_vars(Step(a))
-----------------------------------------------------------------------------
(***************************************************************************)
(* Properties.                                                             *)
(***************************************************************************)
\* Every variable has its type, and the buffer holds what fits.
TypeOK ==
  /\ buf \in [Streams -> Seq(Chars)] /\ \A s \in Streams : Len(buf[s]) <= BUF_SIZE
  /\ sink \in [Streams -> Sinks]
  /\ lock \in [Streams -> Actors \cup {None}]
  /\ sent \in [Streams -> Nat]
  /\ to \in [Streams -> Seq(Sinks)] /\ \A s \in Streams : Len(to[s]) = sent[s]
  /\ closed \subseteq Streams
  /\ on \in [Actors -> Streams \cup {None}]
  /\ job \in [Actors -> Seq(Seq(Chars))]
  /\ new \in Sinks \cup {None}
  /\ changes \in 0 .. MaxChanges
  /\ members \in [Names -> Leaves \cup {None}]
  /\ since \in [Names -> 0 .. Len(logged)]
  /\ collLock \in Actors \cup {None}
  /\ next \in [Actors -> 0 .. MaxNames + 1]
  /\ logged \in Seq(Chars)
  /\ received \in [Leaves -> Seq([char : Chars, via : Sinks])]

Within(x, seq) == \E i \in 1 .. Len(seq) : seq[i] = x

\* Characters put into a stream that a member function is still to write.
InWork(s, c) == \E a \in Actors : on[a] = s /\ \E i \in 1 .. Len(job[a]) : Within(c, job[a][i])

\* What a sink has been given: a leaf directly, not through the collection.
Given(k, c) == IF k = Collection THEN Within(c, logged)
               ELSE Within([char |-> c, via |-> k], received[k])

\* Every character goes to the sink that was current when it was put, whether
\* overflow(), sync(), setSink() or the destructor moves it: it is there, or
\* buffered, or being written, and buffered only while the stream lives.
NothingLost ==
  \A s \in Streams : \A n \in 1 .. sent[s] :
    LET c == <<s, n>> IN
      \/ Within(c, buf[s]) /\ s \notin closed
      \/ InWork(s, c)
      \/ Given(to[s][n], c)

\* No sink gets a character of a stream twice or before an earlier one of the
\* same stream, although several streams, changes of sink and the collection mix.
OnceInOrder ==
  \A k \in Leaves : \A i, j \in 1 .. Len(received[k]) :
    LET c == received[k][i].char
        d == received[k][j].char
    IN  i < j /\ c[1] = d[1] => c[2] < d[2]

\* What a leaf was given through the collection.
ViaCollection(k) ==
  LET upTo[i \in 0 .. Len(received[k])] ==
        IF i = 0 THEN <<>>
        ELSE IF received[k][i].via = Collection THEN Append(upTo[i - 1], received[k][i].char)
        ELSE upTo[i - 1]
  IN  upTo[Len(received[k])]

EndsWith(s, t) == Len(t) <= Len(s) /\ SubSeq(s, Len(s) - Len(t) + 1, Len(s)) = t

\* Between two writes every member of the collection has got, last and in the same
\* order, all that was written to the collection since it was registered: members
\* that come and go while streams write concurrently do not disturb the others.
MembersAgree ==
  collLock = None =>
    \A n \in Names : members[n] # None =>
      EndsWith(ViaCollection(members[n]), SubSeq(logged, since[n] + 1, Len(logged)))

\* Once the clients stop calling, every call returns: a stream's mutex is held
\* while the collection's is waited for, never the other way round.
CallsReturn ==
  <>[][\E a \in Actors : Step(a)]_vars => <>[](\A a \in Actors : Idle(a))
=============================================================================
