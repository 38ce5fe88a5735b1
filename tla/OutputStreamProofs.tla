-------------------------- MODULE OutputStreamProofs --------------------------
(***************************************************************************)
(* What the streams and the sinks they write to keep true, for any number  *)
(* of streams, leaves, names and characters and any size of the buffer;    *)
(* and why a call cannot be locked out, or run for ever.                   *)
(***************************************************************************)
EXTENDS OutputStream, Integers, SequenceTheorems, WellFoundedInduction, TLAPS

-----------------------------------------------------------------------------
(***************************************************************************)
(* The inductive invariant.                                                *)
(***************************************************************************)
\* A stream's mutex is held by the actor that is in a member function of it: its
\* writer or the manager.  Its buffer is empty meanwhile.
Locking ==
  /\ \A s \in Streams, a \in Actors : lock[s] = a <=> on[a] = s
  /\ \A a \in Streams : on[a] \in {a, None}
  /\ \A a \in Actors : on[a] = None => job[a] = <<>> /\ next[a] = 0
  /\ \A a \in Actors : on[a] # None => buf[on[a]] = <<>>
  /\ on[Manager] # None => new # None
  /\ \A s \in closed : buf[s] = <<>>

\* The collection's mutex is held by the actor that hands on what it writes to it.
CollLocking ==
  /\ \A a \in Actors : collLock = a <=> next[a] # 0
  /\ \A a \in Actors : next[a] # 0 =>
       on[a] # None /\ job[a] # <<>> /\ sink[on[a]] = Collection
  /\ \A n, m \in Names : members[n] = members[m] /\ members[n] # None => n = m

\* What is buffered or being written is of the stream, in the order it was put.
InSequence ==
  /\ \A s \in Streams : \A i \in 1 .. Len(buf[s]) :
       buf[s][i][1] = s /\ buf[s][i][2] <= sent[s]
  /\ \A s \in Streams : \A i, j \in 1 .. Len(buf[s]) :
       i < j => buf[s][i][2] < buf[s][j][2]
  /\ \A a \in Actors : \A i \in 1 .. Len(job[a]) : \A x \in 1 .. Len(job[a][i]) :
       job[a][i][x][1] = on[a] /\ job[a][i][x][2] <= sent[on[a]]
  /\ \A a \in Actors : \A i, j \in 1 .. Len(job[a]) :
       \A x \in 1 .. Len(job[a][i]), y \in 1 .. Len(job[a][j]) :
         i < j \/ (i = j /\ x < y) => job[a][i][x][2] < job[a][j][y][2]

\* What is buffered or being written was put for the sink the stream has now, and
\* what is being handed on was written to the collection.
ForThisSink ==
  /\ \A s \in Streams : \A n \in 1 .. sent[s] :
       Within(<<s, n>>, buf[s]) \/ InWork(s, <<s, n>>) => to[s][n] = sink[s]
  /\ \A a \in Actors : next[a] # 0 =>
       \A x \in 1 .. Len(job[a][1]) : Within(job[a][1][x], logged)

\* Leaf k has already been handed what actor a is writing to the collection.
Served(a, k) == \E n \in Names : n < next[a] /\ members[n] = k

\* What a leaf got is before what is buffered or being written.
Before ==
  /\ \A k \in Leaves : \A r \in 1 .. Len(received[k]) :
       LET c == received[k][r].char IN
         /\ c[2] <= sent[c[1]]
         /\ \A i \in 1 .. Len(buf[c[1]]) : c[2] < buf[c[1]][i][2]
  /\ \A k \in Leaves, a \in Actors : \A r \in 1 .. Len(received[k]) :
       \A j \in 1 .. Len(job[a]) : \A x \in 1 .. Len(job[a][j]) :
         received[k][r].char[1] = on[a] =>
           \/ received[k][r].char[2] < job[a][j][x][2]
           \/ j = 1 /\ Served(a, k)

\* How much of the log the sink named n has got by now, when a write in progress
\* has reached it or not.
Reached(n) ==
  IF \E a \in Actors : next[a] # 0 /\ n >= next[a]
  THEN Len(logged) - Len(Head(job[collLock])) ELSE Len(logged)

HandingOn ==
  /\ \A a \in Actors : next[a] # 0 => EndsWith(logged, Head(job[a]))
  /\ \A n \in Names : members[n] # None =>
       /\ since[n] <= Reached(n)
       /\ EndsWith(ViaCollection(members[n]), SubSeq(logged, since[n] + 1, Reached(n)))

IInv == TypeOK /\ Locking /\ CollLocking /\ InSequence /\ ForThisSink /\ NothingLost
        /\ OnceInOrder /\ Before /\ HandingOn
-----------------------------------------------------------------------------
(***************************************************************************)
(* Types.                                                                  *)
(***************************************************************************)
\* A list of characters is one, whatever its length.
LEMMA Chunks ==
  /\ <<>> \in Seq(Chars) /\ <<>> \in Seq(Seq(Chars))
  /\ \A b \in Seq(Chars) : <<b>> \in Seq(Seq(Chars))
  /\ \A b \in Seq(Chars), c \in Chars : <<c>> \in Seq(Chars) /\ <<b, <<c>>>> \in Seq(Seq(Chars))
OBVIOUS

\* What a client's call changes has its type.
LEMMA CallTypes ==
  ASSUME IInv, Call
  PROVE  TypeOK'
<1> USE DEF IInv, TypeOK
<1>1. ASSUME NEW s \in Streams, Put(s) PROVE TypeOK'
  <2>c. PICK c : c = <<s, sent[s] + 1>>
    OBVIOUS
  <2>1. c \in Chars
    BY <2>c DEF Chars
  <2>2. /\ sent' = [sent EXCEPT ![s] = @ + 1] /\ to' = [to EXCEPT ![s] = Append(@, sink[s])]
        /\ UNCHANGED <<sink, closed, changes, new, coll>>
    BY <1>1 DEF Put
  <2>3. /\ sent' \in [Streams -> Nat] /\ to' \in [Streams -> Seq(Sinks)]
        /\ \A r \in Streams : Len(to'[r]) = sent'[r]
    BY <2>2
  <2>4. CASE Full(s)
    <3>1. Begin(s, s, <<buf[s], <<c>>>>)
      BY <1>1, <2>4, <2>c DEF Put, Overflow
    <3>2. <<buf[s], <<c>>>> \in Seq(Seq(Chars)) /\ s \in Actors
      BY <2>1, Chunks DEF Actors
    <3>3. /\ lock' \in [Streams -> Actors \cup {None}] /\ on' \in [Actors -> Streams \cup {None}]
          /\ job' \in [Actors -> Seq(Seq(Chars))]
      BY <3>1, <3>2 DEF Begin
    <3>4. /\ buf' \in [Streams -> Seq(Chars)] /\ \A r \in Streams : Len(buf'[r]) <= BUF_SIZE
      BY <3>1, SizeAssumption DEF Begin
    <3> QED
      BY <2>2, <2>3, <3>3, <3>4 DEF coll
  <2>5. CASE ~ Full(s)
    <3>1. buf' = [buf EXCEPT ![s] = Append(@, c)] /\ UNCHANGED <<lock, on, job>>
      BY <1>1, <2>5, <2>c DEF Put
    <3>2. /\ buf' \in [Streams -> Seq(Chars)]
      BY <2>1, <3>1
    <3>3. \A r \in Streams : Len(buf'[r]) <= BUF_SIZE
      BY <2>1, <2>5, <3>1, SizeAssumption DEF Full
    <3> QED
      BY <2>2, <2>3, <3>1, <3>2, <3>3 DEF coll
  <2> QED
    BY <2>4, <2>5
<1>2. ASSUME NEW s \in Streams, NEW a \in Actors, NEW chunks \in Seq(Seq(Chars)),
             Begin(a, s, chunks)
      PROVE  /\ lock' \in [Streams -> Actors \cup {None}] /\ on' \in [Actors -> Streams \cup {None}]
             /\ job' \in [Actors -> Seq(Seq(Chars))]
             /\ buf' \in [Streams -> Seq(Chars)] /\ \A r \in Streams : Len(buf'[r]) <= BUF_SIZE
  <2>1. /\ lock' \in [Streams -> Actors \cup {None}] /\ on' \in [Actors -> Streams \cup {None}]
        /\ job' \in [Actors -> Seq(Seq(Chars))]
    BY <1>2 DEF Begin
  <2>2. /\ buf' \in [Streams -> Seq(Chars)] /\ \A r \in Streams : Len(buf'[r]) <= BUF_SIZE
    BY <1>2, SizeAssumption DEF Begin
  <2> QED
    BY <2>1, <2>2
<1>3. \A s \in Streams : <<buf[s]>> \in Seq(Seq(Chars)) /\ Buffered(s) \in Seq(Seq(Chars))
  BY Chunks DEF Buffered
<1>4. Manager \in Actors /\ Streams \subseteq Actors
  BY DEF Actors
<1>5. ASSUME NEW s \in Streams, Sync(s) PROVE TypeOK'
  <2>1. Begin(s, s, <<buf[s]>>) /\ UNCHANGED <<sink, sent, to, closed, changes, new, coll>>
    BY <1>5 DEF Sync
  <2> QED
    BY <1>2, <1>3, <1>4, <2>1 DEF coll
<1>6. ASSUME NEW s \in Streams, Destroy(s) PROVE TypeOK'
  <2>1. /\ Begin(s, s, Buffered(s)) /\ UNCHANGED <<sink, sent, to, changes, new, coll>>
        /\ closed' = closed \cup {s}
    BY <1>6 DEF Destroy
  <2> QED
    BY <1>2, <1>3, <1>4, <2>1 DEF coll
<1>7. ASSUME NEW s \in Streams, NEW k \in Sinks, SetSink(s, k) PROVE TypeOK'
  <2>1. /\ Begin(Manager, s, Buffered(s)) /\ UNCHANGED <<sink, sent, to, closed, coll>>
        /\ new' = k /\ changes' \in 0 .. MaxChanges
    BY <1>7, SizeAssumption DEF SetSink, Changed
  <2> QED
    BY <1>2, <1>3, <1>4, <2>1 DEF coll
<1>8. ASSUME NEW n \in Names, NEW k \in Leaves, PutSink(n, k) PROVE TypeOK'
  <2>1. Len(logged) \in 0 .. Len(logged)
    OBVIOUS
  <2>2. changes' \in 0 .. MaxChanges
    BY <1>8, SizeAssumption DEF PutSink, Changed
  <2>3. /\ members' \in [Names -> Leaves \cup {None}]
        /\ since' \in [Names -> 0 .. Len(logged)]
    BY <1>8, <2>1 DEF PutSink
  <2> QED
    BY <1>8, <2>2, <2>3 DEF PutSink
<1>9. ASSUME NEW n \in Names, RemoveSink(n) PROVE TypeOK'
  <2>1. changes' \in 0 .. MaxChanges
    BY <1>9, SizeAssumption DEF RemoveSink, Changed
  <2>2. members' \in [Names -> Leaves \cup {None}]
    BY <1>9 DEF RemoveSink
  <2> QED
    BY <1>9, <2>1, <2>2 DEF RemoveSink
<1> QED
  BY <1>1, <1>5, <1>6, <1>7, <1>8, <1>9 DEF Call

\* What arrives at a leaf is a list of records of its type.
LEMMA ArrivingType ==
  ASSUME NEW chunk \in Seq(Chars), NEW via \in Sinks
  PROVE  /\ Arriving(chunk, via) \in Seq([char : Chars, via : Sinks])
         /\ Len(Arriving(chunk, via)) = Len(chunk)
         /\ \A i \in 1 .. Len(chunk) : Arriving(chunk, via)[i] = [char |-> chunk[i], via |-> via]
BY DEF Arriving

\* A leaf that gets more still has a list of records.
LEMMA ReceivedType ==
  ASSUME NEW k \in Leaves, NEW f \in [Leaves -> Seq([char : Chars, via : Sinks])],
         NEW more \in Seq([char : Chars, via : Sinks])
  PROVE  [f EXCEPT ![k] = @ \o more] \in [Leaves -> Seq([char : Chars, via : Sinks])]
<1>R. PICK R : R = [char : Chars, via : Sinks]
  OBVIOUS
<1>1. f \in [Leaves -> Seq(R)] /\ more \in Seq(R)
  BY <1>R
<1>2. f[k] \o more \in Seq(R)
  BY <1>1
<1>3. [f EXCEPT ![k] = @ \o more] \in [Leaves -> Seq(R)]
  BY <1>1, <1>2
<1> QED
  BY <1>3, <1>R

\* What a thread changes inside a call has its type.
LEMMA StepTypes ==
  ASSUME IInv, NEW a \in Actors, Step(a)
  PROVE  TypeOK'
<1> USE DEF IInv, TypeOK
<1>1. ASSUME job[a] # <<>> PROVE Head(job[a]) \in Seq(Chars) /\ Tail(job[a]) \in Seq(Seq(Chars))
  BY <1>1
<1>2. CASE WriteLeaf(a)
  <2>1. PICK k \in Leaves :
          /\ Writing(a, k)
          /\ received' = [received EXCEPT ![k] = @ \o Arriving(Head(job[a]), k)]
          /\ job' = [job EXCEPT ![a] = Tail(@)]
          /\ UNCHANGED <<stream, on, new, members, since, collLock, next, logged>>
    BY <1>2 DEF WriteLeaf
  <2>2. Arriving(Head(job[a]), k) \in Seq([char : Chars, via : Sinks])
    BY <1>1, <2>1, ArrivingType DEF Writing, Sinks
  <2>3. received' \in [Leaves -> Seq([char : Chars, via : Sinks])]
    BY <2>1, <2>2, ReceivedType
  <2>4. job' \in [Actors -> Seq(Seq(Chars))]
    BY <1>1, <2>1 DEF Writing
  <2> QED
    BY <2>1, <2>3, <2>4 DEF stream
<1>3. CASE WriteCollection(a)
  <2>1. /\ job[a] # <<>> /\ collLock' = a /\ next' = [next EXCEPT ![a] = 1]
        /\ logged' = logged \o Head(job[a])
        /\ UNCHANGED <<stream, on, job, new, members, since, received>>
    BY <1>3 DEF WriteCollection, Writing
  <2>2. logged' \in Seq(Chars) /\ Len(logged') >= Len(logged)
    BY <1>1, <2>1
  <2>3. since \in [Names -> 0 .. Len(logged')]
    BY <2>2
  <2>4. 1 \in 0 .. MaxNames + 1
    BY SizeAssumption
  <2>5. next' \in [Actors -> 0 .. MaxNames + 1]
    BY <2>1, <2>4
  <2> QED
    BY <2>1, <2>2, <2>3, <2>5 DEF stream
<1>4. CASE HandOn(a)
  <2>1. /\ next[a] \in Names /\ next' = [next EXCEPT ![a] = @ + 1]
        /\ UNCHANGED <<stream, on, job, new, members, since, collLock, logged>>
        /\ \/ UNCHANGED received
           \/ /\ members[next[a]] \in Leaves
              /\ received' = [received EXCEPT ![members[next[a]]] =
                                @ \o Arriving(Head(job[a]), Collection)]
    BY <1>4 DEF HandOn
  <2>2. next' \in [Actors -> 0 .. MaxNames + 1]
    BY <2>1, SizeAssumption DEF Names
  <2>3. job[a] # <<>>
    BY <2>1, SizeAssumption DEF CollLocking, Names
  <2>4. Arriving(Head(job[a]), Collection) \in Seq([char : Chars, via : Sinks])
    BY <1>1, <2>3, ArrivingType DEF Sinks
  <2>5. received' \in [Leaves -> Seq([char : Chars, via : Sinks])]
    <3>1. CASE UNCHANGED received
      BY <3>1
    <3>2. CASE /\ members[next[a]] \in Leaves
               /\ received' = [received EXCEPT ![members[next[a]]] =
                                 @ \o Arriving(Head(job[a]), Collection)]
      BY <2>4, <3>2, ReceivedType
    <3> QED
      BY <2>1, <3>1, <3>2
  <2> QED
    BY <2>1, <2>2, <2>5 DEF stream
<1>5. CASE HandedOn(a)
  <2>1. job[a] # <<>>
    BY <1>5, SizeAssumption DEF HandedOn, CollLocking
  <2>2. /\ next' \in [Actors -> 0 .. MaxNames + 1] /\ job' \in [Actors -> Seq(Seq(Chars))]
    BY <1>1, <1>5, <2>1, SizeAssumption DEF HandedOn
  <2> QED
    BY <1>5, <2>2 DEF HandedOn, stream
<1>6. CASE End(a)
  <2>1. on[a] \in Streams /\ (a = Manager => new # None)
    BY <1>6 DEF End, Idle, Locking
  <2>2. sink' \in [Streams -> Sinks] /\ new' \in Sinks \cup {None}
    BY <1>6, <2>1 DEF End
  <2>3. lock' \in [Streams -> Actors \cup {None}] /\ on' \in [Actors -> Streams \cup {None}]
    BY <1>6, <2>1 DEF End
  <2> QED
    BY <1>6, <2>2, <2>3 DEF End, coll
<1> QED
  BY <1>2, <1>3, <1>4, <1>5, <1>6 DEF Step
-----------------------------------------------------------------------------
(***************************************************************************)
(* The mutexes.                                                            *)
(***************************************************************************)
\* Names and numbers that differ.
LEMMA Distinct ==
  /\ Streams \subseteq Actors /\ Manager \in Actors /\ Manager \notin Streams
  /\ None \notin Actors /\ None \notin Streams /\ None \notin Sinks /\ None \notin Leaves
  /\ Collection \in Sinks /\ Collection \notin Leaves /\ Leaves \subseteq Sinks
  /\ 0 \notin Names /\ MaxNames + 1 # 0
BY DistinctAssumption, SizeAssumption DEF Actors, Sinks, Names

\* A member function is entered by the writer or the manager.
LEMMA BeginLocks ==
  ASSUME IInv, NEW s \in Streams, NEW a \in {s, Manager}, NEW chunks, Begin(a, s, chunks),
         UNCHANGED <<sink, coll>>, closed' \in {closed, closed \cup {s}},
         a = Manager => new' # None, a # Manager => new' = new
  PROVE  Locking' /\ CollLocking'
<1> USE DEF IInv, TypeOK
<1>1. a \in Actors
  BY Distinct
<1>2. /\ on[a] = None /\ lock[s] = None
      /\ lock' = [lock EXCEPT ![s] = a] /\ on' = [on EXCEPT ![a] = s]
      /\ job' = [job EXCEPT ![a] = chunks] /\ buf' = [buf EXCEPT ![s] = <<>>]
      /\ members' = members /\ since' = since /\ collLock' = collLock /\ next' = next
  BY DEF Begin, Idle, Free, coll
<1>3. \A b \in Actors : on[b] # s
  BY <1>2, Distinct DEF Locking
<1>a. /\ \A r \in Streams : lock'[r] = IF r = s THEN a ELSE lock[r]
      /\ \A b \in Actors : on'[b] = IF b = a THEN s ELSE on[b]
      /\ \A b \in Actors : b # a => job'[b] = job[b]
  BY <1>1, <1>2
<1>b. /\ \A r \in Streams, b \in Actors : lock[r] = b <=> on[b] = r
      /\ \A b \in Streams : on[b] \in {b, None}
      /\ \A b \in Actors : on[b] = None => job[b] = <<>> /\ next[b] = 0
  BY DEF Locking
<1>4. \A r \in Streams, b \in Actors : lock'[r] = b <=> on'[b] = r
  <2>1. s \in Streams /\ None \notin Actors /\ None \notin Streams
    BY Distinct
  <2> QED
    BY ONLY <1>1, <1>2, <1>3, <1>a, <1>b, <2>1
<1>5. \A b \in Streams : on'[b] \in {b, None}
  <2>1. (a = s \/ a \notin Streams) /\ Streams \subseteq Actors
    BY Distinct
  <2> QED
    BY ONLY <1>a, <1>b, <2>1
<1>6. \A b \in Actors : on'[b] = None => job'[b] = <<>> /\ next'[b] = 0
  BY <1>2, <1>a, <1>b, Distinct
<1>7. \A b \in Actors : on'[b] # None => buf'[on'[b]] = <<>>
  BY <1>1, <1>2, Distinct DEF Locking
<1>8. on'[Manager] # None => new' # None
  BY <1>1, <1>2, Distinct DEF Locking
<1>9. \A r \in closed' : buf'[r] = <<>>
  BY <1>2 DEF Locking
<1>10. Locking'
  BY <1>4, <1>5, <1>6, <1>7, <1>8, <1>9 DEF Locking
<1>11. next[a] = 0
  BY <1>1, <1>2 DEF Locking
<1>12. CollLocking'
  BY <1>1, <1>2, <1>11 DEF CollLocking
<1> QED
  BY <1>10, <1>12

\* No call of a client confuses the mutexes.
LEMMA CallLocks ==
  ASSUME IInv, Call
  PROVE  Locking' /\ CollLocking'
<1> USE DEF IInv, TypeOK
<1>1. ASSUME NEW s \in Streams, Put(s) PROVE Locking' /\ CollLocking'
  <2>c. PICK c : c = <<s, sent[s] + 1>>
    OBVIOUS
  <2>1. CASE Full(s)
    <3>1. Begin(s, s, <<buf[s], <<c>>>>) /\ UNCHANGED <<sink, closed, new, coll>>
      BY <1>1, <2>1, <2>c DEF Put, Overflow
    <3> QED
      BY <3>1, BeginLocks, Distinct
  <2>2. CASE ~ Full(s)
    <3>1. /\ buf' = [buf EXCEPT ![s] = Append(@, c)] /\ lock[s] = None /\ s \notin closed
          /\ UNCHANGED <<lock, on, job, sink, closed, new>>
          /\ UNCHANGED <<members, collLock, next>>
      BY <1>1, <2>2, <2>c DEF Put, Serialised, coll
    <3>2. \A b \in Actors : on[b] # s
      BY <3>1, Distinct DEF Locking
    <3>3. \A r \in Streams : r # s => buf'[r] = buf[r]
      BY <3>1
    <3>4. Locking'
      BY <3>1, <3>2, <3>3 DEF Locking
    <3>5. CollLocking'
      BY <3>1 DEF CollLocking
    <3> QED
      BY <3>4, <3>5
  <2> QED
    BY <2>1, <2>2
<1>2. ASSUME NEW s \in Streams, Sync(s) PROVE Locking' /\ CollLocking'
  BY <1>2, BeginLocks, Distinct DEF Sync
<1>3. ASSUME NEW s \in Streams, Destroy(s) PROVE Locking' /\ CollLocking'
  BY <1>3, BeginLocks, Distinct DEF Destroy
<1>4. ASSUME NEW s \in Streams, NEW k \in Sinks, SetSink(s, k) PROVE Locking' /\ CollLocking'
  <2>1. Begin(Manager, s, Buffered(s)) /\ UNCHANGED <<sink, closed, coll>> /\ new' = k
    BY <1>4 DEF SetSink
  <2> QED
    BY <2>1, BeginLocks, Distinct
<1>5. ASSUME NEW n \in Names, NEW k \in Leaves, PutSink(n, k) PROVE Locking' /\ CollLocking'
  <2>1. Locking'
    BY <1>5 DEF PutSink, Locking
  <2>2. /\ members' = [members EXCEPT ![n] = k] /\ \A m \in Names : members[m] # k
        /\ UNCHANGED <<collLock, next, on, job, sink>>
    BY <1>5 DEF PutSink
  <2>3. CollLocking'
    BY <2>2 DEF CollLocking
  <2> QED
    BY <2>1, <2>3
<1>6. ASSUME NEW n \in Names, RemoveSink(n) PROVE Locking' /\ CollLocking'
  <2>1. Locking'
    BY <1>6 DEF RemoveSink, Locking
  <2>2. /\ members' = [members EXCEPT ![n] = None]
        /\ UNCHANGED <<collLock, next, on, job, sink>>
    BY <1>6 DEF RemoveSink
  <2>3. CollLocking'
    BY <2>2 DEF CollLocking
  <2> QED
    BY <2>1, <2>3
<1> QED
  BY <1>1, <1>2, <1>3, <1>4, <1>5, <1>6 DEF Call

\* No step inside a call does.
LEMMA StepLocks ==
  ASSUME IInv, NEW a \in Actors, Step(a)
  PROVE  Locking' /\ CollLocking'
<1> USE DEF IInv, TypeOK
<1>1. CASE WriteLeaf(a)
  <2>1. PICK k \in Leaves :
          /\ on[a] # None /\ job[a] # <<>> /\ sink[on[a]] = k
          /\ job' = [job EXCEPT ![a] = Tail(@)]
          /\ UNCHANGED <<stream, on, new, members, since, collLock, next, logged>>
    BY <1>1 DEF WriteLeaf, Writing, Idle, Target
  <2>2. next[a] = 0
    BY <2>1, Distinct DEF CollLocking
  <2>3. Locking'
    <3>1. Locking /\ \A b \in Actors : on[b] = None => job'[b] = <<>>
      <4>1. /\ job[a] # <<>> /\ \A b \in Actors : b # a => job'[b] = job[b]
        BY <2>1
      <4>2. Locking
        OBVIOUS
      <4> QED
        BY ONLY <4>1, <4>2 DEF Locking
    <3>2. /\ lock' = lock /\ on' = on /\ next' = next /\ buf' = buf
          /\ new' = new /\ closed' = closed
      BY <2>1 DEF stream
    <3> QED
      BY ONLY <3>1, <3>2 DEF Locking
  <2>4. CollLocking'
    BY <2>1, <2>2 DEF CollLocking, stream
  <2> QED
    BY <2>3, <2>4
<1>2. CASE WriteCollection(a)
  <2>1. /\ on[a] # None /\ job[a] # <<>> /\ sink[on[a]] = Collection
        /\ collLock = None /\ collLock' = a /\ next' = [next EXCEPT ![a] = 1]
        /\ UNCHANGED <<stream, on, job, new, members, since, received>>
    BY <1>2 DEF WriteCollection, Writing, Idle, Target, CollFree
  <2>2. \A b \in Actors : next[b] = 0
    BY <2>1, Distinct DEF CollLocking
  <2>3. Locking'
    BY <2>1 DEF Locking, stream
  <2>4. CollLocking'
    BY <2>1, <2>2 DEF CollLocking, stream
  <2> QED
    BY <2>3, <2>4
<1>3. CASE HandOn(a)
  <2>1. /\ next[a] \in Names /\ next' = [next EXCEPT ![a] = @ + 1]
        /\ UNCHANGED <<stream, on, job, new, members, since, collLock, logged>>
    BY <1>3 DEF HandOn
  <2>2. next[a] # 0 /\ next'[a] # 0
    BY <2>1, SizeAssumption DEF Names
  <2>3. Locking'
    BY <2>1, <2>2 DEF Locking, stream
  <2>4. CollLocking'
    BY <2>1, <2>2 DEF CollLocking, stream
  <2> QED
    BY <2>3, <2>4
<1>4. CASE HandedOn(a)
  <2>1. /\ next[a] = MaxNames + 1 /\ collLock' = None /\ next' = [next EXCEPT ![a] = 0]
        /\ job' = [job EXCEPT ![a] = Tail(@)]
        /\ UNCHANGED <<stream, on, new, members, since, logged, received>>
    BY <1>4 DEF HandedOn
  <2>2. collLock = a /\ next[a] # 0 /\ on[a] # None
    BY <2>1, Distinct DEF CollLocking
  <2>3. \A b \in Actors : b # a => next[b] = 0
    BY <2>2 DEF CollLocking
  <2>4. Locking'
    BY <2>1, <2>2 DEF Locking, stream
  <2>5. CollLocking'
    BY <2>1, <2>3, Distinct DEF CollLocking, stream
  <2> QED
    BY <2>4, <2>5
<1>5. CASE End(a)
  <2>1. /\ on[a] # None /\ job[a] = <<>>
        /\ lock' = [lock EXCEPT ![on[a]] = None] /\ on' = [on EXCEPT ![a] = None]
        /\ UNCHANGED <<buf, sent, to, closed, changes, job, coll>>
        /\ a # Manager => UNCHANGED <<sink, new>>
        /\ a = Manager => sink' = [sink EXCEPT ![on[a]] = new]
    BY <1>5 DEF End, Idle
  <2>2. on[a] \in Streams /\ next[a] = 0
    BY <2>1 DEF CollLocking
  <2>3. \A b \in Actors : on[b] = on[a] => b = a
    BY <2>2 DEF Locking
  <2>4. Locking'
    <3>1. \A s \in Streams, b \in Actors : lock'[s] = b <=> on'[b] = s
      <4>1. \A b \in Actors : lock[on[a]] = b <=> b = a
        BY <2>1, <2>2, <2>3 DEF Locking
      <4>2. \A s \in Streams : lock'[s] = IF s = on[a] THEN None ELSE lock[s]
        BY <2>1, <2>2
      <4>3. \A b \in Actors : on'[b] = IF b = a THEN None ELSE on[b]
        BY <2>1
      <4>4. \A s \in Streams, b \in Actors : lock[s] = b <=> on[b] = s
        BY DEF Locking
      <4> QED
        BY ONLY <2>2, <2>3, <4>1, <4>2, <4>3, <4>4, Distinct
    <3>2. \A b \in Streams : on'[b] \in {b, None}
      BY <2>1, Distinct DEF Locking
    <3>3. \A b \in Actors : on'[b] = None => job'[b] = <<>> /\ next'[b] = 0
      BY <2>1, <2>2 DEF Locking, coll
    <3>4. \A b \in Actors : on'[b] # None => buf'[on'[b]] = <<>>
      BY <2>1 DEF Locking
    <3>5. on'[Manager] # None => new' # None
      BY <2>1, Distinct DEF Locking
    <3>6. \A s \in closed' : buf'[s] = <<>>
      BY <2>1 DEF Locking
    <3> QED
      BY <3>1, <3>2, <3>3, <3>4, <3>5, <3>6 DEF Locking
  <2>5. CollLocking'
    <3>1. \A b \in Actors : next[b] # 0 => on'[b] = on[b] /\ on[b] # on[a] /\ on[b] \in Streams
      BY <2>1, <2>2, <2>3 DEF CollLocking
    <3>2. \A b \in Actors : next[b] # 0 => sink'[on'[b]] = Collection
      BY <2>1, <3>1, SMTT(30) DEF CollLocking
    <3> QED
      BY <2>1, <3>1, <3>2 DEF CollLocking, coll
  <2> QED
    BY <2>4, <2>5
<1> QED
  BY <1>1, <1>2, <1>3, <1>4, <1>5 DEF Step
-----------------------------------------------------------------------------
(***************************************************************************)
(* The events of a stream's life, without the bounds of the model.         *)
(***************************************************************************)
\* A member function is entered that is to write what is buffered.
Enters(s, a) ==
  /\ on[a] = None /\ lock[s] = None
  /\ on' = [on EXCEPT ![a] = s] /\ buf' = [buf EXCEPT ![s] = <<>>]
  /\ \/ job' = [job EXCEPT ![a] = <<buf[s]>>]
     \/ buf[s] = <<>> /\ job' = [job EXCEPT ![a] = <<>>]
  /\ closed' \in {closed, closed \cup {s}}
  /\ sink' = sink /\ sent' = sent /\ to' = to
  /\ members' = members /\ since' = since /\ collLock' = collLock /\ next' = next
  /\ logged' = logged /\ received' = received

\* A character is put into the buffer.
Buffers(s) ==
  /\ lock[s] = None /\ s \notin closed
  /\ buf' = [buf EXCEPT ![s] = Append(@, <<s, sent[s] + 1>>)]
  /\ sent' = [sent EXCEPT ![s] = @ + 1] /\ to' = [to EXCEPT ![s] = Append(@, sink[s])]
  /\ on' = on /\ job' = job /\ closed' = closed /\ sink' = sink
  /\ members' = members /\ since' = since /\ collLock' = collLock /\ next' = next
  /\ logged' = logged /\ received' = received

\* A character does not fit: overflow() is entered.
Overflows(s) ==
  /\ on[s] = None /\ lock[s] = None /\ s \notin closed
  /\ on' = [on EXCEPT ![s] = s] /\ buf' = [buf EXCEPT ![s] = <<>>]
  /\ job' = [job EXCEPT ![s] = <<buf[s], <<<<s, sent[s] + 1>>>>>>]
  /\ sent' = [sent EXCEPT ![s] = @ + 1] /\ to' = [to EXCEPT ![s] = Append(@, sink[s])]
  /\ closed' = closed /\ sink' = sink
  /\ members' = members /\ since' = since /\ collLock' = collLock /\ next' = next
  /\ logged' = logged /\ received' = received

\* The names of the collection change between two writes.
Registers ==
  /\ collLock = None
  /\ \E n \in Names : \/ \E k \in Leaves : /\ \A m \in Names : members[m] # k
                                           /\ members' = [members EXCEPT ![n] = k]
                                           /\ since' = [since EXCEPT ![n] = Len(logged)]
                      \/ members' = [members EXCEPT ![n] = None] /\ since' = since
  /\ buf' = buf /\ on' = on /\ job' = job /\ sent' = sent /\ to' = to /\ closed' = closed
  /\ sink' = sink /\ collLock' = collLock /\ next' = next /\ logged' = logged
  /\ received' = received

\* Every call is one of these.
LEMMA Calls ==
  ASSUME Call
  PROVE  \/ \E s \in Streams, a \in Actors : a \in {s, Manager} /\ Enters(s, a)
         \/ \E s \in Streams : Buffers(s) \/ Overflows(s)
         \/ Registers
<1>1. ASSUME NEW s \in Streams, Put(s) PROVE Buffers(s) \/ Overflows(s)
  <2>1. CASE Full(s)
    BY <1>1, <2>1 DEF Put, Overflow, Begin, Serialised, Idle, Free, Overflows, coll
  <2>2. CASE ~ Full(s)
    BY <1>1, <2>2 DEF Put, Serialised, Buffers, coll
  <2> QED
    BY <2>1, <2>2
<1>2. ASSUME NEW s \in Streams, Sync(s) PROVE Enters(s, s)
  BY <1>2 DEF Sync, Begin, Idle, Free, Enters, coll
<1>3. ASSUME NEW s \in Streams, Destroy(s) PROVE Enters(s, s)
  BY <1>3 DEF Destroy, Buffered, Begin, Idle, Free, Enters, coll
<1>4. ASSUME NEW s \in Streams, NEW k \in Sinks, SetSink(s, k) PROVE Enters(s, Manager)
  BY <1>4 DEF SetSink, Buffered, Begin, Idle, Free, Enters, coll
<1>5. ASSUME NEW n \in Names, NEW k \in Leaves, PutSink(n, k) PROVE Registers
  BY <1>5 DEF PutSink, CollFree, Registers
<1>6. ASSUME NEW n \in Names, RemoveSink(n) PROVE Registers
  BY <1>6 DEF RemoveSink, CollFree, Registers
<1> QED
  BY <1>1, <1>2, <1>3, <1>4, <1>5, <1>6, Distinct DEF Call

\* The character of a record is one of the characters.
LEMMA CharTypes ==
  ASSUME IInv
  PROVE  /\ \A k \in Leaves : \A r \in 1 .. Len(received[k]) :
              /\ received[k][r] = [char |-> received[k][r].char, via |-> received[k][r].via]
              /\ received[k][r].char \in Chars /\ received[k][r].char[1] \in Streams
              /\ received[k][r].char[2] \in Nat
              /\ received[k][r].char = <<received[k][r].char[1], received[k][r].char[2]>>
         /\ \A s \in Streams : \A i \in 1 .. Len(buf[s]) :
              /\ buf[s][i] \in Chars /\ buf[s][i] = <<buf[s][i][1], buf[s][i][2]>>
              /\ buf[s][i][2] \in Nat
         /\ \A a \in Actors : \A i \in 1 .. Len(job[a]) :
              /\ job[a][i] \in Seq(Chars)
              /\ \A x \in 1 .. Len(job[a][i]) :
                   /\ job[a][i][x] \in Chars /\ job[a][i][x] = <<job[a][i][x][1], job[a][i][x][2]>>
                   /\ job[a][i][x][2] \in Nat
<1>1. \A c \in Chars : c[1] \in Streams /\ c[2] \in Nat /\ c = <<c[1], c[2]>>
  BY DEF Chars
<1>2. ASSUME NEW k \in Leaves, NEW r \in 1 .. Len(received[k])
      PROVE  /\ received[k][r] = [char |-> received[k][r].char, via |-> received[k][r].via]
             /\ received[k][r].char \in Chars
  <2>R. PICK R : R = [char : Chars, via : Sinks]
    OBVIOUS
  <2>1. received[k] \in Seq(R)
    BY <2>R DEF IInv, TypeOK
  <2>2. received[k][r] \in R
    BY <2>1
  <2> QED
    BY <2>2, <2>R
<1>3. ASSUME NEW s \in Streams, NEW i \in 1 .. Len(buf[s]) PROVE buf[s][i] \in Chars
  <2>1. buf[s] \in Seq(Chars)
    BY DEF IInv, TypeOK
  <2> QED
    BY <2>1
<1>4. ASSUME NEW a \in Actors, NEW i \in 1 .. Len(job[a])
      PROVE  job[a][i] \in Seq(Chars) /\ \A x \in 1 .. Len(job[a][i]) : job[a][i][x] \in Chars
  <2>1. job[a] \in Seq(Seq(Chars))
    BY DEF IInv, TypeOK
  <2>2. job[a][i] \in Seq(Chars)
    BY <2>1
  <2> QED
    BY <2>2
<1> QED
  BY <1>1, <1>2, <1>3, <1>4

\* Who has something to write is in a member function of a stream.
LEMMA Working ==
  ASSUME IInv, NEW a \in Actors, NEW i \in 1 .. Len(job[a])
  PROVE  on[a] \in Streams
<1>1. job[a] # <<>>
  OBVIOUS
<1> QED
  BY <1>1 DEF IInv, TypeOK, Locking

\* What the properties say of the characters of the streams.
Characters == InSequence /\ ForThisSink /\ NothingLost /\ OnceInOrder /\ Before

\* A step in which no leaf gets anything keeps the order of what it got.
LEMMA SameOrder ==
  ASSUME OnceInOrder, received' = received
  PROVE  OnceInOrder'
<1>1. ASSUME NEW k \in Leaves, NEW i \in 1 .. Len(received'[k]), NEW j \in 1 .. Len(received'[k]),
             i < j, received'[k][i].char[1] = received'[k][j].char[1]
      PROVE  received'[k][i].char[2] < received'[k][j].char[2]
  BY <1>1 DEF OnceInOrder
<1> QED
  BY ONLY <1>1 DEF OnceInOrder

\* The characters of a list of lists.
LEMMA OneList ==
  ASSUME NEW b, NEW jobs, jobs = <<b>> \/ (b = <<>> /\ jobs = <<>>)
  PROVE  /\ \A i \in 1 .. Len(jobs) : i = 1 /\ jobs[i] = b
         /\ \A c : Within(c, b) <=> \E i \in 1 .. Len(jobs) : Within(c, jobs[i])
<1>1. CASE jobs = <<b>>
  <2>1. Len(jobs) = 1 /\ jobs[1] = b
    BY <1>1
  <2> QED
    BY <2>1
<1>2. CASE b = <<>> /\ jobs = <<>>
  <2>1. Len(jobs) = 0 /\ Len(b) = 0
    BY <1>2
  <2> QED
    BY <2>1 DEF Within
<1> QED
  BY <1>1, <1>2

\* What the calls on a stream have in common: nobody is in a member function of it,
\* what is buffered stays buffered or goes to work, and a new character may join it.
Gathers(s) ==
  /\ \A b \in Actors : on[b] # s /\ (on'[b] = s => on[b] = None /\ next[b] = 0)
  /\ \A b \in Actors : on'[b] # s => on'[b] = on[b] /\ job'[b] = job[b]
  /\ \A r \in Streams : r # s => /\ buf'[r] = buf[r] /\ sent'[r] = sent[r] /\ to'[r] = to[r]
                                 /\ r \in closed' => r \in closed
  /\ s \in closed' => buf'[s] = <<>>
  /\ sent'[s] \in {sent[s], sent[s] + 1}
  /\ \A n \in 1 .. sent'[s] : to'[s][n] = IF n <= sent[s] THEN to[s][n] ELSE sink[s]
  /\ \A n \in Nat : Within(<<s, n>>, buf'[s]) \/ InWork(s, <<s, n>>)' <=>
                      Within(<<s, n>>, buf[s]) \/ (n = sent[s] + 1 /\ sent'[s] = n)
  /\ sink' = sink /\ members' = members /\ since' = since /\ collLock' = collLock
  /\ next' = next /\ logged' = logged /\ received' = received

\* Calls on a stream lose, double and overtake no character.
LEMMA GathersCharacters ==
  ASSUME IInv, TypeOK', InSequence', NEW s \in Streams, Gathers(s)
  PROVE  Characters'
<1>1. /\ \A b \in Actors : on[b] # s /\ (on'[b] = s => on[b] = None /\ next[b] = 0)
      /\ \A b \in Actors : on'[b] # s => on'[b] = on[b] /\ job'[b] = job[b]
      /\ \A r \in Streams : r # s => /\ buf'[r] = buf[r] /\ sent'[r] = sent[r] /\ to'[r] = to[r]
                                     /\ r \in closed' => r \in closed
      /\ s \in closed' => buf'[s] = <<>>
  BY DEF Gathers
<1>2. /\ sent[s] \in Nat /\ sent'[s] \in {sent[s], sent[s] + 1}
      /\ \A n \in 1 .. sent'[s] : to'[s][n] = IF n <= sent[s] THEN to[s][n] ELSE sink[s]
  BY DEF Gathers, IInv, TypeOK
<1>3. \A n \in Nat : Within(<<s, n>>, buf'[s]) \/ InWork(s, <<s, n>>)' <=>
                       Within(<<s, n>>, buf[s]) \/ (n = sent[s] + 1 /\ sent'[s] = n)
  BY DEF Gathers
<1>4. /\ sink' = sink /\ members' = members /\ since' = since /\ collLock' = collLock
      /\ next' = next /\ logged' = logged /\ received' = received
  BY DEF Gathers
<1>5. ASSUME NEW r \in Streams, r # s, NEW c
      PROVE  /\ Within(c, buf'[r]) <=> Within(c, buf[r])
             /\ InWork(r, c)' <=> InWork(r, c)
  <2>1. Within(c, buf'[r]) <=> Within(c, buf[r])
    BY <1>1, <1>5 DEF Within
  <2>2. \A b \in Actors : (on'[b] = r <=> on[b] = r) /\ (on[b] = r => job'[b] = job[b])
    BY <1>1, <1>5, Distinct
  <2>3. InWork(r, c)' <=> InWork(r, c)
    <3>1. InWork(r, c) <=>
           \E b \in Actors : on[b] = r /\ \E i \in 1 .. Len(job[b]) : Within(c, job[b][i])
      BY DEF InWork
    <3>2. InWork(r, c)' <=>
           \E b \in Actors : on'[b] = r /\ \E i \in 1 .. Len(job'[b]) : Within(c, job'[b][i])
      BY DEF InWork, Within
    <3> QED
      BY <2>2, <3>1, <3>2
  <2> QED
    BY <2>1, <2>3
<1>6. \A c : ~ InWork(s, c)
  BY <1>1 DEF InWork
<1>7. \A k, c : Given(k, c)' <=> Given(k, c)
  BY <1>4 DEF Given, Within
<1>8. ForThisSink'
  <2>1. ASSUME NEW r \in Streams, NEW n \in 1 .. sent'[r],
               Within(<<r, n>>, buf'[r]) \/ InWork(r, <<r, n>>)'
        PROVE  to'[r][n] = sink'[r]
    <3>1. r = s \/ r # s
      OBVIOUS
    <3>2. CASE r # s
      BY <1>1, <1>4, <1>5, <2>1, <3>2 DEF IInv, ForThisSink
    <3>3. CASE r = s
      <4>1. n \in Nat
        BY <1>2, <3>3
      <4>2. Within(<<s, n>>, buf[s]) \/ n > sent[s]
        BY <1>2, <1>3, <2>1, <3>3, <4>1
      <4>3. n <= sent[s] => to[s][n] = sink[s]
        BY <1>2, <4>1, <4>2, <3>3 DEF IInv, ForThisSink
      <4> QED
        BY <1>2, <1>4, <3>3, <4>3
    <3> QED
      BY <3>2, <3>3
  <2>2. ASSUME NEW b \in Actors, next'[b] # 0, NEW x \in 1 .. Len(job'[b][1])
        PROVE  Within(job'[b][1][x], logged')
    <3>1. job'[b] = job[b] /\ next'[b] = next[b] /\ logged' = logged
      BY <1>1, <1>4, <2>2
    <3> QED
      BY <2>2, <3>1 DEF IInv, ForThisSink
  <2> QED
    BY <2>1, <2>2 DEF ForThisSink, Within
<1>9. NothingLost'
  <2>1. ASSUME NEW r \in Streams, NEW n \in 1 .. sent'[r]
        PROVE  \/ Within(<<r, n>>, buf'[r]) /\ r \notin closed'
               \/ InWork(r, <<r, n>>)'
               \/ \E k : k = to'[r][n] /\ Given(k, <<r, n>>)
    <3>1. CASE r # s
      <4>1. n \in 1 .. sent[r]
        BY <1>1, <3>1
      <4>2. \/ Within(<<r, n>>, buf[r]) /\ r \notin closed
            \/ InWork(r, <<r, n>>)
            \/ Given(to[r][n], <<r, n>>)
        BY <4>1 DEF IInv, NothingLost
      <4>3. Within(<<r, n>>, buf'[r]) <=> Within(<<r, n>>, buf[r])
        BY <1>5, <3>1
      <4>4. InWork(r, <<r, n>>)' <=> InWork(r, <<r, n>>)
        BY <1>5, <3>1
      <4>5. to'[r][n] = to[r][n]
        BY <1>1, <3>1
      <4> QED
        BY <1>1, <3>1, <4>2, <4>3, <4>4, <4>5
    <3>2. CASE r = s
      <4>1. n \in Nat
        BY <1>2, <3>2
      <4>2. Within(<<s, n>>, buf'[s]) => s \notin closed'
        BY <1>1 DEF Within
      <4>3. CASE n > sent[s]
        BY <1>2, <1>3, <3>2, <4>1, <4>2, <4>3
      <4>4. CASE n <= sent[s]
        <5>1. Within(<<s, n>>, buf[s]) \/ Given(to[s][n], <<s, n>>)
          BY <1>2, <1>6, <3>2, <4>1, <4>4 DEF IInv, NothingLost
        <5>2. to'[s][n] = to[s][n]
          BY <1>2, <3>2, <4>4
        <5> QED
          BY <1>3, <3>2, <4>1, <4>2, <5>1, <5>2
      <4> QED
        BY <1>2, <4>1, <4>3, <4>4
    <3> QED
      BY <3>1, <3>2
  <2>2. ASSUME NEW r \in Streams, NEW n \in 1 .. sent'[r], NEW k, k = to'[r][n], Given(k, <<r, n>>)
        PROVE  Given(to[r][n], <<r, n>>)'
    <3>1. Given(k, <<r, n>>)'
      BY <1>7, <2>2
    <3> QED
      BY <2>2, <3>1 DEF Given, Within
  <2>3. ASSUME NEW r \in Streams, NEW n \in 1 .. sent'[r]
        PROVE  \/ Within(<<r, n>>, buf'[r]) /\ r \notin closed'
               \/ InWork(r, <<r, n>>)'
               \/ Given(to[r][n], <<r, n>>)'
    BY <2>1, <2>2
  <2> QED
    BY <2>3 DEF NothingLost, Within, Given
<1>10. OnceInOrder'
  BY <1>4, SameOrder DEF IInv
<1>11. Before'
  <2>1. \A k \in Leaves : \A r \in 1 .. Len(received[k]) :
          /\ received[k][r].char[1] \in Streams /\ received[k][r].char[2] \in Nat
          /\ received[k][r].char[2] <= sent[received[k][r].char[1]]
          /\ \A i \in 1 .. Len(buf[received[k][r].char[1]]) :
               received[k][r].char[2] < buf[received[k][r].char[1]][i][2]
    BY CharTypes DEF IInv, Before
  <2>2. ASSUME NEW k \in Leaves, NEW r \in 1 .. Len(received[k]),
               received[k][r].char[1] = s, NEW n \in Nat,
               Within(<<s, n>>, buf'[s]) \/ InWork(s, <<s, n>>)'
        PROVE  received[k][r].char[2] < n
    <3>1. CASE Within(<<s, n>>, buf[s])
      <4>1. PICK i \in 1 .. Len(buf[s]) : buf[s][i] = <<s, n>>
        BY <3>1 DEF Within
      <4>2. received[k][r].char[2] < buf[s][i][2]
        BY <2>1, <2>2
      <4> QED
        BY <4>1, <4>2
    <3>2. CASE n = sent[s] + 1
      BY <1>2, <2>1, <2>2, <3>2, SMTT(20)
    <3> QED
      BY <1>3, <2>2, <3>1, <3>2
  <2>3. /\ \A r \in Streams : \A i \in 1 .. Len(buf'[r]) :
             buf'[r][i] = <<r, buf'[r][i][2]>> /\ buf'[r][i][2] \in Nat
        /\ \A b \in Actors : \A j \in 1 .. Len(job'[b]) : \A x \in 1 .. Len(job'[b][j]) :
             job'[b][j][x] = <<on'[b], job'[b][j][x][2]>> /\ job'[b][j][x][2] \in Nat
    <3>1. \A c \in Chars : c[1] \in Streams /\ c[2] \in Nat /\ c = <<c[1], c[2]>>
      BY DEF Chars
    <3>2. ASSUME NEW r \in Streams, NEW i \in 1 .. Len(buf'[r]) PROVE buf'[r][i] \in Chars
      BY DEF TypeOK
    <3>3. ASSUME NEW b \in Actors, NEW j \in 1 .. Len(job'[b]), NEW x \in 1 .. Len(job'[b][j])
          PROVE  job'[b][j][x] \in Chars
      <4>1. job'[b][j] \in Seq(Chars)
        BY DEF TypeOK
      <4> QED
        BY <4>1
    <3> QED
      BY <3>1, <3>2, <3>3 DEF InSequence
  <2>4. ASSUME NEW k \in Leaves, NEW r \in 1 .. Len(received[k])
        PROVE  /\ received[k][r].char[2] <= sent'[received[k][r].char[1]]
               /\ \A i \in 1 .. Len(buf'[received[k][r].char[1]]) :
                    received[k][r].char[2] < buf'[received[k][r].char[1]][i][2]
    <3>1. CASE received[k][r].char[1] = s
      <4>1. ASSUME NEW i \in 1 .. Len(buf'[s])
            PROVE  received[k][r].char[2] < buf'[s][i][2]
        <5>1. Within(<<s, buf'[s][i][2]>>, buf'[s]) /\ buf'[s][i][2] \in Nat
          BY <2>3 DEF Within
        <5> QED
          BY <2>2, <3>1, <5>1
      <4>2. received[k][r].char[2] <= sent[s] /\ received[k][r].char[2] \in Nat
        BY <2>1, <3>1
      <4>3. received[k][r].char[2] <= sent'[s]
        BY <1>2, <4>2, SMTT(20)
      <4> QED
        BY <3>1, <4>1, <4>3
    <3>2. CASE received[k][r].char[1] # s
      <4>1. PICK q : q = received[k][r].char[1]
        OBVIOUS
      <4>2. buf'[q] = buf[q] /\ sent'[q] = sent[q]
        BY <1>1, <2>1, <3>2, <4>1
      <4> QED
        BY <2>1, <4>1, <4>2
    <3> QED
      BY <3>1, <3>2
  <2>5. ASSUME NEW k \in Leaves, NEW b \in Actors, NEW r \in 1 .. Len(received[k]),
               NEW j \in 1 .. Len(job'[b]), NEW x \in 1 .. Len(job'[b][j]),
               received[k][r].char[1] = on'[b]
        PROVE  \/ received[k][r].char[2] < job'[b][j][x][2]
               \/ j = 1 /\ Served(b, k)
    <3>1. CASE on'[b] = s
      <4>1. PICK n \in Nat : n = job'[b][j][x][2] /\ job'[b][j][x] = <<s, n>>
        BY <2>3, <3>1
      <4>2. InWork(s, <<s, n>>)'
        BY <3>1, <4>1 DEF InWork, Within
      <4>3. received[k][r].char[2] < n
        BY <2>2, <2>5, <3>1, <4>2
      <4> QED
        BY <4>1, <4>3
    <3>2. CASE on'[b] # s
      <4>1. on'[b] = on[b] /\ job'[b] = job[b]
        BY <1>1, <3>2
      <4> QED
        BY <2>5, <4>1 DEF IInv, Before
    <3> QED
      BY <3>1, <3>2
  <2>6. ASSUME NEW k \in Leaves, NEW b \in Actors, NEW r \in 1 .. Len(received'[k]),
               NEW j \in 1 .. Len(job'[b]), NEW x \in 1 .. Len(job'[b][j]),
               received'[k][r].char[1] = on'[b]
        PROVE  \/ received'[k][r].char[2] < job'[b][j][x][2]
               \/ j = 1 /\ Served(b, k)'
    <3>1. Served(b, k)' <=> Served(b, k)
      BY <1>4 DEF Served
    <3> QED
      BY <1>4, <2>5, <2>6, <3>1
  <2>7. \A k \in Leaves : \A r \in 1 .. Len(received'[k]) :
             /\ received'[k][r].char[2] <= sent'[received'[k][r].char[1]]
             /\ \A i \in 1 .. Len(buf'[received'[k][r].char[1]]) :
                  received'[k][r].char[2] < buf'[received'[k][r].char[1]][i][2]
    BY <1>4, <2>4
  <2> QED
    BY <2>6, <2>7 DEF Before, Served
<1> QED
  BY <1>8, <1>9, <1>10, <1>11 DEF Characters

\* What is buffered goes to work unchanged.
LEMMA EntersCharacters ==
  ASSUME IInv, TypeOK', NEW s \in Streams, NEW a \in Actors, Enters(s, a)
  PROVE  Characters'
<1>1. /\ on[a] = None /\ lock[s] = None
      /\ on' = [on EXCEPT ![a] = s] /\ buf' = [buf EXCEPT ![s] = <<>>]
      /\ closed' \in {closed, closed \cup {s}}
      /\ sink' = sink /\ sent' = sent /\ to' = to
      /\ members' = members /\ since' = since /\ collLock' = collLock /\ next' = next
      /\ logged' = logged /\ received' = received
  BY DEF Enters
<1>2. \/ job' = [job EXCEPT ![a] = <<buf[s]>>]
      \/ buf[s] = <<>> /\ job' = [job EXCEPT ![a] = <<>>]
  BY DEF Enters
<1>3. /\ \A b \in Actors : on[b] # s
      /\ next[a] = 0 /\ (s \in closed' => buf'[s] = <<>>)
  <2>1. \A b \in Actors : on[b] # s
    BY <1>1, Distinct DEF IInv, Locking
  <2>2. next[a] = 0
    BY <1>1 DEF IInv, Locking
  <2>3. buf'[s] = <<>>
    BY <1>1 DEF IInv, TypeOK
  <2> QED
    BY <2>1, <2>2, <2>3
<1>4. /\ \A b \in Actors : b # a => on'[b] = on[b]
      /\ \A r \in Streams : r # s => buf'[r] = buf[r]
      /\ on'[a] = s /\ buf'[s] = <<>>
  BY <1>1 DEF IInv, TypeOK
<1>5. \A b \in Actors : b # a => job'[b] = job[b]
  BY <1>2 DEF IInv, TypeOK
<1>6. job'[a] = <<buf[s]>> \/ (buf[s] = <<>> /\ job'[a] = <<>>)
  BY <1>2 DEF IInv, TypeOK
<1>7. /\ \A i \in 1 .. Len(job'[a]) : i = 1 /\ job'[a][i] = buf[s]
      /\ \A c : Within(c, buf[s]) <=> \E i \in 1 .. Len(job'[a]) : Within(c, job'[a][i])
  <2>1. PICK b, jobs : b = buf[s] /\ jobs = job'[a]
    OBVIOUS
  <2>2. jobs = <<b>> \/ (b = <<>> /\ jobs = <<>>)
    BY <1>6, <2>1
  <2>3. /\ \A i \in 1 .. Len(jobs) : i = 1 /\ jobs[i] = b
        /\ \A c : Within(c, b) <=> \E i \in 1 .. Len(jobs) : Within(c, jobs[i])
    BY ONLY <2>2, OneList
  <2> QED
    BY <2>1, <2>3
<1>8. InSequence'
  <2>1. /\ \A r \in Streams : \A i \in 1 .. Len(buf[r]) :
             buf[r][i][1] = r /\ buf[r][i][2] <= sent[r]
        /\ \A r \in Streams : \A i, j \in 1 .. Len(buf[r]) :
             i < j => buf[r][i][2] < buf[r][j][2]
    BY DEF IInv, InSequence
  <2>2. Len(buf'[s]) = 0
    BY <1>4
  <2>3. /\ \A r \in Streams : \A i \in 1 .. Len(buf'[r]) :
             buf'[r][i][1] = r /\ buf'[r][i][2] <= sent'[r]
        /\ \A r \in Streams : \A i, j \in 1 .. Len(buf'[r]) :
             i < j => buf'[r][i][2] < buf'[r][j][2]
    BY <1>1, <1>4, <2>1, <2>2
  <2>4. ASSUME NEW b \in Actors, NEW i \in 1 .. Len(job'[b]), NEW x \in 1 .. Len(job'[b][i])
        PROVE  job'[b][i][x][1] = on'[b] /\ job'[b][i][x][2] <= sent'[on'[b]]
    <3>1. CASE b = a
      BY <1>1, <1>4, <1>7, <2>1, <3>1
    <3>2. CASE b # a
      <4>1. on'[b] = on[b] /\ job'[b] = job[b] /\ sent' = sent
        BY <1>1, <1>4, <1>5, <3>2
      <4> QED
        BY <4>1 DEF IInv, InSequence
    <3> QED
      BY <3>1, <3>2
  <2>5. ASSUME NEW b \in Actors, NEW i \in 1 .. Len(job'[b]), NEW j \in 1 .. Len(job'[b]),
               NEW x \in 1 .. Len(job'[b][i]), NEW y \in 1 .. Len(job'[b][j]),
               i < j \/ (i = j /\ x < y)
        PROVE  job'[b][i][x][2] < job'[b][j][y][2]
    <3>1. CASE b = a
      BY <1>7, <2>1, <2>5, <3>1
    <3>2. CASE b # a
      BY <1>5, <2>5, <3>2 DEF IInv, InSequence
    <3> QED
      BY <3>1, <3>2
  <2> QED
    BY <2>3, <2>4, <2>5 DEF InSequence
<1>9. \A c : Within(c, buf'[s]) \/ InWork(s, c)' <=> Within(c, buf[s])
  <2>1. ASSUME NEW c PROVE InWork(s, c)' <=> \E i \in 1 .. Len(job'[a]) : Within(c, job'[a][i])
    <3>1. \A b \in Actors : on'[b] = s <=> b = a
      BY <1>3, <1>4
    <3> QED
      BY <3>1 DEF InWork, Within
  <2>2. \A c : ~ Within(c, buf'[s])
    BY <1>4 DEF Within
  <2> QED
    BY <1>7, <2>1, <2>2
<1>10. Gathers(s)
  <2>1. sent[s] \in Nat
    BY DEF IInv, TypeOK
  <2> QED
    BY <1>1, <1>3, <1>4, <1>5, <1>9, <2>1 DEF Gathers
<1> QED
  BY <1>8, <1>10, GathersCharacters

\* A longer list and a list of two.
LEMMA MoreCharacters ==
  ASSUME NEW q \in Seq(Chars), NEW d \in Chars
  PROVE  /\ \A c : Within(c, Append(q, d)) <=> Within(c, q) \/ c = d
         /\ Len(Append(q, d)) = Len(q) + 1 /\ Append(q, d)[Len(q) + 1] = d
         /\ \A i \in 1 .. Len(q) : Append(q, d)[i] = q[i]
         /\ \A c : (\E i \in 1 .. 2 : Within(c, <<q, <<d>>>>[i])) <=> Within(c, q) \/ c = d
         /\ Len(<<q, <<d>>>>) = 2 /\ <<q, <<d>>>>[1] = q /\ <<q, <<d>>>>[2] = <<d>>
         /\ Len(<<d>>) = 1 /\ <<d>>[1] = d
<1>1. /\ Len(Append(q, d)) = Len(q) + 1 /\ Append(q, d)[Len(q) + 1] = d
      /\ \A i \in 1 .. Len(q) : Append(q, d)[i] = q[i]
      /\ Len(q) \in Nat
  OBVIOUS
<1>2. Len(<<q, <<d>>>>) = 2 /\ <<q, <<d>>>>[1] = q /\ <<q, <<d>>>>[2] = <<d>>
  OBVIOUS
<1>3. Len(<<d>>) = 1 /\ <<d>>[1] = d
  OBVIOUS
<1>4. \A c : Within(c, Append(q, d)) <=> Within(c, q) \/ c = d
  <2>1. ASSUME NEW c, Within(c, Append(q, d)) PROVE Within(c, q) \/ c = d
    <3>1. PICK i \in 1 .. Len(q) + 1 : Append(q, d)[i] = c
      BY <1>1, <2>1 DEF Within
    <3> QED
      BY <1>1, <3>1 DEF Within
  <2>2. ASSUME NEW c, Within(c, q) \/ c = d PROVE Within(c, Append(q, d))
    BY <1>1, <2>2 DEF Within
  <2> QED
    BY <2>1, <2>2
<1>5. \A c : Within(c, <<d>>) <=> c = d
  BY <1>3 DEF Within
<1>6. \A c : (\E i \in 1 .. 2 : Within(c, <<q, <<d>>>>[i])) <=> Within(c, q) \/ c = d
  BY <1>2, <1>5
<1> QED
  BY <1>1, <1>2, <1>3, <1>4, <1>6

\* A step that leaves the buffers and the jobs as they are keeps their order.
LEMMA SameSequence ==
  ASSUME InSequence, buf' = buf, sent' = sent, job' = job, on' = on
  PROVE  InSequence'
<1>1. /\ \A s \in Streams : \A i \in 1 .. Len(buf'[s]) :
           buf'[s][i][1] = s /\ buf'[s][i][2] <= sent'[s]
      /\ \A s \in Streams : \A i, j \in 1 .. Len(buf'[s]) :
           i < j => buf'[s][i][2] < buf'[s][j][2]
  BY DEF InSequence
<1>2. ASSUME NEW a \in Actors, NEW i \in 1 .. Len(job'[a]), NEW x \in 1 .. Len(job'[a][i])
      PROVE  job'[a][i][x][1] = on'[a] /\ job'[a][i][x][2] <= sent'[on'[a]]
  BY DEF InSequence
<1>3. ASSUME NEW a \in Actors, NEW i \in 1 .. Len(job'[a]), NEW j \in 1 .. Len(job'[a]),
             NEW x \in 1 .. Len(job'[a][i]), NEW y \in 1 .. Len(job'[a][j]),
             i < j \/ (i = j /\ x < y)
      PROVE  job'[a][i][x][2] < job'[a][j][y][2]
  BY <1>3 DEF InSequence
<1> QED
  BY ONLY <1>1, <1>2, <1>3 DEF InSequence

\* A character joins what is buffered.
LEMMA BuffersCharacters ==
  ASSUME IInv, TypeOK', NEW s \in Streams, Buffers(s)
  PROVE  Characters'
<1>d. PICK d : d = <<s, sent[s] + 1>>
  OBVIOUS
<1>1. /\ lock[s] = None /\ s \notin closed
      /\ buf' = [buf EXCEPT ![s] = Append(@, d)]
      /\ sent' = [sent EXCEPT ![s] = @ + 1] /\ to' = [to EXCEPT ![s] = Append(@, sink[s])]
      /\ on' = on /\ job' = job /\ closed' = closed /\ sink' = sink
      /\ members' = members /\ since' = since /\ collLock' = collLock /\ next' = next
      /\ logged' = logged /\ received' = received
  BY <1>d DEF Buffers
<1>2. /\ sent[s] \in Nat /\ buf[s] \in Seq(Chars) /\ d \in Chars
      /\ to[s] \in Seq(Sinks) /\ Len(to[s]) = sent[s] /\ sink[s] \in Sinks
  <2>1. /\ sent[s] \in Nat /\ buf[s] \in Seq(Chars)
        /\ to[s] \in Seq(Sinks) /\ Len(to[s]) = sent[s] /\ sink[s] \in Sinks
    BY DEF IInv, TypeOK
  <2>2. d \in Chars
    BY <1>d, <2>1 DEF Chars
  <2> QED
    BY <2>1, <2>2
<1>3. \A b \in Actors : on[b] # s
  BY <1>1, Distinct DEF IInv, Locking
<1>4. /\ \A r \in Streams : r # s => buf'[r] = buf[r] /\ sent'[r] = sent[r] /\ to'[r] = to[r]
      /\ buf'[s] = Append(buf[s], d) /\ sent'[s] = sent[s] + 1 /\ to'[s] = Append(to[s], sink[s])
  BY <1>1 DEF IInv, TypeOK
<1>5. /\ \A c : Within(c, buf'[s]) <=> Within(c, buf[s]) \/ c = d
      /\ Len(buf'[s]) = Len(buf[s]) + 1 /\ buf'[s][Len(buf[s]) + 1] = d
      /\ \A i \in 1 .. Len(buf[s]) : buf'[s][i] = buf[s][i]
  <2>1. PICK q : q = buf[s]
    OBVIOUS
  <2>2. q \in Seq(Chars) /\ d \in Chars
    BY <1>2, <2>1
  <2>3. /\ \A c : Within(c, Append(q, d)) <=> Within(c, q) \/ c = d
        /\ Len(Append(q, d)) = Len(q) + 1 /\ Append(q, d)[Len(q) + 1] = d
        /\ \A i \in 1 .. Len(q) : Append(q, d)[i] = q[i]
    BY ONLY <2>2, MoreCharacters, Zenon
  <2> QED
    BY <1>4, <2>1, <2>3
<1>6. \A n \in 1 .. sent'[s] : to'[s][n] = IF n <= sent[s] THEN to[s][n] ELSE sink[s]
  BY <1>2, <1>4
<1>7. \A n \in Nat : <<s, n>> = d <=> n = sent[s] + 1
  BY <1>d
<1>8. \A c : ~ InWork(s, c)'
  BY <1>1, <1>3 DEF InWork
<1>9. Gathers(s)
  <2>1. \A n \in Nat : Within(<<s, n>>, buf'[s]) \/ InWork(s, <<s, n>>)' <=>
                         Within(<<s, n>>, buf[s]) \/ (n = sent[s] + 1 /\ sent'[s] = n)
    BY <1>4, <1>5, <1>7, <1>8
  <2> QED
    BY <1>1, <1>3, <1>4, <1>6, <2>1 DEF Gathers
<1>10. InSequence'
  <2>1. /\ \A r \in Streams : \A i \in 1 .. Len(buf[r]) :
             buf[r][i][1] = r /\ buf[r][i][2] <= sent[r] /\ buf[r][i][2] \in Nat
        /\ \A r \in Streams : \A i, j \in 1 .. Len(buf[r]) :
             i < j => buf[r][i][2] < buf[r][j][2]
    BY CharTypes DEF IInv, InSequence
  <2>2. Len(buf[s]) \in Nat /\ d[1] = s /\ d[2] = sent[s] + 1
    BY <1>2, <1>d
  <2>3. ASSUME NEW r \in Streams, NEW i \in 1 .. Len(buf'[r])
        PROVE  buf'[r][i][1] = r /\ buf'[r][i][2] <= sent'[r]
    <3>1. CASE r # s
      BY <1>4, <2>1, <3>1
    <3>2. CASE r = s /\ i = Len(buf[s]) + 1
      <4>1. buf'[r][i] = d /\ sent'[r] = sent[s] + 1
        BY <1>4, <1>5, <3>2
      <4> QED
        BY ONLY <1>2, <2>2, <3>2, <4>1
    <3>3. CASE r = s /\ i \in 1 .. Len(buf[s])
      <4>1. buf[s][i][1] = s /\ buf[s][i][2] <= sent[s] /\ buf[s][i][2] \in Nat
        BY <2>1, <3>3
      <4>2. buf'[s][i] = buf[s][i]
        BY <1>5, <3>3
      <4>3. sent[s] \in Nat /\ sent'[s] = sent[s] + 1
        BY <1>2, <1>4
      <4> QED
        BY <3>3, <4>1, <4>2, <4>3
    <3> QED
      BY <1>5, <2>2, <3>1, <3>2, <3>3
  <2>4. ASSUME NEW r \in Streams, NEW i \in 1 .. Len(buf'[r]), NEW j \in 1 .. Len(buf'[r]), i < j
        PROVE  buf'[r][i][2] < buf'[r][j][2]
    <3>1. CASE r # s
      BY <1>4, <2>1, <2>4, <3>1
    <3>2. CASE r = s /\ j = Len(buf[s]) + 1
      <4>1. i \in 1 .. Len(buf[s])
        BY <2>2, <2>4, <3>2
      <4>2. buf[s][i][2] <= sent[s] /\ buf[s][i][2] \in Nat
        BY <2>1, <4>1
      <4>3. buf'[s][i] = buf[s][i] /\ buf'[s][j] = d
        BY <1>5, <3>2, <4>1
      <4>4. sent[s] \in Nat
        BY <1>2
      <4> QED
        BY <2>2, <3>2, <4>2, <4>3, <4>4, SMTT(20)
    <3>3. CASE r = s /\ j \in 1 .. Len(buf[s])
      <4>1. i \in 1 .. Len(buf[s])
        BY <1>5, <2>2, <2>4, <3>3
      <4> QED
        BY <1>5, <2>1, <2>4, <3>3, <4>1
    <3> QED
      BY <1>5, <2>2, <3>1, <3>2, <3>3
  <2>5. ASSUME NEW b \in Actors, NEW i \in 1 .. Len(job[b]), NEW x \in 1 .. Len(job[b][i])
        PROVE  job[b][i][x][1] = on[b] /\ job[b][i][x][2] <= sent'[on[b]]
    <3>1. job[b][i][x][1] = on[b] /\ job[b][i][x][2] <= sent[on[b]]
      BY DEF IInv, InSequence
    <3>2. on[b] \in Streams
      BY Working
    <3>3. sent'[on[b]] = sent[on[b]]
      BY <1>3, <1>4, <3>2
    <3> QED
      BY <3>1, <3>3
  <2>6. ASSUME NEW b \in Actors, NEW i \in 1 .. Len(job'[b]), NEW j \in 1 .. Len(job'[b]),
               NEW x \in 1 .. Len(job'[b][i]), NEW y \in 1 .. Len(job'[b][j]),
               i < j \/ (i = j /\ x < y)
        PROVE  job'[b][i][x][2] < job'[b][j][y][2]
    <3>1. job' = job
      BY <1>1
    <3> QED
      BY <2>6, <3>1 DEF IInv, InSequence
  <2>7. \A b \in Actors : \A i \in 1 .. Len(job'[b]) : \A x \in 1 .. Len(job'[b][i]) :
          job'[b][i][x][1] = on'[b] /\ job'[b][i][x][2] <= sent'[on'[b]]
    BY <1>1, <2>5
  <2> QED
    BY <2>3, <2>4, <2>6, <2>7 DEF InSequence
<1> QED
  BY <1>9, <1>10, GathersCharacters

\* What is buffered goes to work, and with it the character that did not fit.
LEMMA OverflowsCharacters ==
  ASSUME IInv, TypeOK', NEW s \in Streams, Overflows(s)
  PROVE  Characters'
<1>d. PICK d : d = <<s, sent[s] + 1>>
  OBVIOUS
<1>1. /\ on[s] = None /\ lock[s] = None /\ s \notin closed
      /\ on' = [on EXCEPT ![s] = s] /\ buf' = [buf EXCEPT ![s] = <<>>]
      /\ job' = [job EXCEPT ![s] = <<buf[s], <<d>>>>]
      /\ sent' = [sent EXCEPT ![s] = @ + 1] /\ to' = [to EXCEPT ![s] = Append(@, sink[s])]
      /\ closed' = closed /\ sink' = sink
      /\ members' = members /\ since' = since /\ collLock' = collLock /\ next' = next
      /\ logged' = logged /\ received' = received
  BY <1>d DEF Overflows
<1>2. /\ sent[s] \in Nat /\ buf[s] \in Seq(Chars) /\ d \in Chars /\ s \in Actors
      /\ to[s] \in Seq(Sinks) /\ Len(to[s]) = sent[s] /\ sink[s] \in Sinks
  <2>1. /\ sent[s] \in Nat /\ buf[s] \in Seq(Chars)
        /\ to[s] \in Seq(Sinks) /\ Len(to[s]) = sent[s] /\ sink[s] \in Sinks
    BY DEF IInv, TypeOK
  <2>2. d \in Chars
    BY <1>d, <2>1 DEF Chars
  <2> QED
    BY <2>1, <2>2, Distinct
<1>3. \A b \in Actors : on[b] # s
  BY <1>1, Distinct DEF IInv, Locking
<1>4. /\ \A r \in Streams : r # s => buf'[r] = buf[r] /\ sent'[r] = sent[r] /\ to'[r] = to[r]
      /\ buf'[s] = <<>> /\ sent'[s] = sent[s] + 1 /\ to'[s] = Append(to[s], sink[s])
  BY <1>1 DEF IInv, TypeOK
<1>5. /\ \A b \in Actors : b # s => on'[b] = on[b] /\ job'[b] = job[b]
      /\ on'[s] = s /\ job'[s] = <<buf[s], <<d>>>>
  BY <1>1, <1>2 DEF IInv, TypeOK
<1>6. /\ \A c : (\E i \in 1 .. 2 : Within(c, job'[s][i])) <=> Within(c, buf[s]) \/ c = d
      /\ Len(job'[s]) = 2 /\ job'[s][1] = buf[s] /\ job'[s][2] = <<d>>
      /\ Len(<<d>>) = 1 /\ <<d>>[1] = d
  BY <1>2, <1>5, MoreCharacters
<1>7. \A n \in 1 .. sent'[s] : to'[s][n] = IF n <= sent[s] THEN to[s][n] ELSE sink[s]
  BY <1>2, <1>4
<1>8. \A n \in Nat : <<s, n>> = d <=> n = sent[s] + 1
  BY <1>d
<1>9. /\ \A c : InWork(s, c)' <=> Within(c, buf[s]) \/ c = d
      /\ \A c : ~ Within(c, buf'[s])
  <2>1. \A b \in Actors : on'[b] = s <=> b = s
    BY <1>3, <1>5
  <2>2. \A c : InWork(s, c)' <=> \E i \in 1 .. Len(job'[s]) : Within(c, job'[s][i])
    BY <1>2, <2>1 DEF InWork, Within
  <2>3. \A c : ~ Within(c, buf'[s])
    BY <1>4 DEF Within
  <2> QED
    BY <1>6, <2>2, <2>3
<1>10. Gathers(s)
  <2>1. \A n \in Nat : Within(<<s, n>>, buf'[s]) \/ InWork(s, <<s, n>>)' <=>
                         Within(<<s, n>>, buf[s]) \/ (n = sent[s] + 1 /\ sent'[s] = n)
    BY <1>4, <1>8, <1>9
  <2>2. \A b \in Actors : on'[b] = s => on[b] = None /\ next[b] = 0
    BY <1>1, <1>3, <1>5 DEF IInv, Locking
  <2> QED
    BY <1>1, <1>3, <1>4, <1>5, <1>7, <2>1, <2>2 DEF Gathers
<1>11. InSequence'
  <2>1. /\ \A r \in Streams : \A i \in 1 .. Len(buf[r]) :
             buf[r][i][1] = r /\ buf[r][i][2] <= sent[r] /\ buf[r][i][2] \in Nat
        /\ \A r \in Streams : \A i, j \in 1 .. Len(buf[r]) :
             i < j => buf[r][i][2] < buf[r][j][2]
    BY CharTypes DEF IInv, InSequence
  <2>2. d[1] = s /\ d[2] = sent[s] + 1
    BY <1>d
  <2>3. ASSUME NEW r \in Streams
        PROVE  (buf'[r] = buf[r] /\ sent'[r] = sent[r]) \/ Len(buf'[r]) = 0
    BY <1>4
  <2>4. /\ \A r \in Streams : \A i \in 1 .. Len(buf'[r]) :
             buf'[r][i][1] = r /\ buf'[r][i][2] <= sent'[r]
        /\ \A r \in Streams : \A i, j \in 1 .. Len(buf'[r]) :
             i < j => buf'[r][i][2] < buf'[r][j][2]
    BY <2>1, <2>3
  <2>5. ASSUME NEW b \in Actors, NEW i \in 1 .. Len(job'[b]), NEW x \in 1 .. Len(job'[b][i])
        PROVE  job'[b][i][x][1] = on'[b] /\ job'[b][i][x][2] <= sent'[on'[b]]
    <3>1. CASE b = s /\ i = 1
      <4>1. /\ buf[s][x][1] = s /\ buf[s][x][2] <= sent[s] /\ buf[s][x][2] \in Nat
            /\ job'[b][i][x] = buf[s][x]
        BY <1>6, <2>1, <3>1
      <4> QED
        <5>1. on'[b] = s /\ sent'[s] = sent[s] + 1
          BY <1>4, <1>5, <3>1
        <5> QED
          BY ONLY <1>2, <4>1, <5>1
    <3>2. CASE b = s /\ i = 2
      <4>2. job'[b][i] = <<d>>
        BY <1>6, <3>2
      <4>3. x = 1
        BY <1>6, <4>2
      <4>1. x = 1 /\ job'[b][i][x] = d
        BY <1>6, <4>2, <4>3
      <4> QED
        <5>1. on'[b] = s /\ sent'[s] = sent[s] + 1
          BY <1>4, <1>5, <3>2
        <5> QED
          BY ONLY <1>2, <2>2, <4>1, <5>1
    <3>3. CASE b # s
      <4>1. on'[b] = on[b] /\ job'[b] = job[b]
        BY <1>5, <3>3
      <4>2. job[b][i][x][1] = on[b] /\ job[b][i][x][2] <= sent[on[b]]
        BY <4>1 DEF IInv, InSequence
      <4>3. on[b] \in Streams
        BY <4>1, Working
      <4>4. sent'[on[b]] = sent[on[b]]
        BY <1>3, <1>4, <4>3
      <4> QED
        BY <4>1, <4>2, <4>4
    <3> QED
      BY <1>6, <3>1, <3>2, <3>3
  <2>6. ASSUME NEW b \in Actors, NEW i \in 1 .. Len(job'[b]), NEW j \in 1 .. Len(job'[b]),
               NEW x \in 1 .. Len(job'[b][i]), NEW y \in 1 .. Len(job'[b][j]),
               i < j \/ (i = j /\ x < y)
        PROVE  job'[b][i][x][2] < job'[b][j][y][2]
    <3>1. CASE b = s /\ j = 1
      <4>1. i = 1 /\ job'[b][i] = buf[s] /\ job'[b][j] = buf[s] /\ x < y
        BY <1>6, <2>6, <3>1
      <4> QED
        BY <2>1, <4>1
    <3>2. CASE b = s /\ j = 2
      <4>4. job'[b][j] = <<d>>
        BY <1>6, <3>2
      <4>5. y = 1
        BY <1>6, <4>4
      <4>1. y = 1 /\ job'[b][j][y] = d
        BY <1>6, <4>4, <4>5
      <4>2. i = 1
        BY <1>6, <2>6, <3>2, <4>1
      <4>3. buf[s][x][2] <= sent[s] /\ buf[s][x][2] \in Nat /\ job'[b][i][x] = buf[s][x]
        BY <1>6, <2>1, <3>2, <4>2
      <4> QED
        BY ONLY <1>2, <2>2, <4>1, <4>3, SMTT(20)
    <3>3. CASE b # s
      <4>1. job'[b] = job[b]
        BY <1>5, <3>3
      <4> QED
        BY <2>6, <4>1 DEF IInv, InSequence
    <3> QED
      BY <1>6, <3>1, <3>2, <3>3
  <2> QED
    BY <2>4, <2>5, <2>6 DEF InSequence
<1> QED
  BY <1>10, <1>11, GathersCharacters

\* The members of the collection change while nobody writes to it.
LEMMA RegistersCharacters ==
  ASSUME IInv, Registers
  PROVE  Characters'
<1>1. /\ collLock = None
      /\ buf' = buf /\ on' = on /\ job' = job /\ sent' = sent /\ to' = to /\ closed' = closed
      /\ sink' = sink /\ collLock' = collLock /\ next' = next /\ logged' = logged
      /\ received' = received
  BY DEF Registers
<1>2. \A b \in Actors : next[b] = 0
  BY <1>1, Distinct DEF IInv, CollLocking
<1>3. \A b \in Actors : \A k : ~ Served(b, k) /\ ~ Served(b, k)'
  BY <1>1, <1>2 DEF Served, Names
<1>4. InSequence'
  BY ONLY <1>1, IInv, SameSequence DEF IInv
<1>5. OnceInOrder'
  BY <1>1, SameOrder DEF IInv
<1>6. ForThisSink'
  <2>2. \A s \in Streams : \A n \in 1 .. sent[s] :
          Within(<<s, n>>, buf[s]) \/ InWork(s, <<s, n>>) => to[s][n] = sink[s]
    BY DEF IInv, ForThisSink
  <2>3. \A b \in Actors : next[b] = 0
    BY <1>2
  <2> QED
    <3>1. \A s, c : InWork(s, c)' <=> InWork(s, c)
      BY ONLY <1>1 DEF InWork, Within
    <3> QED
      BY ONLY <1>1, <1>2, <2>2, <2>3, <3>1 DEF ForThisSink, Within
<1>7. NothingLost'
  BY <1>1 DEF IInv, NothingLost, InWork, Within, Given
<1>8. Before'
  <2>1. Before
    BY DEF IInv
  <2>2. \A k \in Leaves, a \in Actors : \A r \in 1 .. Len(received[k]) :
          \A j \in 1 .. Len(job[a]) : \A x \in 1 .. Len(job[a][j]) :
            received[k][r].char[1] = on[a] => received[k][r].char[2] < job[a][j][x][2]
    BY <1>3, <2>1 DEF Before
  <2>3. \A k \in Leaves : \A r \in 1 .. Len(received'[k]) :
          /\ received'[k][r].char[2] <= sent'[received'[k][r].char[1]]
          /\ \A i \in 1 .. Len(buf'[received'[k][r].char[1]]) :
               received'[k][r].char[2] < buf'[received'[k][r].char[1]][i][2]
    BY ONLY <1>1, <2>1 DEF Before
  <2>4. ASSUME NEW k \in Leaves, NEW a \in Actors, NEW r \in 1 .. Len(received'[k]),
               NEW j \in 1 .. Len(job'[a]), NEW x \in 1 .. Len(job'[a][j]),
               received'[k][r].char[1] = on'[a]
        PROVE  received'[k][r].char[2] < job'[a][j][x][2]
    <3>1. received'[k] = received[k] /\ job'[a] = job[a] /\ on'[a] = on[a]
      BY ONLY <1>1
    <3> QED
      BY <2>2, <2>4, <3>1
  <2> QED
    BY ONLY <2>3, <2>4 DEF Before
<1> QED
  BY <1>4, <1>5, <1>6, <1>7, <1>8 DEF Characters

\* The first write of a job is done, the others remain.
LEMMA FirstDone ==
  ASSUME IInv, NEW a \in Actors, job[a] # <<>>, job' = [job EXCEPT ![a] = Tail(@)],
         on' = on, buf' = buf, sent' = sent
  PROVE  /\ 1 \in 1 .. Len(job[a]) /\ Head(job[a]) = job[a][1]
         /\ \A b \in Actors : b # a => job'[b] = job[b]
         /\ \A j \in 1 .. Len(job'[a]) : j + 1 \in 1 .. Len(job[a]) /\ job'[a][j] = job[a][j + 1]
         /\ InSequence'
         /\ \A r, c : InWork(r, c)' => InWork(r, c)
         /\ \A r, c : InWork(r, c) => InWork(r, c)' \/ (on[a] = r /\ Within(c, job[a][1]))
<1>1. /\ \A b \in Actors : b # a => job'[b] = job[b]
      /\ job'[a] = Tail(job[a])
  BY DEF IInv, TypeOK
<1>2. job[a] \in Seq(Seq(Chars)) /\ Len(job[a]) \in Nat /\ Len(job[a]) >= 1
  BY DEF IInv, TypeOK
<1>3. /\ 1 \in 1 .. Len(job[a]) /\ Head(job[a]) = job[a][1]
      /\ Len(job'[a]) = Len(job[a]) - 1
      /\ \A j \in 1 .. Len(job'[a]) : j + 1 \in 1 .. Len(job[a]) /\ job'[a][j] = job[a][j + 1]
  <2>1. PICK q, S : q = job[a] /\ S = Seq(Chars)
    OBVIOUS
  <2>2. q \in Seq(S) /\ Len(q) \in Nat /\ Len(q) >= 1
    BY <1>2, <2>1
  <2>3. Head(q) = q[1] /\ Len(Tail(q)) = Len(q) - 1
    BY ONLY <2>2
  <2>4. \A j \in 1 .. Len(q) - 1 : j + 1 \in 1 .. Len(q) /\ Tail(q)[j] = q[j + 1]
    BY ONLY <2>2
  <2>5. job'[a] = Tail(q)
    BY <1>1, <2>1
  <2>6. /\ Len(job'[a]) = Len(q) - 1
        /\ \A j \in 1 .. Len(job'[a]) : j + 1 \in 1 .. Len(q) /\ job'[a][j] = q[j + 1]
    BY ONLY <2>3, <2>4, <2>5
  <2>7. 1 \in 1 .. Len(q) /\ Head(q) = q[1]
    BY <2>2, <2>3
  <2> QED
    BY ONLY <2>1, <2>6, <2>7
<1>4. InSequence'
  <2>1. /\ \A r \in Streams : \A i \in 1 .. Len(buf'[r]) :
             buf'[r][i][1] = r /\ buf'[r][i][2] <= sent'[r]
        /\ \A r \in Streams : \A i, j \in 1 .. Len(buf'[r]) :
             i < j => buf'[r][i][2] < buf'[r][j][2]
    BY DEF IInv, InSequence
  <2>2. ASSUME NEW b \in Actors, NEW i \in 1 .. Len(job'[b]), NEW x \in 1 .. Len(job'[b][i])
        PROVE  job'[b][i][x][1] = on'[b] /\ job'[b][i][x][2] <= sent'[on'[b]]
    <3>0. \A j \in 1 .. Len(job[b]) : \A y \in 1 .. Len(job[b][j]) :
            job[b][j][y][1] = on'[b] /\ job[b][j][y][2] <= sent'[on'[b]]
      BY DEF IInv, InSequence
    <3>1. CASE b = a
      <4>1. i + 1 \in 1 .. Len(job[a]) /\ job'[b][i] = job[a][i + 1]
        BY <1>3, <3>1
      <4> QED
        BY <3>0, <3>1, <4>1
    <3>2. CASE b # a
      <4>1. job'[b] = job[b]
        BY <1>1, <3>2
      <4> QED
        BY <3>0, <4>1
    <3> QED
      BY <3>1, <3>2
  <2>3. ASSUME NEW b \in Actors, NEW i \in 1 .. Len(job'[b]), NEW j \in 1 .. Len(job'[b]),
               NEW x \in 1 .. Len(job'[b][i]), NEW y \in 1 .. Len(job'[b][j]),
               i < j \/ (i = j /\ x < y)
        PROVE  job'[b][i][x][2] < job'[b][j][y][2]
    <3>1. CASE b = a
      <4>1. /\ i + 1 \in 1 .. Len(job[a]) /\ job'[b][i] = job[a][i + 1]
            /\ j + 1 \in 1 .. Len(job[a]) /\ job'[b][j] = job[a][j + 1]
        BY <1>3, <3>1
      <4>2. i + 1 < j + 1 \/ (i + 1 = j + 1 /\ x < y)
        BY <2>3
      <4> QED
        BY <4>1, <4>2 DEF IInv, InSequence
    <3>2. CASE b # a
      <4>1. job'[b] = job[b]
        BY <1>1, <3>2
      <4> QED
        BY <2>3, <4>1 DEF IInv, InSequence
    <3> QED
      BY <3>1, <3>2
  <2> QED
    BY <2>1, <2>2, <2>3 DEF InSequence
<1>5. \A r, c : InWork(r, c) <=>
       \E b \in Actors : on[b] = r /\ \E i \in 1 .. Len(job[b]) : Within(c, job[b][i])
  BY DEF InWork
<1>6. \A r, c : InWork(r, c)' <=>
       \E b \in Actors : on[b] = r /\ \E i \in 1 .. Len(job'[b]) : Within(c, job'[b][i])
  BY DEF InWork, Within
<1>7. ASSUME NEW r, NEW c, InWork(r, c)' PROVE InWork(r, c)
  <2>1. PICK b \in Actors : on[b] = r /\ \E i \in 1 .. Len(job'[b]) : Within(c, job'[b][i])
    BY <1>6, <1>7
  <2>2. \E i \in 1 .. Len(job[b]) : Within(c, job[b][i])
    <3>1. CASE b = a
      BY <1>3, <2>1, <3>1
    <3>2. CASE b # a
      BY <1>1, <2>1, <3>2
    <3> QED
      BY <3>1, <3>2
  <2> QED
    BY <1>5, <2>1, <2>2
<1>8. ASSUME NEW r, NEW c, InWork(r, c) PROVE InWork(r, c)' \/ (on[a] = r /\ Within(c, job[a][1]))
  <2>0. PICK b \in Actors : on[b] = r /\ \E i \in 1 .. Len(job[b]) : Within(c, job[b][i])
    BY <1>5, <1>8
  <2>1. PICK i \in 1 .. Len(job[b]) : on[b] = r /\ Within(c, job[b][i])
    BY <2>0
  <2>2. CASE b # a
    BY <1>1, <1>6, <2>1, <2>2
  <2>3. CASE b = a /\ i = 1
    BY <2>1, <2>3
  <2>4. CASE b = a /\ i # 1
    <3>1. i - 1 \in 1 .. Len(job'[a])
      BY <1>2, <1>3, <2>4
    <3>2. job'[a][i - 1] = job[a][i]
      BY <1>3, <2>4, <3>1
    <3> QED
      BY <1>6, <2>1, <2>4, <3>1, <3>2
  <2> QED
    BY <2>2, <2>3, <2>4
<1> QED
  BY <1>1, <1>3, <1>4, <1>7, <1>8

\* l is q with a chunk of characters that came through `via` behind it.
Joined(l, q, chunk, via) ==
  /\ Len(q) \in Nat /\ Len(chunk) \in Nat /\ Len(l) = Len(q) + Len(chunk)
  /\ \A i \in 1 .. Len(q) : l[i] = q[i]
  /\ \A i \in 1 .. Len(chunk) : l[Len(q) + i] = [char |-> chunk[i], via |-> via]
  /\ \A i \in 1 .. Len(l) : \/ i \in 1 .. Len(q) /\ l[i] = q[i]
                            \/ /\ i - Len(q) \in 1 .. Len(chunk)
                               /\ l[i] = [char |-> chunk[i - Len(q)], via |-> via]
  /\ \A x : Within(x, q) => Within(x, l)
  /\ \A x \in 1 .. Len(chunk) : Within([char |-> chunk[x], via |-> via], l)

\* What a leaf has after a write is joined so.
LEMMA ArrivingBehind ==
  ASSUME NEW q \in Seq([char : Chars, via : Sinks]), NEW chunk \in Seq(Chars), NEW via \in Sinks
  PROVE  Joined(q \o Arriving(chunk, via), q, chunk, via)
<1>R. PICK R : R = [char : Chars, via : Sinks]
  OBVIOUS
<1>l. PICK l : l = q \o Arriving(chunk, via)
  OBVIOUS
<1>m. PICK m : m = Arriving(chunk, via)
  OBVIOUS
<1>1. /\ m \in Seq(R) /\ Len(m) = Len(chunk)
      /\ \A i \in 1 .. Len(chunk) : m[i] = [char |-> chunk[i], via |-> via]
  BY <1>m, <1>R, ArrivingType
<1>2. q \in Seq(R) /\ l = q \o m
  BY <1>m, <1>l, <1>R
<1>3. /\ Len(q) \in Nat /\ Len(m) \in Nat /\ Len(l) = Len(q) + Len(m)
      /\ \A i \in 1 .. Len(q) : l[i] = q[i]
      /\ \A i \in 1 .. Len(m) : l[Len(q) + i] = m[i]
  <2>1. /\ Len(q) \in Nat /\ Len(m) \in Nat /\ Len(l) = Len(q) + Len(m)
        /\ \A i \in 1 .. Len(q) + Len(m) :
             l[i] = IF i <= Len(q) THEN q[i] ELSE m[i - Len(q)]
    BY ONLY <1>1, <1>2, ConcatProperties
  <2> QED
    <3>1. ASSUME NEW i \in 1 .. Len(q) PROVE l[i] = q[i]
      BY ONLY <2>1, <3>1
    <3>2. ASSUME NEW i \in 1 .. Len(m) PROVE l[Len(q) + i] = m[i]
      <4>1. /\ Len(q) + i \in 1 .. Len(q) + Len(m) /\ ~ (Len(q) + i <= Len(q))
            /\ Len(q) + i - Len(q) = i
        BY ONLY <2>1, <3>2
      <4> QED
        BY ONLY <2>1, <4>1
    <3> QED
      BY ONLY <2>1, <3>1, <3>2
<1>4. ASSUME NEW i \in 1 .. Len(l)
      PROVE  \/ i \in 1 .. Len(q) /\ l[i] = q[i]
             \/ /\ i - Len(q) \in 1 .. Len(chunk)
                /\ l[i] = [char |-> chunk[i - Len(q)], via |-> via]
  <2>1. CASE i <= Len(q)
    BY <1>3, <2>1
  <2>2. CASE i > Len(q)
    <3>1. i - Len(q) \in 1 .. Len(m) /\ i = Len(q) + (i - Len(q))
      BY <1>3, <2>2
    <3> QED
      BY <1>1, <1>3, <3>1
  <2> QED
    BY <1>3, <2>1, <2>2
<1>5. ASSUME NEW x, Within(x, q) PROVE Within(x, l)
  <2>1. PICK i \in 1 .. Len(q) : q[i] = x
    BY <1>5 DEF Within
  <2>2. i \in 1 .. Len(l) /\ l[i] = x
    BY <1>3, <2>1
  <2> QED
    BY <2>2 DEF Within
<1>6. ASSUME NEW x \in 1 .. Len(chunk) PROVE Within([char |-> chunk[x], via |-> via], l)
  <2>1. Len(q) + x \in 1 .. Len(l) /\ l[Len(q) + x] = [char |-> chunk[x], via |-> via]
    <3>1. x \in 1 .. Len(m) /\ m[x] = [char |-> chunk[x], via |-> via]
      BY <1>1
    <3> QED
      BY ONLY <1>3, <3>1
  <2> QED
    BY <2>1 DEF Within
<1>7. Joined(l, q, chunk, via)
  BY <1>1, <1>3, <1>4, <1>5, <1>6 DEF Joined
<1> QED
  BY <1>7, <1>l

\* A leaf that an actor has not served yet gets what the actor is writing.
LEMMA LeafGets ==
  ASSUME IInv, NEW a \in Actors, NEW k \in Leaves, NEW via \in Sinks, job[a] # <<>>,
         received' = [received EXCEPT ![k] = @ \o Arriving(Head(job[a]), via)],
         ~ Served(a, k)
  PROVE  /\ OnceInOrder'
         /\ \A m \in Leaves : \A r \in 1 .. Len(received'[m]) :
              \/ r \in 1 .. Len(received[m]) /\ received'[m][r] = received[m][r]
              \/ m = k /\ \E x \in 1 .. Len(job[a][1]) : received'[m][r].char = job[a][1][x]
         /\ \A m \in Leaves : \A x : Within(x, received[m]) => Within(x, received'[m])
         /\ \A x \in 1 .. Len(job[a][1]) :
              Within([char |-> job[a][1][x], via |-> via], received'[k])
<1>1. /\ job[a][1] \in Seq(Chars) /\ Head(job[a]) = job[a][1] /\ 1 \in 1 .. Len(job[a])
  BY DEF IInv, TypeOK
<1>2. /\ \A m \in Leaves : m # k => received'[m] = received[m]
      /\ received'[k] = received[k] \o Arriving(job[a][1], via)
  BY <1>1 DEF IInv, TypeOK
<1>q. PICK q : q = received[k]
  OBVIOUS
<1>l. PICK l : l = received'[k]
  OBVIOUS
<1>c. PICK chunk : chunk = job[a][1]
  OBVIOUS
<1>3. q \in Seq([char : Chars, via : Sinks])
  BY <1>q DEF IInv, TypeOK
<1>4. chunk \in Seq(Chars) /\ l = q \o Arriving(chunk, via)
  BY <1>1, <1>2, <1>q, <1>l, <1>c
<1>5. /\ Len(q) \in Nat /\ Len(chunk) \in Nat /\ Len(l) = Len(q) + Len(chunk)
      /\ \A i \in 1 .. Len(q) : l[i] = q[i]
      /\ \A i \in 1 .. Len(l) : \/ i \in 1 .. Len(q) /\ l[i] = q[i]
                                \/ /\ i - Len(q) \in 1 .. Len(chunk)
                                   /\ l[i] = [char |-> chunk[i - Len(q)], via |-> via]
      /\ \A x : Within(x, q) => Within(x, l)
      /\ \A x \in 1 .. Len(chunk) : Within([char |-> chunk[x], via |-> via], l)
  <2>1. Joined(q \o Arriving(chunk, via), q, chunk, via)
    BY <1>3, <1>4, ArrivingBehind
  <2>2. Joined(l, q, chunk, via)
    BY <1>4, <2>1
  <2> QED
    BY <2>2 DEF Joined
<1>6. \A i \in 1 .. Len(l) : i \in 1 .. Len(q) \/ l[i].char = chunk[i - Len(q)]
  BY <1>5
<1>7. /\ \A r \in 1 .. Len(q) : \A x \in 1 .. Len(chunk) :
           q[r].char[1] = on[a] => q[r].char[2] < chunk[x][2]
      /\ \A x \in 1 .. Len(chunk) : chunk[x][1] = on[a]
      /\ \A x, y \in 1 .. Len(chunk) : x < y => chunk[x][2] < chunk[y][2]
  <2>1. \A r \in 1 .. Len(received[k]) : \A x \in 1 .. Len(job[a][1]) :
          received[k][r].char[1] = on[a] => received[k][r].char[2] < job[a][1][x][2]
    BY <1>1 DEF IInv, Before
  <2>2. \A x \in 1 .. Len(job[a][1]) : job[a][1][x][1] = on[a]
    BY <1>1 DEF IInv, InSequence
  <2>3. \A x, y \in 1 .. Len(job[a][1]) : x < y => job[a][1][x][2] < job[a][1][y][2]
    BY <1>1 DEF IInv, InSequence
  <2> QED
    BY <2>1, <2>2, <2>3, <1>q, <1>c
<1>8. \A i, j \in 1 .. Len(q) : i < j /\ q[i].char[1] = q[j].char[1] => q[i].char[2] < q[j].char[2]
  BY <1>q DEF IInv, OnceInOrder
<1>9. ASSUME NEW i \in 1 .. Len(l), NEW j \in 1 .. Len(l), i < j, l[i].char[1] = l[j].char[1]
      PROVE  l[i].char[2] < l[j].char[2]
  <2>1. CASE j \in 1 .. Len(q)
    <3>1. i \in 1 .. Len(q)
      BY <1>5, <1>9, <2>1
    <3> QED
      BY <1>5, <1>8, <1>9, <2>1, <3>1
  <2>2. CASE j \notin 1 .. Len(q)
    <3>1. j - Len(q) \in 1 .. Len(chunk) /\ l[j].char = chunk[j - Len(q)]
      BY <1>5, <2>2
    <3>2. CASE i \in 1 .. Len(q)
      <4>1. l[i] = q[i] /\ q[i].char[1] = on[a]
        BY <1>5, <1>7, <1>9, <3>1, <3>2
      <4> QED
        BY <1>7, <3>1, <3>2, <4>1
    <3>3. CASE i \notin 1 .. Len(q)
      <4>1. i - Len(q) \in 1 .. Len(chunk) /\ l[i].char = chunk[i - Len(q)]
        BY <1>5, <3>3
      <4>2. i - Len(q) < j - Len(q)
        BY <1>5, <1>9, SMTT(30)
      <4> QED
        BY <1>7, <3>1, <4>1, <4>2
    <3> QED
      BY <3>2, <3>3
  <2> QED
    BY <2>1, <2>2
<1>10. OnceInOrder'
  <2>1. ASSUME NEW m \in Leaves, NEW i \in 1 .. Len(received'[m]), NEW j \in 1 .. Len(received'[m]),
               i < j, received'[m][i].char[1] = received'[m][j].char[1]
        PROVE  received'[m][i].char[2] < received'[m][j].char[2]
    <3>1. CASE m = k
      BY <1>9, <1>l, <2>1, <3>1
    <3>2. CASE m # k
      BY <1>2, <2>1, <3>2 DEF IInv, OnceInOrder
    <3> QED
      BY <3>1, <3>2
  <2> QED
    BY <2>1 DEF OnceInOrder
<1>11. ASSUME NEW m \in Leaves, NEW r \in 1 .. Len(received'[m])
       PROVE  \/ r \in 1 .. Len(received[m]) /\ received'[m][r] = received[m][r]
              \/ m = k /\ \E x \in 1 .. Len(job[a][1]) : received'[m][r].char = job[a][1][x]
  <2>1. CASE m = k
    <3>0. r \in 1 .. Len(l)
      BY <1>l, <2>1
    <3>1. \/ r \in 1 .. Len(q) /\ l[r] = q[r]
          \/ r - Len(q) \in 1 .. Len(chunk) /\ l[r].char = chunk[r - Len(q)]
      BY <1>5, <3>0
    <3> QED
      BY <1>q, <1>l, <1>c, <2>1, <3>1
  <2>2. CASE m # k
    BY <1>2, <2>2
  <2> QED
    BY <2>1, <2>2
<1>12. ASSUME NEW m \in Leaves, NEW x, Within(x, received[m]) PROVE Within(x, received'[m])
  <2>1. CASE m = k
    BY <1>5, <1>q, <1>l, <1>12, <2>1
  <2>2. CASE m # k
    BY <1>2, <1>12, <2>2
  <2> QED
    BY <2>1, <2>2
<1>13. \A x \in 1 .. Len(job[a][1]) : Within([char |-> job[a][1][x], via |-> via], received'[k])
  BY <1>5, <1>c, <1>l
<1> QED
  BY <1>10, <1>11, <1>12, <1>13

\* A leaf that a stream writes to gets its characters, after all it got before.
LEMMA WriteLeafCharacters ==
  ASSUME IInv, NEW a \in Actors, WriteLeaf(a)
  PROVE  Characters'
<1>1. PICK k \in Leaves :
        /\ on[a] # None /\ job[a] # <<>> /\ sink[on[a]] = k
        /\ received' = [received EXCEPT ![k] = @ \o Arriving(Head(job[a]), k)]
        /\ job' = [job EXCEPT ![a] = Tail(@)]
        /\ UNCHANGED <<stream, on, new, members, since, collLock, next, logged>>
  BY DEF WriteLeaf, Writing, Idle, Target
<1>2. /\ buf' = buf /\ sink' = sink /\ sent' = sent /\ to' = to /\ closed' = closed /\ on' = on
      /\ members' = members /\ next' = next /\ logged' = logged
  BY <1>1 DEF stream
<1>3. next[a] = 0 /\ k \in Sinks /\ k # Collection
  BY <1>1, Distinct DEF IInv, CollLocking
<1>4. \A m : ~ Served(a, m)
  BY <1>3 DEF Served, Names
<1>5. /\ 1 \in 1 .. Len(job[a]) /\ Head(job[a]) = job[a][1]
      /\ \A b \in Actors : b # a => job'[b] = job[b]
      /\ \A j \in 1 .. Len(job'[a]) : j + 1 \in 1 .. Len(job[a]) /\ job'[a][j] = job[a][j + 1]
      /\ InSequence'
      /\ \A r, c : InWork(r, c)' => InWork(r, c)
      /\ \A r, c : InWork(r, c) => InWork(r, c)' \/ (on[a] = r /\ Within(c, job[a][1]))
  BY <1>1, <1>2, FirstDone
<1>6. /\ OnceInOrder'
      /\ \A m \in Leaves : \A r \in 1 .. Len(received'[m]) :
           \/ r \in 1 .. Len(received[m]) /\ received'[m][r] = received[m][r]
           \/ m = k /\ \E x \in 1 .. Len(job[a][1]) : received'[m][r].char = job[a][1][x]
      /\ \A m \in Leaves : \A x : Within(x, received[m]) => Within(x, received'[m])
      /\ \A x \in 1 .. Len(job[a][1]) : Within([char |-> job[a][1][x], via |-> k], received'[k])
  <2>1. ~ Served(a, k) /\ k \in Sinks /\ job[a] # <<>>
    BY <1>1, <1>3, <1>4
  <2>2. received' = [received EXCEPT ![k] = @ \o Arriving(Head(job[a]), k)]
    BY <1>1
  <2> QED
    BY ONLY IInv, a \in Actors, k \in Leaves, <2>1, <2>2, LeafGets
<1>7. ForThisSink'
  <2>1. ASSUME NEW r \in Streams, NEW n \in 1 .. sent[r],
               Within(<<r, n>>, buf[r]) \/ InWork(r, <<r, n>>)'
        PROVE  to[r][n] = sink[r]
    BY <1>5, <2>1 DEF IInv, ForThisSink
  <2>2. ASSUME NEW b \in Actors, next[b] # 0, NEW x \in 1 .. Len(job'[b][1])
        PROVE  Within(job'[b][1][x], logged)
    <3>1. job'[b] = job[b]
      BY <1>3, <1>5, <2>2
    <3> QED
      BY <2>2, <3>1 DEF IInv, ForThisSink
  <2> QED
    BY <1>2, <2>1, <2>2 DEF ForThisSink, Within
<1>8. NothingLost'
  <2>1. ASSUME NEW c, NEW q \in Sinks, Given(q, c) PROVE Given(q, c)'
    BY <1>2, <1>6, <2>1 DEF Given, Within, Sinks
  <2>2. ASSUME NEW r \in Streams, NEW n \in 1 .. sent[r]
        PROVE  \/ Within(<<r, n>>, buf[r]) /\ r \notin closed
               \/ InWork(r, <<r, n>>)'
               \/ Given(to[r][n], <<r, n>>)'
    <3>1. PICK q : q = to[r][n]
      OBVIOUS
    <3>2. q \in Sinks
      BY <3>1 DEF IInv, TypeOK
    <3>3. \/ Within(<<r, n>>, buf[r]) /\ r \notin closed
          \/ InWork(r, <<r, n>>)
          \/ Given(q, <<r, n>>)
      BY <3>1 DEF IInv, NothingLost
    <3>4. CASE InWork(r, <<r, n>>)
      <4>1. CASE on[a] = r /\ Within(<<r, n>>, job[a][1])
        <5>1. q = k
          BY <1>1, <3>1, <3>4, <4>1 DEF IInv, ForThisSink
        <5>2. PICK x \in 1 .. Len(job[a][1]) : job[a][1][x] = <<r, n>>
          BY <4>1 DEF Within
        <5>3. Within([char |-> <<r, n>>, via |-> k], received'[k])
          BY <1>6, <5>2
        <5>4. Given(q, <<r, n>>)'
          BY <1>3, <5>1, <5>3 DEF Given, Within
        <5> QED
          BY <1>2, <3>1, <5>4 DEF Given, Within
      <4> QED
        BY <1>5, <3>4, <4>1
    <3>5. CASE Given(q, <<r, n>>)
      <4>1. Given(q, <<r, n>>)'
        BY <2>1, <3>2, <3>5
      <4>2. to'[r][n] = q
        BY <1>2, <3>1
      <4> QED
        BY <4>1, <4>2 DEF Given
    <3> QED
      BY <3>3, <3>4, <3>5
  <2> QED
    BY <1>2, <2>2 DEF NothingLost, Within
<1>9. Before'
  <2>1. ASSUME NEW m \in Leaves, NEW r \in 1 .. Len(received'[m])
        PROVE  /\ received'[m][r].char[2] <= sent[received'[m][r].char[1]]
               /\ \A i \in 1 .. Len(buf[received'[m][r].char[1]]) :
                    received'[m][r].char[2] < buf[received'[m][r].char[1]][i][2]
    <3>1. CASE r \in 1 .. Len(received[m]) /\ received'[m][r] = received[m][r]
      BY <3>1 DEF IInv, Before
    <3>2. ASSUME NEW x \in 1 .. Len(job[a][1]), received'[m][r].char = job[a][1][x]
          PROVE  /\ received'[m][r].char[2] <= sent[received'[m][r].char[1]]
                 /\ \A i \in 1 .. Len(buf[received'[m][r].char[1]]) :
                      received'[m][r].char[2] < buf[received'[m][r].char[1]][i][2]
      <4>1. job[a][1][x][1] = on[a] /\ job[a][1][x][2] <= sent[on[a]]
        BY <1>5 DEF IInv, InSequence
      <4>2. Len(buf[on[a]]) = 0
        BY <1>1 DEF IInv, Locking
      <4> QED
        BY <3>2, <4>1, <4>2
    <3> QED
      BY <1>6, <3>1, <3>2
  <2>2. ASSUME NEW m \in Leaves, NEW b \in Actors, NEW r \in 1 .. Len(received'[m]),
               NEW j \in 1 .. Len(job'[b]), NEW x \in 1 .. Len(job'[b][j]),
               received'[m][r].char[1] = on[b]
        PROVE  \/ received'[m][r].char[2] < job'[b][j][x][2]
               \/ j = 1 /\ Served(b, m)
    <3>1. CASE r \in 1 .. Len(received[m]) /\ received'[m][r] = received[m][r]
      <4>1. CASE b = a
        <5>1. j + 1 \in 1 .. Len(job[a]) /\ job'[b][j] = job[a][j + 1] /\ j + 1 # 1
          BY <1>5, <4>1
        <5> QED
          BY <2>2, <3>1, <4>1, <5>1 DEF IInv, Before
      <4>2. CASE b # a
        <5>1. job'[b] = job[b]
          BY <1>5, <4>2
        <5> QED
          BY <2>2, <3>1, <5>1 DEF IInv, Before
      <4> QED
        BY <4>1, <4>2
    <3>2. ASSUME NEW y \in 1 .. Len(job[a][1]), received'[m][r].char = job[a][1][y]
          PROVE  received'[m][r].char[2] < job'[b][j][x][2]
      <4>1. job[a][1][y][1] = on[a]
        BY <1>5 DEF IInv, InSequence
      <4>2. b = a
        <5>1. on[b] = on[a] /\ on[a] \in Streams
          BY <1>5, <2>2, <3>2, <4>1, Working
        <5>2. lock[on[a]] = b /\ lock[on[a]] = a
          BY <5>1 DEF IInv, Locking
        <5> QED
          BY <5>2
      <4>3. j + 1 \in 1 .. Len(job[a]) /\ job'[b][j] = job[a][j + 1] /\ 1 < j + 1
        BY <1>5, <4>2
      <4>4. x \in 1 .. Len(job[a][j + 1]) /\ 1 \in 1 .. Len(job[a])
        BY <1>5, <4>2, <4>3
      <4>5. job[a][1][y][2] < job[a][j + 1][x][2]
        BY <4>3, <4>4 DEF IInv, InSequence
      <4> QED
        BY <3>2, <4>2, <4>3, <4>5
    <3> QED
      BY <1>6, <3>1, <3>2
  <2>3. \A b, m : Served(b, m)' <=> Served(b, m)
    BY <1>2 DEF Served
  <2>4. ASSUME NEW m \in Leaves, NEW b \in Actors, NEW r \in 1 .. Len(received'[m]),
               NEW j \in 1 .. Len(job'[b]), NEW x \in 1 .. Len(job'[b][j]),
               received'[m][r].char[1] = on'[b]
        PROVE  \/ received'[m][r].char[2] < job'[b][j][x][2]
               \/ j = 1 /\ Served(b, m)'
    BY <1>2, <2>2, <2>3, <2>4, SMTT(30)
  <2>5. ASSUME NEW m \in Leaves, NEW r \in 1 .. Len(received'[m])
        PROVE  /\ received'[m][r].char[2] <= sent'[received'[m][r].char[1]]
               /\ \A i \in 1 .. Len(buf'[received'[m][r].char[1]]) :
                    received'[m][r].char[2] < buf'[received'[m][r].char[1]][i][2]
    BY <1>2, <2>1
  <2> QED
    BY <2>4, <2>5 DEF Before, Served
<1> QED
  BY <1>5, <1>6, <1>7, <1>8, <1>9 DEF Characters

\* What is written to the collection is logged before it is handed on.
LEMMA WriteCollectionCharacters ==
  ASSUME IInv, TypeOK', NEW a \in Actors, WriteCollection(a)
  PROVE  Characters'
<1>1. /\ on[a] # None /\ job[a] # <<>> /\ sink[on[a]] = Collection /\ collLock = None
      /\ next[a] = 0 /\ next' = [next EXCEPT ![a] = 1]
      /\ logged' = logged \o Head(job[a])
      /\ buf' = buf /\ sink' = sink /\ sent' = sent /\ to' = to /\ closed' = closed /\ on' = on
      /\ job' = job /\ members' = members /\ received' = received
  BY DEF WriteCollection, Writing, Idle, Target, CollFree, stream
<1>2. \A b \in Actors : next[b] = 0
  BY <1>1, Distinct DEF IInv, CollLocking
<1>3. \A b \in Actors : next'[b] = IF b = a THEN 1 ELSE 0
  BY <1>1, <1>2 DEF IInv, TypeOK
<1>4. \A b \in Actors : \A k : ~ Served(b, k) /\ ~ Served(b, k)'
  BY <1>1, <1>2, <1>3 DEF Served, Names
<1>5. /\ \A c : Within(c, logged) => Within(c, logged')
      /\ \A x \in 1 .. Len(job[a][1]) : Within(job[a][1][x], logged')
  <2>1. PICK q, h, l : q = logged /\ h = job[a][1] /\ l = logged'
    OBVIOUS
  <2>2. q \in Seq(Chars) /\ h \in Seq(Chars) /\ l = q \o h
    <3>1. logged \in Seq(Chars) /\ job[a] \in Seq(Seq(Chars))
      BY DEF IInv, TypeOK
    <3>2. job[a][1] \in Seq(Chars) /\ Head(job[a]) = job[a][1]
      BY <1>1, <3>1
    <3> QED
      BY <1>1, <2>1, <3>1, <3>2
  <2>3. /\ Len(q) \in Nat /\ Len(h) \in Nat /\ Len(l) = Len(q) + Len(h)
        /\ \A i \in 1 .. Len(q) + Len(h) : l[i] = IF i <= Len(q) THEN q[i] ELSE h[i - Len(q)]
    BY ONLY <2>2, ConcatProperties
  <2>4. \A i \in 1 .. Len(q) : i \in 1 .. Len(l) /\ l[i] = q[i]
    BY ONLY <2>3
  <2>5. \A i \in 1 .. Len(h) : Len(q) + i \in 1 .. Len(l) /\ l[Len(q) + i] = h[i]
    BY ONLY <2>3
  <2>6. /\ \A c : Within(c, q) => Within(c, l)
        /\ \A x \in 1 .. Len(h) : Within(h[x], l)
    BY <2>4, <2>5 DEF Within
  <2> QED
    BY <2>1, <2>6
<1>6. InSequence'
  BY ONLY <1>1, IInv, SameSequence DEF IInv
<1>7. OnceInOrder'
  <2>1. OnceInOrder
    BY DEF IInv
  <2> QED
    BY ONLY <1>1, <2>1, SameOrder
<1>8. \A r, c : InWork(r, c)' <=> InWork(r, c)
  BY <1>1 DEF InWork, Within
<1>9. ForThisSink'
  <2>1. \A s \in Streams : \A n \in 1 .. sent[s] :
          Within(<<s, n>>, buf[s]) \/ InWork(s, <<s, n>>) => to[s][n] = sink[s]
    BY DEF IInv, ForThisSink
  <2>2. \A b \in Actors : next'[b] # 0 =>
          \A x \in 1 .. Len(job[b][1]) : Within(job[b][1][x], logged')
    BY <1>3, <1>5
  <2> QED
    <3>1. \A s \in Streams : \A n \in 1 .. sent'[s] :
            Within(<<s, n>>, buf'[s]) \/ InWork(s, <<s, n>>)' => to'[s][n] = sink'[s]
      BY ONLY <1>1, <1>8, <2>1
    <3> QED
      BY ONLY <1>1, <2>2, <3>1 DEF ForThisSink, Within
<1>10. NothingLost'
  <2>1. \A k, c : Given(k, c) => Given(k, c)'
    BY <1>1, <1>5 DEF Given, Within
  <2>2. \A s \in Streams : \A n \in 1 .. sent[s] :
          \/ Within(<<s, n>>, buf[s]) /\ s \notin closed
          \/ InWork(s, <<s, n>>)
          \/ Given(to[s][n], <<s, n>>)
    BY DEF IInv, NothingLost
  <2>3. ASSUME NEW s \in Streams, NEW n \in 1 .. sent[s], Given(to[s][n], <<s, n>>)
        PROVE  Given(to[s][n], <<s, n>>)'
    BY <1>1, <1>5, <2>3 DEF Given, Within
  <2> QED
    BY <1>1, <1>8, <2>2, <2>3 DEF NothingLost, Within
<1>11. Before'
  <2>1. Before
    BY DEF IInv
  <2>2. \A k \in Leaves, b \in Actors : \A r \in 1 .. Len(received[k]) :
          \A j \in 1 .. Len(job[b]) : \A x \in 1 .. Len(job[b][j]) :
            received[k][r].char[1] = on[b] => received[k][r].char[2] < job[b][j][x][2]
    BY <1>4, <2>1 DEF Before
  <2>3. ASSUME NEW k \in Leaves, NEW r \in 1 .. Len(received[k])
        PROVE  /\ received[k][r].char[2] <= sent[received[k][r].char[1]]
               /\ \A i \in 1 .. Len(buf[received[k][r].char[1]]) :
                    received[k][r].char[2] < buf[received[k][r].char[1]][i][2]
    BY <2>1 DEF Before
  <2> QED
    <3>1. ASSUME NEW k \in Leaves, NEW b \in Actors, NEW r \in 1 .. Len(received'[k]),
                 NEW j \in 1 .. Len(job'[b]), NEW x \in 1 .. Len(job'[b][j]),
                 received'[k][r].char[1] = on'[b]
          PROVE  received'[k][r].char[2] < job'[b][j][x][2]
      BY ONLY <1>1, <2>2, <3>1, k \in Leaves, b \in Actors, r \in 1 .. Len(received'[k]),
              j \in 1 .. Len(job'[b]), x \in 1 .. Len(job'[b][j])
    <3>2. ASSUME NEW k \in Leaves, NEW r \in 1 .. Len(received'[k])
          PROVE  /\ received'[k][r].char[2] <= sent'[received'[k][r].char[1]]
                 /\ \A i \in 1 .. Len(buf'[received'[k][r].char[1]]) :
                      received'[k][r].char[2] < buf'[received'[k][r].char[1]][i][2]
      BY <1>1, <2>3
    <3> QED
      BY ONLY <3>1, <3>2 DEF Before, Served
<1> QED
  BY <1>6, <1>7, <1>9, <1>10, <1>11 DEF Characters

\* Each member is served once, and then has what is being written.
LEMMA HandOnCharacters ==
  ASSUME IInv, TypeOK', NEW a \in Actors, HandOn(a)
  PROVE  Characters'
<1>1. /\ next[a] \in Names /\ next' = [next EXCEPT ![a] = @ + 1]
      /\ buf' = buf /\ sink' = sink /\ sent' = sent /\ to' = to /\ closed' = closed /\ on' = on
      /\ job' = job /\ members' = members /\ logged' = logged
      /\ \/ received' = received
         \/ /\ members[next[a]] \in Leaves
            /\ received' = [received EXCEPT ![members[next[a]]] =
                              @ \o Arriving(Head(job[a]), Collection)]
  BY DEF HandOn, stream
<1>2. /\ next[a] # 0 /\ on[a] # None /\ job[a] # <<>> /\ 1 \in 1 .. Len(job[a])
  <2>1. next[a] # 0
    BY <1>1, Distinct
  <2>2. on[a] # None /\ job[a] # <<>>
    BY <2>1 DEF IInv, CollLocking
  <2> QED
    BY <2>1, <2>2 DEF IInv, TypeOK
<1>3. /\ \A b \in Actors : b # a => next'[b] = next[b]
      /\ next'[a] = next[a] + 1 /\ next[a] \in Nat
  BY <1>1, SizeAssumption DEF IInv, TypeOK, Names
<1>4. \A b \in Actors : \A k : Served(b, k) => Served(b, k)'
  <2>1. ASSUME NEW b \in Actors, NEW n \in Names, n < next[b] PROVE n < next'[b]
    <3>1. CASE b = a
      BY ONLY <1>3, <2>1, <3>1, n \in Names, SizeAssumption DEF Names
    <3>2. CASE b # a
      BY <1>3, <2>1, <3>2
    <3> QED
      BY <3>1, <3>2
  <2> QED
    BY <1>1, <2>1 DEF Served
<1>5. InSequence'
  BY ONLY <1>1, IInv, SameSequence DEF IInv
<1>6. \A r, c : InWork(r, c)' <=> InWork(r, c)
  BY <1>1 DEF InWork, Within
<1>7. ForThisSink'
  <2>1. \A s \in Streams : \A n \in 1 .. sent[s] :
          Within(<<s, n>>, buf[s]) \/ InWork(s, <<s, n>>) => to[s][n] = sink[s]
    BY DEF IInv, ForThisSink
  <2>2. \A b \in Actors : next'[b] # 0 =>
          \A x \in 1 .. Len(job[b][1]) : Within(job[b][1][x], logged)
    BY <1>2, <1>3 DEF IInv, ForThisSink
  <2> QED
    BY ONLY <1>1, <1>6, <2>1, <2>2 DEF ForThisSink, Within
<1>8. \A k \in Leaves, b \in Actors : \A r \in 1 .. Len(received[k]) :
        \A j \in 1 .. Len(job[b]) : \A x \in 1 .. Len(job[b][j]) :
          received[k][r].char[1] = on[b] =>
            \/ received[k][r].char[2] < job[b][j][x][2]
            \/ j = 1 /\ Served(b, k)'
  BY <1>4 DEF IInv, Before
<1>9. \A k \in Leaves : \A r \in 1 .. Len(received[k]) :
        /\ received[k][r].char[2] <= sent[received[k][r].char[1]]
        /\ \A i \in 1 .. Len(buf[received[k][r].char[1]]) :
             received[k][r].char[2] < buf[received[k][r].char[1]][i][2]
  BY DEF IInv, Before
<1>10. \A s \in Streams : \A n \in 1 .. sent[s] :
         \/ Within(<<s, n>>, buf[s]) /\ s \notin closed
         \/ InWork(s, <<s, n>>)
         \/ Given(to[s][n], <<s, n>>)
  BY DEF IInv, NothingLost
<1>11. CASE received' = received
  <2>1. OnceInOrder'
    BY <1>11, SameOrder DEF IInv
  <2>2. NothingLost'
    <3>1. \A s \in Streams : \A n \in 1 .. sent[s] :
            Given(to[s][n], <<s, n>>)' <=> Given(to[s][n], <<s, n>>)
      BY ONLY <1>1, <1>11 DEF Given, Within
    <3> QED
      BY ONLY <1>1, <1>6, <1>10, <1>11, <3>1 DEF NothingLost, Within, Given
  <2>3. Before'
    <3>1. ASSUME NEW k \in Leaves, NEW b \in Actors, NEW r \in 1 .. Len(received'[k]),
                 NEW j \in 1 .. Len(job'[b]), NEW x \in 1 .. Len(job'[b][j]),
                 received'[k][r].char[1] = on'[b]
          PROVE  \/ received'[k][r].char[2] < job'[b][j][x][2]
                 \/ j = 1 /\ Served(b, k)'
      BY <1>1, <1>8, <1>11, <3>1
    <3>2. ASSUME NEW k \in Leaves, NEW r \in 1 .. Len(received'[k])
          PROVE  /\ received'[k][r].char[2] <= sent'[received'[k][r].char[1]]
                 /\ \A i \in 1 .. Len(buf'[received'[k][r].char[1]]) :
                      received'[k][r].char[2] < buf'[received'[k][r].char[1]][i][2]
      BY <1>1, <1>9, <1>11
    <3> QED
      BY ONLY <3>1, <3>2 DEF Before, Served
  <2> QED
    BY <1>5, <1>7, <2>1, <2>2, <2>3 DEF Characters
<1>12. ASSUME NEW k \in Leaves, k = members[next[a]],
              received' = [received EXCEPT ![k] = @ \o Arriving(Head(job[a]), Collection)]
       PROVE  Characters'
  <2>1. ~ Served(a, k)
    <3>1. ASSUME NEW n \in Names, n < next[a], members[n] = k PROVE FALSE
      <4>1. n = next[a]
        BY <1>1, <1>12, <3>1, Distinct DEF IInv, CollLocking
      <4> QED
        BY <1>3, <3>1, <4>1
    <3> QED
      BY <3>1 DEF Served
  <2>2. Served(a, k)'
    BY <1>1, <1>3, <1>12 DEF Served
  <2>3. /\ OnceInOrder'
        /\ \A m \in Leaves : \A r \in 1 .. Len(received'[m]) :
             \/ r \in 1 .. Len(received[m]) /\ received'[m][r] = received[m][r]
             \/ m = k /\ \E x \in 1 .. Len(job[a][1]) : received'[m][r].char = job[a][1][x]
        /\ \A m \in Leaves : \A x : Within(x, received[m]) => Within(x, received'[m])
        /\ \A x \in 1 .. Len(job[a][1]) :
             Within([char |-> job[a][1][x], via |-> Collection], received'[k])
    <3>1. received' = [received EXCEPT ![k] = @ \o Arriving(Head(job[a]), Collection)]
      BY <1>12
    <3>2. job[a] # <<>> /\ Collection \in Sinks
      BY <1>2, Distinct
    <3> QED
      BY ONLY IInv, a \in Actors, k \in Leaves, <2>1, <3>1, <3>2, LeafGets
  <2>4. NothingLost'
    <3>1. ASSUME NEW c, NEW q \in Sinks, Given(q, c) PROVE Given(q, c)'
      BY <1>1, <2>3, <3>1 DEF Given, Within, Sinks
    <3>2. ASSUME NEW s \in Streams, NEW n \in 1 .. sent[s], Given(to[s][n], <<s, n>>)
          PROVE  Given(to[s][n], <<s, n>>)'
      <4>1. PICK q : q = to[s][n]
        OBVIOUS
      <4>2. q \in Sinks
        <5>1. /\ to \in [Streams -> Seq(Sinks)] /\ \A r \in Streams : Len(to[r]) = sent[r]
          BY DEF IInv, TypeOK
        <5> QED
          BY ONLY <4>1, <5>1, s \in Streams, n \in 1 .. sent[s]
      <4>3. Given(q, <<s, n>>)'
        BY <3>1, <3>2, <4>1, <4>2
      <4> QED
        BY <1>1, <4>1, <4>3 DEF Given, Within
    <3> QED
      BY <1>1, <1>6, <1>10, <3>2 DEF NothingLost, Within
  <2>5. ASSUME NEW m \in Leaves, NEW r \in 1 .. Len(received'[m])
        PROVE  /\ received'[m][r].char[2] <= sent[received'[m][r].char[1]]
               /\ \A i \in 1 .. Len(buf[received'[m][r].char[1]]) :
                    received'[m][r].char[2] < buf[received'[m][r].char[1]][i][2]
    <3>1. CASE r \in 1 .. Len(received[m]) /\ received'[m][r] = received[m][r]
      BY <1>9, <3>1
    <3>2. ASSUME NEW x \in 1 .. Len(job[a][1]), received'[m][r].char = job[a][1][x]
          PROVE  /\ received'[m][r].char[2] <= sent[received'[m][r].char[1]]
                 /\ \A i \in 1 .. Len(buf[received'[m][r].char[1]]) :
                      received'[m][r].char[2] < buf[received'[m][r].char[1]][i][2]
      <4>1. job[a][1][x][1] = on[a] /\ job[a][1][x][2] <= sent[on[a]]
        BY <1>2 DEF IInv, InSequence
      <4>2. Len(buf[on[a]]) = 0
        BY <1>2 DEF IInv, Locking
      <4> QED
        BY <3>2, <4>1, <4>2
    <3> QED
      BY <2>3, <3>1, <3>2
  <2>6. ASSUME NEW m \in Leaves, NEW b \in Actors, NEW r \in 1 .. Len(received'[m]),
               NEW j \in 1 .. Len(job[b]), NEW x \in 1 .. Len(job[b][j]),
               received'[m][r].char[1] = on[b]
        PROVE  \/ received'[m][r].char[2] < job[b][j][x][2]
               \/ j = 1 /\ Served(b, m)'
    <3>1. CASE r \in 1 .. Len(received[m]) /\ received'[m][r] = received[m][r]
      BY <1>8, <2>6, <3>1
    <3>2. ASSUME m = k, NEW y \in 1 .. Len(job[a][1]), received'[m][r].char = job[a][1][y]
          PROVE  \/ received'[m][r].char[2] < job[b][j][x][2]
                 \/ j = 1 /\ Served(b, m)'
      <4>1. job[a][1][y][1] = on[a]
        BY <1>2 DEF IInv, InSequence
      <4>2. on[b] = on[a] /\ on[a] \in Streams
        BY <1>2, <2>6, <3>2, <4>1, Working
      <4>3. lock[on[a]] = b /\ lock[on[a]] = a
        BY <4>2 DEF IInv, Locking
      <4>4. CASE j = 1
        BY <2>2, <3>2, <4>3, <4>4
      <4>5. CASE j # 1
        <5>1. 1 < j /\ x \in 1 .. Len(job[a][j]) /\ j \in 1 .. Len(job[a])
          BY <4>3, <4>5
        <5>2. job[a][1][y][2] < job[a][j][x][2]
          BY <1>2, <5>1 DEF IInv, InSequence
        <5> QED
          BY <3>2, <4>3, <5>2
      <4> QED
        BY <4>4, <4>5
    <3> QED
      BY <2>3, <3>1, <3>2
  <2>7. Before'
    <3>1. ASSUME NEW m \in Leaves, NEW b \in Actors, NEW r \in 1 .. Len(received'[m]),
                 NEW j \in 1 .. Len(job'[b]), NEW x \in 1 .. Len(job'[b][j]),
                 received'[m][r].char[1] = on'[b]
          PROVE  \/ received'[m][r].char[2] < job'[b][j][x][2]
                 \/ j = 1 /\ Served(b, m)'
      BY <1>1, <2>6, <3>1
    <3>2. ASSUME NEW m \in Leaves, NEW r \in 1 .. Len(received'[m])
          PROVE  /\ received'[m][r].char[2] <= sent'[received'[m][r].char[1]]
                 /\ \A i \in 1 .. Len(buf'[received'[m][r].char[1]]) :
                      received'[m][r].char[2] < buf'[received'[m][r].char[1]][i][2]
      BY <1>1, <2>5
    <3> QED
      BY ONLY <3>1, <3>2 DEF Before, Served
  <2> QED
    BY <1>5, <1>7, <2>3, <2>4, <2>7 DEF Characters
<1> QED
  BY <1>1, <1>11, <1>12

\* What has been handed on is in the log: it need not be remembered.
LEMMA HandedOnCharacters ==
  ASSUME IInv, NEW a \in Actors, HandedOn(a)
  PROVE  Characters'
<1>1. /\ next[a] = MaxNames + 1 /\ next' = [next EXCEPT ![a] = 0]
      /\ job' = [job EXCEPT ![a] = Tail(@)]
      /\ buf' = buf /\ sink' = sink /\ sent' = sent /\ to' = to /\ closed' = closed /\ on' = on
      /\ members' = members /\ logged' = logged /\ received' = received
  BY DEF HandedOn, stream
<1>2. /\ next[a] # 0 /\ on[a] # None /\ job[a] # <<>> /\ sink[on[a]] = Collection
  BY <1>1, Distinct DEF IInv, CollLocking
<1>3. /\ 1 \in 1 .. Len(job[a])
      /\ \A b \in Actors : b # a => job'[b] = job[b] /\ next'[b] = next[b]
      /\ \A j \in 1 .. Len(job'[a]) : j + 1 \in 1 .. Len(job[a]) /\ job'[a][j] = job[a][j + 1]
      /\ InSequence' /\ next'[a] = 0
      /\ \A r, c : InWork(r, c)' => InWork(r, c)
      /\ \A r, c : InWork(r, c) => InWork(r, c)' \/ (on[a] = r /\ Within(c, job[a][1]))
  <2>1. \A b \in Actors : next'[b] = IF b = a THEN 0 ELSE next[b]
    BY <1>1 DEF IInv, TypeOK
  <2> QED
    BY <1>1, <1>2, <2>1, FirstDone
<1>4. OnceInOrder'
  BY <1>1, SameOrder DEF IInv
<1>5. ForThisSink'
  <2>1. ASSUME NEW r \in Streams, NEW n \in 1 .. sent[r],
               Within(<<r, n>>, buf[r]) \/ InWork(r, <<r, n>>)'
        PROVE  to[r][n] = sink[r]
    BY <1>3, <2>1 DEF IInv, ForThisSink
  <2>2. ASSUME NEW b \in Actors, next'[b] # 0, NEW x \in 1 .. Len(job'[b][1])
        PROVE  Within(job'[b][1][x], logged)
    <3>1. job'[b] = job[b] /\ next'[b] = next[b]
      BY <1>3, <2>2
    <3> QED
      BY <2>2, <3>1 DEF IInv, ForThisSink
  <2> QED
    <3>1. \A r \in Streams : \A n \in 1 .. sent'[r] :
            Within(<<r, n>>, buf'[r]) \/ InWork(r, <<r, n>>)' => to'[r][n] = sink'[r]
      BY ONLY <1>1, <2>1 DEF Within
    <3> QED
      BY ONLY <1>1, <2>2, <3>1 DEF ForThisSink, Within
<1>6. NothingLost'
  <2>1. ASSUME NEW r \in Streams, NEW n \in 1 .. sent[r]
        PROVE  \/ Within(<<r, n>>, buf[r]) /\ r \notin closed
               \/ InWork(r, <<r, n>>)'
               \/ Given(to[r][n], <<r, n>>)
    <3>1. \/ Within(<<r, n>>, buf[r]) /\ r \notin closed
          \/ InWork(r, <<r, n>>)
          \/ Given(to[r][n], <<r, n>>)
      BY DEF IInv, NothingLost
    <3>2. CASE InWork(r, <<r, n>>) /\ on[a] = r /\ Within(<<r, n>>, job[a][1])
      <4>1. to[r][n] = Collection
        BY <1>2, <3>2 DEF IInv, ForThisSink
      <4>2. PICK x \in 1 .. Len(job[a][1]) : job[a][1][x] = <<r, n>>
        BY <3>2 DEF Within
      <4>3. Within(<<r, n>>, logged)
        BY <1>2, <4>2 DEF IInv, ForThisSink
      <4> QED
        BY <4>1, <4>3 DEF Given
    <3> QED
      BY <1>3, <3>1, <3>2
  <2> QED
    BY <1>1, <2>1 DEF NothingLost, Within, Given
<1>7. Before'
  <2>1. \A b \in Actors : \A k : Served(b, k)' <=> b # a /\ Served(b, k)
    BY <1>1, <1>3 DEF Served, Names
  <2>2. ASSUME NEW m \in Leaves, NEW b \in Actors, NEW r \in 1 .. Len(received'[m]),
               NEW j \in 1 .. Len(job'[b]), NEW x \in 1 .. Len(job'[b][j]),
               received'[m][r].char[1] = on'[b]
        PROVE  \/ received'[m][r].char[2] < job'[b][j][x][2]
               \/ j = 1 /\ Served(b, m)'
    <3>1. CASE b = a
      <4>1. j + 1 \in 1 .. Len(job[a]) /\ job'[b][j] = job[a][j + 1] /\ j + 1 # 1
        BY <1>3, <3>1
      <4> QED
        BY <1>1, <2>2, <3>1, <4>1 DEF IInv, Before
    <3>2. CASE b # a
      <4>1. job'[b] = job[b]
        BY <1>3, <3>2
      <4>2. received[m][r].char[2] < job[b][j][x][2] \/ (j = 1 /\ Served(b, m))
        BY <1>1, <2>2, <4>1 DEF IInv, Before
      <4> QED
        BY <1>1, <2>1, <3>2, <4>1, <4>2
    <3> QED
      BY <3>1, <3>2
  <2>3. ASSUME NEW m \in Leaves, NEW r \in 1 .. Len(received'[m])
        PROVE  /\ received'[m][r].char[2] <= sent'[received'[m][r].char[1]]
               /\ \A i \in 1 .. Len(buf'[received'[m][r].char[1]]) :
                    received'[m][r].char[2] < buf'[received'[m][r].char[1]][i][2]
    BY <1>1 DEF IInv, Before
  <2> QED
    BY ONLY <2>2, <2>3 DEF Before, Served
<1> QED
  BY <1>3, <1>4, <1>5, <1>6, <1>7 DEF Characters

\* A call returns when nothing is left to write; only then the sink changes.
LEMMA EndCharacters ==
  ASSUME IInv, NEW a \in Actors, End(a)
  PROVE  Characters'
<1>1. /\ on[a] # None /\ job[a] = <<>> /\ on' = [on EXCEPT ![a] = None]
      /\ buf' = buf /\ sent' = sent /\ to' = to /\ closed' = closed /\ job' = job
      /\ members' = members /\ next' = next /\ logged' = logged /\ received' = received
      /\ sink' = sink \/ sink' = [sink EXCEPT ![on[a]] = new]
  BY DEF End, Idle, coll
<1>2. /\ on[a] \in Streams /\ buf[on[a]] = <<>> /\ Len(job[a]) = 0
      /\ \A b \in Actors : on[b] = on[a] => b = a
  BY <1>1 DEF IInv, TypeOK, Locking
<1>3. \A b \in Actors : b # a => on'[b] = on[b]
  BY <1>1 DEF IInv, TypeOK
<1>4. \A b \in Actors : \A i \in 1 .. Len(job[b]) : b # a /\ on'[b] = on[b]
  BY <1>2, <1>3
<1>5. InSequence'
  <2>1. ASSUME NEW b \in Actors, NEW i \in 1 .. Len(job'[b]), NEW x \in 1 .. Len(job'[b][i])
        PROVE  job'[b][i][x][1] = on'[b] /\ job'[b][i][x][2] <= sent'[on'[b]]
    <3>1. job' = job /\ sent' = sent /\ on'[b] = on[b]
      BY <1>1, <1>4
    <3> QED
      BY <3>1 DEF IInv, InSequence
  <2>2. ASSUME NEW b \in Actors, NEW i \in 1 .. Len(job'[b]), NEW j \in 1 .. Len(job'[b]),
               NEW x \in 1 .. Len(job'[b][i]), NEW y \in 1 .. Len(job'[b][j]),
               i < j \/ (i = j /\ x < y)
        PROVE  job'[b][i][x][2] < job'[b][j][y][2]
    <3>1. job' = job
      BY <1>1
    <3> QED
      BY <2>2, <3>1 DEF IInv, InSequence
  <2>3. /\ \A r \in Streams : \A i \in 1 .. Len(buf'[r]) :
             buf'[r][i][1] = r /\ buf'[r][i][2] <= sent'[r]
        /\ \A r \in Streams : \A i, j \in 1 .. Len(buf'[r]) :
             i < j => buf'[r][i][2] < buf'[r][j][2]
    BY <1>1 DEF IInv, InSequence
  <2> QED
    BY ONLY <2>1, <2>2, <2>3 DEF InSequence
<1>6. \A r \in Streams : \A c : InWork(r, c)' <=> InWork(r, c)
  <2>1. \A r, c : InWork(r, c) <=>
         \E b \in Actors : on[b] = r /\ \E i \in 1 .. Len(job[b]) : Within(c, job[b][i])
    BY DEF InWork
  <2>2. \A r, c : InWork(r, c)' <=>
         \E b \in Actors : on'[b] = r /\ \E i \in 1 .. Len(job[b]) : Within(c, job[b][i])
    BY <1>1 DEF InWork, Within
  <2> QED
    BY <1>4, <2>1, <2>2
<1>7. OnceInOrder'
  BY <1>1, SameOrder DEF IInv
<1>8. ForThisSink'
  <2>1. ASSUME NEW r \in Streams, NEW n \in 1 .. sent[r],
               Within(<<r, n>>, buf[r]) \/ InWork(r, <<r, n>>)'
        PROVE  to[r][n] = sink'[r]
    <3>1. Within(<<r, n>>, buf[r]) \/ InWork(r, <<r, n>>)
      BY <1>6, <2>1
    <3>2. r # on[a]
      <4>1. ~ Within(<<r, n>>, buf[on[a]])
        BY <1>2 DEF Within
      <4>2. ~ InWork(on[a], <<r, n>>)
        BY <1>2 DEF InWork
      <4> QED
        BY <3>1, <4>1, <4>2
    <3>3. sink'[r] = sink[r]
      BY <1>1, <3>2 DEF IInv, TypeOK
    <3> QED
      BY <3>1, <3>3 DEF IInv, ForThisSink
  <2>2. \A b \in Actors : next[b] # 0 => \A x \in 1 .. Len(job[b][1]) : Within(job[b][1][x], logged)
    BY DEF IInv, ForThisSink
  <2> QED
    BY <1>1, <2>1, <2>2 DEF ForThisSink, Within
<1>9. NothingLost'
  <2>1. \A s \in Streams : \A n \in 1 .. sent[s] :
          \/ Within(<<s, n>>, buf[s]) /\ s \notin closed
          \/ InWork(s, <<s, n>>)
          \/ Given(to[s][n], <<s, n>>)
    BY DEF IInv, NothingLost
  <2> QED
    BY <1>1, <1>6, <2>1 DEF NothingLost, Within, Given
<1>10. Before'
  <2>1. \A b \in Actors : \A k : Served(b, k)' <=> Served(b, k)
    BY <1>1 DEF Served
  <2>2. ASSUME NEW m \in Leaves, NEW b \in Actors, NEW r \in 1 .. Len(received'[m]),
               NEW j \in 1 .. Len(job'[b]), NEW x \in 1 .. Len(job'[b][j]),
               received'[m][r].char[1] = on'[b]
        PROVE  \/ received'[m][r].char[2] < job'[b][j][x][2]
               \/ j = 1 /\ Served(b, m)'
    <3>1. on'[b] = on[b]
      BY <1>1, <1>4
    <3>2. received[m][r].char[2] < job[b][j][x][2] \/ (j = 1 /\ Served(b, m))
      BY <1>1, <2>2, <3>1 DEF IInv, Before
    <3> QED
      BY <1>1, <2>1, <3>2
  <2>3. ASSUME NEW m \in Leaves, NEW r \in 1 .. Len(received'[m])
        PROVE  /\ received'[m][r].char[2] <= sent'[received'[m][r].char[1]]
               /\ \A i \in 1 .. Len(buf'[received'[m][r].char[1]]) :
                    received'[m][r].char[2] < buf'[received'[m][r].char[1]][i][2]
    BY <1>1 DEF IInv, Before
  <2> QED
    BY ONLY <2>2, <2>3 DEF Before, Served
<1> QED
  BY <1>5, <1>7, <1>8, <1>9, <1>10 DEF Characters
-----------------------------------------------------------------------------
(***************************************************************************)
(* What a leaf was given through the collection, and how much of a list    *)
(* another one ends with.                                                  *)
(***************************************************************************)
\* Every non-empty set of natural numbers has a least element.
LEMMA LeastNatural ==
  ASSUME NEW T \in SUBSET Nat, T # {}
  PROVE  \E n \in T : \A m \in T : n <= m
<1>1. \E n \in T : \A m \in T : ~ (<<m, n>> \in OpToRel(<, Nat))
  BY NatLessThanWellFounded, WFMin
<1>2. PICK n \in T : \A m \in T : ~ (<<m, n>> \in OpToRel(<, Nat))
  BY <1>1
<1>3. ASSUME NEW m \in T
      PROVE  n <= m
  <2>1. <<m, n>> \notin OpToRel(<, Nat)
    BY <1>2
  <2>2. ~ (m < n)
    BY <2>1 DEF OpToRel
  <2> QED
    BY <2>2
<1> QED
  BY <1>3

\* A set that contains 0 and, below N, the successor of each of its members contains
\* every number up to N.
LEMMA UpTo ==
  ASSUME NEW N \in Nat, NEW S, 0 \in S, \A n \in 0 .. N - 1 : n \in S => n + 1 \in S
  PROVE  \A n \in 0 .. N : n \in S
<1> DEFINE Bad == {n \in 0 .. N : n \notin S}
<1> SUFFICES ASSUME Bad # {} PROVE FALSE
  OBVIOUS
<1>1. PICK n \in Bad : \A m \in Bad : n <= m
  <2>1. Bad \in SUBSET Nat
    OBVIOUS
  <2> QED
    BY <2>1, LeastNatural
<1>2. n \in 0 .. N /\ n \notin S /\ n # 0
  OBVIOUS
<1>3. n - 1 \in 0 .. N - 1 /\ n - 1 \notin Bad /\ (n - 1) + 1 = n
  BY <1>1, <1>2
<1>4. n - 1 \in S
  BY <1>3
<1> QED
  BY <1>2, <1>3, <1>4

\* What a leaf is handed: a character and the sink that hands it.
Records == [char : Chars, via : Sinks]

\* What a list of records contains that came through the collection.
Through(q) ==
  LET upTo[i \in 0 .. Len(q)] ==
        IF i = 0 THEN <<>>
        ELSE IF q[i].via = Collection THEN Append(upTo[i - 1], q[i].char)
        ELSE upTo[i - 1]
  IN  upTo[Len(q)]

\* f tells what each prefix of q contains that came through the collection.
Tells(f, q) ==
  /\ f[0] = <<>>
  /\ \A i \in 1 .. Len(q) :
       f[i] = IF q[i].via = Collection THEN Append(f[i - 1], q[i].char) ELSE f[i - 1]

\* There is such a function.
LEMMA TellsExists ==
  ASSUME NEW q \in Seq(Records)
  PROVE  \E f \in [0 .. Len(q) -> Seq(Chars)] : Tells(f, q)
<1> DEFINE Upto(f, n) == /\ f[0] = <<>>
                         /\ \A i \in 1 .. n : f[i] = IF q[i].via = Collection
                                                     THEN Append(f[i - 1], q[i].char) ELSE f[i - 1]
           Good == {n \in 0 .. Len(q) : \E f \in [0 .. n -> Seq(Chars)] : Upto(f, n)}
<1>0. Len(q) \in Nat
  OBVIOUS
<1>1. 0 \in Good
  <2>1. [i \in 0 .. 0 |-> <<>>] \in [0 .. 0 -> Seq(Chars)]
    BY Chunks
  <2>2. Upto([i \in 0 .. 0 |-> <<>>], 0)
    OBVIOUS
  <2> HIDE DEF Upto
  <2>3. 0 \in 0 .. Len(q)
    BY <1>0
  <2> QED
    BY <2>1, <2>2, <2>3
<1>2. ASSUME NEW n \in 0 .. Len(q) - 1, n \in Good PROVE n + 1 \in Good
  <2>1. PICK f \in [0 .. n -> Seq(Chars)] : Upto(f, n)
    BY <1>2
  <2>2. q[n + 1].char \in Chars
    <3>1. n + 1 \in 1 .. Len(q)
      BY <1>0
    <3>2. q[n + 1] \in Records
      BY <3>1
    <3> QED
      BY <3>2 DEF Records
  <2> DEFINE last == IF q[n + 1].via = Collection THEN Append(f[n], q[n + 1].char) ELSE f[n]
             g == [i \in 0 .. n + 1 |-> IF i = n + 1 THEN last ELSE f[i]]
  <2>3. last \in Seq(Chars)
    BY <1>0, <2>2
  <2>4. g \in [0 .. n + 1 -> Seq(Chars)]
    <3> HIDE DEF last
    <3> QED
      BY <1>0, <2>3
  <2>5. /\ g[0] = f[0] /\ g[n + 1] = last
        /\ \A i \in 1 .. n : g[i] = f[i] /\ g[i - 1] = f[i - 1]
        /\ g[(n + 1) - 1] = f[n]
    <3> HIDE DEF last
    <3> QED
      BY <1>0
  <2>6. Upto(g, n + 1)
    <3>1. ASSUME NEW i \in 1 .. n + 1
          PROVE  g[i] = IF q[i].via = Collection THEN Append(g[i - 1], q[i].char) ELSE g[i - 1]
      <4>1. CASE i = n + 1
        BY <2>5, <4>1
      <4>2. CASE i # n + 1
        <5>1. i \in 1 .. n
          BY <1>0, <4>2
        <5> HIDE DEF g
        <5> QED
          BY <2>1, <2>5, <5>1
      <4> QED
        BY <4>1, <4>2
    <3> HIDE DEF g
    <3> QED
      BY <2>1, <2>5, <3>1
  <2>7. n + 1 \in 0 .. Len(q)
    BY <1>0
  <2> HIDE DEF g, Upto
  <2> QED
    BY <2>4, <2>6, <2>7
<1>3. \A n \in 0 .. Len(q) : n \in Good
  <2> HIDE DEF Good
  <2> QED
    BY <1>0, <1>1, <1>2, UpTo
<1>4. PICK f \in [0 .. Len(q) -> Seq(Chars)] : Upto(f, Len(q))
  <2>1. Len(q) \in 0 .. Len(q)
    BY <1>0
  <2>2. Len(q) \in Good
    <3> HIDE DEF Good
    <3> QED
      BY <1>3, <2>1
  <2> HIDE DEF Upto
  <2> QED
    BY <2>2
<1> QED
  BY <1>4 DEF Tells

\* There is only one, and Through is its last value.
LEMMA ThroughIs ==
  ASSUME NEW q \in Seq(Records), NEW f, Tells(f, q)
  PROVE  Through(q) = f[Len(q)]
<1>0. Len(q) \in Nat
  OBVIOUS
<1> DEFINE Value(h, i) == IF i = 0 THEN <<>>
                          ELSE IF q[i].via = Collection THEN Append(h[i - 1], q[i].char)
                          ELSE h[i - 1]
           upTo == CHOOSE h : h = [i \in 0 .. Len(q) |-> Value(h, i)]
<1>1. PICK g \in [0 .. Len(q) -> Seq(Chars)] : Tells(g, q)
  BY TellsExists
<1>2. g = [i \in 0 .. Len(q) |-> Value(g, i)]
  <2>1. \A i \in 0 .. Len(q) : g[i] = Value(g, i)
    <3>1. ASSUME NEW i \in 0 .. Len(q) PROVE g[i] = Value(g, i)
      <4>1. CASE i = 0
        BY <1>1, <4>1 DEF Tells
      <4>2. CASE i # 0
        <5>1. i \in 1 .. Len(q)
          BY <1>0, <4>2
        <5> QED
          BY <1>1, <4>2, <5>1 DEF Tells
      <4> QED
        BY <4>1, <4>2
    <3> QED
      BY <3>1
  <2> HIDE DEF Value
  <2> QED
    BY <2>1
<1>3. upTo = [i \in 0 .. Len(q) |-> Value(upTo, i)]
  <2> HIDE DEF Value
  <2> QED
    BY <1>2
<1>4. Through(q) = upTo[Len(q)]
  BY DEF Through
<1>5. PICK u : u = upTo
  OBVIOUS
<1>6. \A i \in 0 .. Len(q) : u[i] = Value(u, i)
  <2> HIDE DEF Value, upTo
  <2>1. u = [i \in 0 .. Len(q) |-> Value(u, i)]
    BY <1>3, <1>5
  <2> QED
    BY <2>1
<1> HIDE DEF upTo
<1> DEFINE Same == {n \in 0 .. Len(q) : u[n] = f[n]}
<1>7. 0 \in Same
  BY <1>0, <1>6 DEF Tells
<1>8. ASSUME NEW n \in 0 .. Len(q) - 1, n \in Same PROVE n + 1 \in Same
  <2>1. n + 1 \in 1 .. Len(q) /\ n + 1 # 0 /\ (n + 1) - 1 = n
    BY <1>0
  <2>2. u[n + 1] = Value(u, n + 1)
    BY <1>6, <2>1
  <2>3. f[n + 1] = IF q[n + 1].via = Collection THEN Append(f[n], q[n + 1].char) ELSE f[n]
    BY <2>1 DEF Tells
  <2>4. u[n] = f[n]
    BY <1>8
  <2> QED
    BY <2>1, <2>2, <2>3, <2>4
<1>9. \A n \in 0 .. Len(q) : n \in Same
  <2> HIDE DEF Same
  <2> QED
    BY <1>0, <1>7, <1>8, UpTo
<1> QED
  BY <1>0, <1>4, <1>5, <1>9

\* It is a list of characters, and grows by what comes through the collection.
LEMMA ThroughMore ==
  ASSUME NEW q \in Seq(Records), NEW chunk \in Seq(Chars), NEW via \in Sinks
  PROVE  /\ Through(q) \in Seq(Chars)
         /\ Through(q \o Arriving(chunk, via)) =
              IF via = Collection THEN Through(q) \o chunk ELSE Through(q)
<1>l. PICK l : l = q \o Arriving(chunk, via)
  OBVIOUS
<1>0. Len(q) \in Nat /\ Len(chunk) \in Nat
  OBVIOUS
<1>1. l \in Seq(Records)
  <2>1. Arriving(chunk, via) \in Seq(Records)
    BY ArrivingType DEF Records
  <2> QED
    BY <1>l, <2>1
<1>2. Joined(l, q, chunk, via)
  BY <1>l, ArrivingBehind DEF Records
<1>3. PICK f \in [0 .. Len(q) -> Seq(Chars)] : Tells(f, q)
  BY TellsExists
<1>4. Through(q) = f[Len(q)] /\ Through(q) \in Seq(Chars)
  BY <1>0, <1>3, ThroughIs
<1>t. PICK t \in Seq(Chars) : t = f[Len(q)]
  BY <1>0, <1>3
<1> DEFINE More(j) == IF via = Collection THEN t \o SubSeq(chunk, 1, j) ELSE t
           g == [i \in 0 .. Len(l) |-> IF i <= Len(q) THEN f[i] ELSE More(i - Len(q))]
<1>5. Len(l) = Len(q) + Len(chunk)
  BY <1>2 DEF Joined
<1>6. More(0) = t /\ More(Len(chunk)) = IF via = Collection THEN t \o chunk ELSE t
  <2>1. SubSeq(chunk, 1, 0) = <<>> /\ SubSeq(chunk, 1, Len(chunk)) = chunk
    BY <1>0
  <2>2. t \o <<>> = t
    OBVIOUS
  <2> QED
    BY <2>1, <2>2
<1>7. ASSUME NEW j \in 1 .. Len(chunk)
      PROVE  More(j) = IF via = Collection THEN Append(More(j - 1), chunk[j]) ELSE More(j - 1)
  <2>1. SubSeq(chunk, 1, j) = Append(SubSeq(chunk, 1, j - 1), chunk[j])
    BY <1>0
  <2>2. t \o Append(SubSeq(chunk, 1, j - 1), chunk[j]) =
          Append(t \o SubSeq(chunk, 1, j - 1), chunk[j])
    BY <1>0
  <2> QED
    BY <2>1, <2>2
<1>8. /\ \A i \in 0 .. Len(q) : g[i] = f[i]
      /\ \A i \in 0 .. Len(l) : i > Len(q) => g[i] = More(i - Len(q))
      /\ g[Len(q)] = More(0)
  <2> HIDE DEF More
  <2> QED
    BY <1>0, <1>5, <1>6, <1>t
<1>9. Tells(g, l)
  <2>1. g[0] = <<>>
    BY <1>0, <1>3, <1>8 DEF Tells
  <2>2. ASSUME NEW i \in 1 .. Len(l)
        PROVE  g[i] = IF l[i].via = Collection THEN Append(g[i - 1], l[i].char) ELSE g[i - 1]
    <3>1. CASE i \in 1 .. Len(q)
      <4>1. g[i] = f[i] /\ g[i - 1] = f[i - 1]
        BY <1>0, <1>8, <3>1
      <4>2. l[i] = q[i]
        BY <1>2, <3>1 DEF Joined
      <4> HIDE DEF g
      <4> QED
        BY <1>3, <3>1, <4>1, <4>2 DEF Tells
    <3>2. CASE i \notin 1 .. Len(q)
      <4>0. i - Len(q) \in 1 .. Len(chunk)
        BY ONLY <1>0, <1>5, <3>2, i \in 1 .. Len(l)
      <4>1. PICK j \in 1 .. Len(chunk) : j = i - Len(q)
        BY <4>0
      <4>2. l[i] = [char |-> chunk[j], via |-> via]
        BY <1>0, <1>2, <4>1 DEF Joined
      <4>3. g[i] = More(j)
        BY <1>0, <1>5, <1>8, <4>1
      <4>4. g[i - 1] = More(j - 1)
        <5> HIDE DEF g, More
        <5>1. CASE j = 1
          <6>1. i - 1 = Len(q) /\ j - 1 = 0
            BY ONLY <1>0, <4>1, <5>1, i \in 1 .. Len(l)
          <6> QED
            BY <1>8, <6>1
        <5>2. CASE j # 1
          <6>2. j \in Nat /\ j > 1 /\ j <= Len(chunk)
            BY ONLY <1>0, <5>2, j \in 1 .. Len(chunk)
          <6>3. i = Len(q) + j
            BY ONLY <1>0, <1>5, <4>1, <6>2, i \in 1 .. Len(l)
          <6>1. i - 1 \in 0 .. Len(l) /\ i - 1 > Len(q) /\ (i - 1) - Len(q) = j - 1
            BY ONLY <1>0, <1>5, <6>2, <6>3
          <6> QED
            BY <1>8, <6>1
        <5> QED
          BY <5>1, <5>2
      <4>5. l[i].via = via /\ l[i].char = chunk[j]
        BY <4>2
      <4> HIDE DEF g, More
      <4> QED
        BY <1>7, <4>3, <4>4, <4>5
    <3> QED
      BY <3>1, <3>2
  <2> HIDE DEF g
  <2> QED
    BY <2>1, <2>2 DEF Tells
<1>10. Through(l) = g[Len(l)]
  <2> HIDE DEF g
  <2> QED
    BY <1>1, <1>9, ThroughIs
<1>11. g[Len(l)] = More(Len(chunk))
  <2>1. CASE Len(chunk) = 0
    <3> HIDE DEF g, More
    <3> QED
      BY <1>0, <1>5, <1>8, <2>1
  <2>2. CASE Len(chunk) # 0
    <3> HIDE DEF g, More
    <3>1. Len(l) \in 0 .. Len(l) /\ Len(l) > Len(q) /\ Len(l) - Len(q) = Len(chunk)
      BY <1>0, <1>5, <2>2
    <3> QED
      BY <1>8, <3>1
  <2> QED
    BY <2>1, <2>2
<1>12. Through(l) = IF via = Collection THEN t \o chunk ELSE t
  <2> HIDE DEF g, More
  <2> QED
    BY <1>6, <1>10, <1>11
<1> QED
  BY <1>4, <1>12, <1>l, <1>t

\* A list ends with another when their last elements agree.
LEMMA EndsWithIs ==
  ASSUME NEW s \in Seq(Chars), NEW t \in Seq(Chars)
  PROVE  EndsWith(s, t) <=> /\ Len(t) <= Len(s)
                            /\ \A i \in 1 .. Len(t) : t[i] = s[Len(s) - Len(t) + i]
<1>0. Len(s) \in Nat /\ Len(t) \in Nat
  OBVIOUS
<1> SUFFICES ASSUME Len(t) <= Len(s)
             PROVE  SubSeq(s, Len(s) - Len(t) + 1, Len(s)) = t <=>
                      \A i \in 1 .. Len(t) : t[i] = s[Len(s) - Len(t) + i]
  BY DEF EndsWith
<1>d. PICK d \in Nat : d = Len(s) - Len(t)
  BY <1>0
<1>1. \A i \in d + 1 .. Len(s) : s[i] \in Chars
  BY <1>0, <1>d
<1>2. /\ SubSeq(s, d + 1, Len(s)) \in Seq(Chars)
      /\ Len(SubSeq(s, d + 1, Len(s))) = IF d + 1 <= Len(s) THEN Len(s) - (d + 1) + 1 ELSE 0
      /\ \A i \in 1 .. Len(s) - (d + 1) + 1 : SubSeq(s, d + 1, Len(s))[i] = s[(d + 1) + i - 1]
  BY <1>0, <1>1, SubSeqProperties
<1>u. PICK u \in Seq(Chars) : u = SubSeq(s, d + 1, Len(s))
  BY <1>2
<1>3. Len(u) = Len(t)
  BY <1>0, <1>2, <1>d, <1>u
<1>4. \A i \in 1 .. Len(t) : u[i] = s[d + i]
  <2>1. ASSUME NEW i \in 1 .. Len(t) PROVE u[i] = s[d + i]
    <3>1. i \in 1 .. Len(s) - (d + 1) + 1 /\ (d + 1) + i - 1 = d + i
      BY <1>0, <1>d
    <3> QED
      BY <1>2, <1>u, <3>1
  <2> QED
    BY <2>1
<1>5. u = t <=> \A i \in 1 .. Len(t) : u[i] = t[i]
  BY <1>3
<1>6. SubSeq(s, Len(s) - Len(t) + 1, Len(s)) = u
  BY <1>d, <1>u
<1>7. \A i \in 1 .. Len(t) : s[Len(s) - Len(t) + i] = u[i]
  BY <1>4, <1>d
<1> QED
  BY <1>5, <1>6, <1>7

\* Every list ends with the empty one, and with what was joined to it last.
LEMMA EndsWithMore ==
  ASSUME NEW s \in Seq(Chars), NEW t \in Seq(Chars), NEW c \in Seq(Chars)
  PROVE  /\ EndsWith(s, <<>>)
         /\ EndsWith(s \o c, c)
         /\ EndsWith(s, t) => EndsWith(s \o c, t \o c)
<1>0. Len(s) \in Nat /\ Len(t) \in Nat /\ Len(c) \in Nat
  OBVIOUS
<1>1. EndsWith(s, <<>>)
  <2>1. PICK e \in Seq(Chars) : e = <<>>
    BY Chunks
  <2>2. Len(e) = 0
    BY <2>1
  <2>3. EndsWith(s, e)
    <3>1. Len(e) <= Len(s) /\ \A i \in 1 .. Len(e) : e[i] = s[Len(s) - Len(e) + i]
      BY <1>0, <2>2
    <3> QED
      BY <3>1, EndsWithIs
  <2> QED
    BY <2>1, <2>3
<1>2. /\ s \o c \in Seq(Chars) /\ Len(s \o c) = Len(s) + Len(c)
      /\ t \o c \in Seq(Chars) /\ Len(t \o c) = Len(t) + Len(c)
      /\ \A i \in 1 .. Len(s) + Len(c) : (s \o c)[i] = IF i <= Len(s) THEN s[i] ELSE c[i - Len(s)]
      /\ \A i \in 1 .. Len(t) + Len(c) : (t \o c)[i] = IF i <= Len(t) THEN t[i] ELSE c[i - Len(t)]
  BY ConcatProperties
<1>p. PICK p, q : p = s \o c /\ q = t \o c
  OBVIOUS
<1>3. /\ p \in Seq(Chars) /\ Len(p) = Len(s) + Len(c)
      /\ q \in Seq(Chars) /\ Len(q) = Len(t) + Len(c)
      /\ \A i \in 1 .. Len(s) + Len(c) : p[i] = IF i <= Len(s) THEN s[i] ELSE c[i - Len(s)]
      /\ \A i \in 1 .. Len(t) + Len(c) : q[i] = IF i <= Len(t) THEN t[i] ELSE c[i - Len(t)]
  BY <1>2, <1>p
<1>4. EndsWith(p, c)
  <2>1. ASSUME NEW i \in 1 .. Len(c) PROVE c[i] = p[Len(p) - Len(c) + i]
    <3>1. /\ Len(p) - Len(c) + i = Len(s) + i /\ Len(s) + i \in 1 .. Len(s) + Len(c)
          /\ ~ (Len(s) + i <= Len(s)) /\ (Len(s) + i) - Len(s) = i
      BY <1>0, <1>3
    <3> QED
      BY <1>3, <3>1
  <2>2. Len(c) <= Len(p)
    BY <1>0, <1>3
  <2> QED
    BY <1>3, <2>1, <2>2, EndsWithIs
<1>5. ASSUME EndsWith(s, t) PROVE EndsWith(p, q)
  <2>1. Len(t) <= Len(s) /\ \A i \in 1 .. Len(t) : t[i] = s[Len(s) - Len(t) + i]
    BY <1>5, EndsWithIs
  <2>2. ASSUME NEW i \in 1 .. Len(q) PROVE q[i] = p[Len(p) - Len(q) + i]
    <3>0. i \in Nat /\ i >= 1 /\ i <= Len(t) + Len(c)
      BY <1>0, <1>3
    <3>1. /\ Len(p) - Len(q) + i = Len(s) - Len(t) + i
          /\ Len(s) - Len(t) + i \in 1 .. Len(s) + Len(c)
      BY <1>0, <1>3, <2>1, <3>0
    <3>2. CASE i <= Len(t)
      <4>1. i \in 1 .. Len(t) /\ Len(s) - Len(t) + i <= Len(s)
        BY <1>0, <2>1, <3>0, <3>2
      <4>2. q[i] = t[i]
        BY <1>3, <3>0, <3>2
      <4>3. p[Len(s) - Len(t) + i] = s[Len(s) - Len(t) + i]
        BY <1>3, <3>1, <4>1
      <4> QED
        BY <2>1, <3>1, <4>1, <4>2, <4>3
    <3>3. CASE i > Len(t)
      <4>1. ~ (i <= Len(t)) /\ ~ (Len(s) - Len(t) + i <= Len(s))
        BY <1>0, <2>1, <3>0, <3>3
      <4>2. q[i] = c[i - Len(t)]
        BY <1>3, <3>0, <4>1
      <4>3. p[Len(s) - Len(t) + i] = c[(Len(s) - Len(t) + i) - Len(s)]
        BY <1>3, <3>1, <4>1
      <4>4. (Len(s) - Len(t) + i) - Len(s) = i - Len(t)
        BY <1>0, <3>0
      <4> QED
        BY <3>1, <4>2, <4>3, <4>4
    <3> QED
      BY <1>0, <3>0, <3>2, <3>3
  <2>3. Len(q) <= Len(p)
    BY <1>0, <1>3, <2>1
  <2> QED
    BY <1>3, <2>2, <2>3, EndsWithIs
<1> QED
  BY <1>1, <1>4, <1>5, <1>p

\* A part of a list, when the list grows or a known end of it is told apart.
LEMMA Parts ==
  ASSUME NEW s \in Seq(Chars), NEW c \in Seq(Chars), NEW i \in Nat
  PROVE  /\ \A n \in 0 .. Len(s) : SubSeq(s, i + 1, n) \in Seq(Chars)
         /\ \A n \in 0 .. Len(s) : SubSeq(s \o c, i + 1, n) = SubSeq(s, i + 1, n)
         /\ i = Len(s) => SubSeq(s, i + 1, Len(s)) = <<>>
         /\ EndsWith(s, c) /\ i <= Len(s) - Len(c) =>
              SubSeq(s, i + 1, Len(s)) = SubSeq(s, i + 1, Len(s) - Len(c)) \o c
<1>0. Len(s) \in Nat /\ Len(c) \in Nat
  OBVIOUS
<1>1. ASSUME NEW n \in 0 .. Len(s)
      PROVE  /\ SubSeq(s, i + 1, n) \in Seq(Chars)
             /\ Len(SubSeq(s, i + 1, n)) = IF i + 1 <= n THEN n - i ELSE 0
             /\ \A j \in 1 .. n - i : SubSeq(s, i + 1, n)[j] = s[i + j]
  <2>1. \A j \in i + 1 .. n : s[j] \in Chars
    BY <1>0
  <2>2. i + 1 \in Int /\ n \in Int
    BY <1>0
  <2>3. /\ SubSeq(s, i + 1, n) \in Seq(Chars)
        /\ Len(SubSeq(s, i + 1, n)) = IF i + 1 <= n THEN n - (i + 1) + 1 ELSE 0
        /\ \A j \in 1 .. n - (i + 1) + 1 : SubSeq(s, i + 1, n)[j] = s[(i + 1) + j - 1]
    BY <2>1, <2>2, SubSeqProperties
  <2>4. n - (i + 1) + 1 = n - i /\ \A j \in 1 .. n - i : (i + 1) + j - 1 = i + j
    BY <1>0
  <2> QED
    BY <2>3, <2>4
<1>2. ASSUME NEW n \in 0 .. Len(s) PROVE SubSeq(s \o c, i + 1, n) = SubSeq(s, i + 1, n)
  <2>p. PICK p : p = s \o c
    OBVIOUS
  <2>1. /\ p \in Seq(Chars) /\ Len(p) = Len(s) + Len(c)
        /\ \A j \in 1 .. Len(s) + Len(c) : p[j] = IF j <= Len(s) THEN s[j] ELSE c[j - Len(s)]
    BY <2>p, ConcatProperties
  <2>2. \A j \in 1 .. Len(s) : p[j] = s[j]
    BY <1>0, <2>1
  <2>3. \A j \in i + 1 .. n : p[j] \in Chars /\ p[j] = s[j]
    BY <1>0, <2>2
  <2>4. i + 1 \in Int /\ n \in Int
    BY <1>0
  <2>5. /\ SubSeq(p, i + 1, n) \in Seq(Chars)
        /\ Len(SubSeq(p, i + 1, n)) = IF i + 1 <= n THEN n - (i + 1) + 1 ELSE 0
        /\ \A j \in 1 .. n - (i + 1) + 1 : SubSeq(p, i + 1, n)[j] = p[(i + 1) + j - 1]
    BY <2>3, <2>4, SubSeqProperties
  <2>6. n - (i + 1) + 1 = n - i
        /\ \A j \in 1 .. n - i : (i + 1) + j - 1 = i + j /\ i + j \in i + 1 .. n
    BY <1>0
  <2>u. PICK u, v \in Seq(Chars) : u = SubSeq(p, i + 1, n) /\ v = SubSeq(s, i + 1, n)
    BY <1>1, <2>5
  <2>7. Len(u) = Len(v)
    BY <1>1, <2>5, <2>6, <2>u
  <2>8. \A j \in 1 .. n - i : u[j] = v[j]
    BY <1>1, <2>3, <2>5, <2>6, <2>u
  <2>9. \A j \in 1 .. Len(u) : u[j] = v[j]
    BY <1>0, <2>5, <2>6, <2>8, <2>u
  <2> QED
    BY <2>7, <2>9, <2>u, <2>p, SeqEqual
<1>3. ASSUME i = Len(s) PROVE SubSeq(s, i + 1, Len(s)) = <<>>
  BY <1>0, <1>3, SubSeqEmpty
<1>4. ASSUME EndsWith(s, c), i <= Len(s) - Len(c)
      PROVE  SubSeq(s, i + 1, Len(s)) = SubSeq(s, i + 1, Len(s) - Len(c)) \o c
  <2>1. Len(c) <= Len(s) /\ \A j \in 1 .. Len(c) : c[j] = s[Len(s) - Len(c) + j]
    BY <1>4, EndsWithIs
  <2>n. PICK n \in 0 .. Len(s) : n = Len(s) - Len(c)
    BY <1>0, <2>1
  <2>m. PICK m \in 0 .. Len(s) : m = Len(s)
    BY <1>0
  <2>u. PICK u \in Seq(Chars), v \in Seq(Chars) :
          u = SubSeq(s, i + 1, m) /\ v = SubSeq(s, i + 1, n)
    BY <1>1
  <2>2. /\ Len(u) = Len(s) - i /\ Len(v) = n - i /\ n = Len(s) - Len(c) /\ i <= n
        /\ \A j \in 1 .. Len(s) - i : u[j] = s[i + j]
        /\ \A j \in 1 .. n - i : v[j] = s[i + j]
    <3>1. n = Len(s) - Len(c) /\ i <= n /\ m = Len(s)
      BY <1>4, <2>n, <2>m
    <3>2. /\ Len(u) = IF i + 1 <= m THEN m - i ELSE 0
          /\ \A j \in 1 .. m - i : u[j] = s[i + j]
      BY <1>1, <2>u
    <3>3. /\ Len(v) = IF i + 1 <= n THEN n - i ELSE 0
          /\ \A j \in 1 .. n - i : v[j] = s[i + j]
      BY <1>1, <2>u
    <3>4. Len(u) = Len(s) - i
      BY ONLY <1>0, <3>1, <3>2, i \in Nat, n \in 0 .. Len(s)
    <3>5. Len(v) = n - i
      BY ONLY <1>0, <3>1, <3>3, i \in Nat, n \in 0 .. Len(s)
    <3> QED
      BY ONLY <3>1, <3>2, <3>3, <3>4, <3>5
  <2>w. PICK w : w = v \o c
    OBVIOUS
  <2>3. /\ w \in Seq(Chars) /\ Len(w) = Len(v) + Len(c)
        /\ \A j \in 1 .. Len(v) + Len(c) : w[j] = IF j <= Len(v) THEN v[j] ELSE c[j - Len(v)]
    BY <2>w, ConcatProperties
  <2>4. ASSUME NEW j \in 1 .. Len(u) PROVE u[j] = w[j]
    <3>0. /\ j \in Nat /\ 1 <= j /\ j <= Len(s) - i /\ j \in 1 .. Len(v) + Len(c)
          /\ u[j] = s[i + j]
      BY <1>0, <2>2
    <3>1. CASE j <= n - i
      BY <1>0, <2>2, <2>3, <3>0, <3>1
    <3>2. CASE j > n - i
      <4>1. j - Len(v) \in 1 .. Len(c) /\ Len(s) - Len(c) + (j - Len(v)) = i + j /\ ~ (j <= Len(v))
        BY <1>0, <2>2, <3>0, <3>2
      <4>2. c[j - Len(v)] = s[i + j]
        BY <2>1, <4>1
      <4> QED
        BY <2>3, <3>0, <4>1, <4>2
    <3> QED
      BY <1>0, <2>2, <3>0, <3>1, <3>2
  <2>5. Len(u) = Len(w)
    <3>1. PICK lu, lv, lw, ls, lc : lu = Len(u) /\ lv = Len(v) /\ lw = Len(w) /\ ls = Len(s) /\ lc = Len(c)
      OBVIOUS
    <3>2. /\ ls \in Nat /\ lc \in Nat /\ n \in Int /\ i \in Nat
          /\ lu = ls - i /\ lv = n - i /\ n = ls - lc /\ lw = lv + lc
      <4>1. /\ Len(s) \in Nat /\ Len(c) \in Nat /\ n \in Int /\ i \in Nat
        BY <1>0
      <4>2. Len(u) = Len(s) - i /\ Len(v) = n - i /\ n = Len(s) - Len(c) /\ Len(w) = Len(v) + Len(c)
        BY ONLY <2>2, <2>3
      <4> QED
        BY ONLY <3>1, <4>1, <4>2
    <3> QED
      BY ONLY <3>1, <3>2
  <2>6. u = w
    BY <2>3, <2>4, <2>5, SeqEqual
  <2> QED
    BY <2>6, <2>u, <2>w, <2>n, <2>m
<1> QED
  BY <1>1, <1>2, <1>3, <1>4
-----------------------------------------------------------------------------
(***************************************************************************)
(* The members of the collection.                                          *)
(***************************************************************************)
\* The member named n has got the log up to `upto`, from when it became one.
Has(n, upto) ==
  since[n] <= upto
  /\ EndsWith(Through(received[members[n]]), SubSeq(logged, since[n] + 1, upto))

\* Between two writes every member has all of the log; a write in progress is its
\* last part, and those that the write has reached have that, too.
LEMMA HandingIs ==
  ASSUME IInv
  PROVE  /\ (\A b \in Actors : next[b] = 0) =>
              \A n \in Names : members[n] # None => Has(n, Len(logged))
         /\ \A a \in Actors : next[a] # 0 =>
              /\ EndsWith(logged, Head(job[a]))
              /\ \A n \in Names : members[n] # None =>
                   Has(n, IF n >= next[a] THEN Len(logged) - Len(Head(job[a])) ELSE Len(logged))
<1>1. \A n \in Names : members[n] # None =>
        /\ since[n] <= Reached(n)
        /\ EndsWith(Through(received[members[n]]), SubSeq(logged, since[n] + 1, Reached(n)))
  BY DEF IInv, HandingOn, ViaCollection, Through
<1>2. ASSUME \A b \in Actors : next[b] = 0, NEW n \in Names
      PROVE  Reached(n) = Len(logged)
  BY <1>2 DEF Reached
<1>3. ASSUME NEW a \in Actors, next[a] # 0, NEW n \in Names
      PROVE  Reached(n) = IF n >= next[a] THEN Len(logged) - Len(Head(job[a])) ELSE Len(logged)
  <2>1. collLock = a /\ \A b \in Actors : next[b] # 0 => b = a
    BY <1>3 DEF IInv, CollLocking
  <2>2. (\E b \in Actors : next[b] # 0 /\ n >= next[b]) <=> n >= next[a]
    BY <1>3, <2>1
  <2> QED
    BY <2>1, <2>2 DEF Reached
<1>4. \A a \in Actors : next[a] # 0 => EndsWith(logged, Head(job[a]))
  BY DEF IInv, HandingOn
<1> QED
  BY <1>1, <1>2, <1>3, <1>4 DEF Has

\* The same of the next state.
LEMMA HandingIsNext ==
  ASSUME CollLocking',
         (\A b \in Actors : next'[b] = 0) =>
              \A n \in Names : members'[n] # None => Has(n, Len(logged))',
         \A a \in Actors : next'[a] # 0 =>
              /\ EndsWith(logged', Head(job'[a]))
              /\ \A n \in Names : members'[n] # None =>
                   Has(n, IF n >= next[a] THEN Len(logged) - Len(Head(job[a])) ELSE Len(logged))'
  PROVE  HandingOn'
<1>1. ASSUME NEW n \in Names, members'[n] # None
      PROVE  /\ since'[n] <= Reached(n)'
             /\ EndsWith(Through(received'[members'[n]]),
                         SubSeq(logged', since'[n] + 1, Reached(n)'))
  <2>1. CASE \A b \in Actors : next'[b] = 0
    <3>1. Reached(n)' = Len(logged')
      BY <2>1 DEF Reached
    <3> QED
      BY <1>1, <2>1, <3>1 DEF Has
  <2>2. CASE \E b \in Actors : next'[b] # 0
    <3>1. PICK a \in Actors : next'[a] # 0
      BY <2>2
    <3>2. collLock' = a /\ \A b \in Actors : next'[b] # 0 => b = a
      BY <3>1 DEF CollLocking
    <3>3. (\E b \in Actors : next'[b] # 0 /\ n >= next'[b]) <=> n >= next'[a]
      BY <3>1, <3>2
    <3>4. Reached(n)' = IF n >= next'[a] THEN Len(logged') - Len(Head(job'[a])) ELSE Len(logged')
      BY <3>2, <3>3 DEF Reached
    <3> QED
      BY <1>1, <3>1, <3>4 DEF Has
  <2> QED
    BY <2>1, <2>2
<1> QED
  BY <1>1 DEF HandingOn, ViaCollection, Through

\* What does not touch the collection nor what is being handed on.
LEMMA Quiet ==
  ASSUME IInv, CollLocking',
         members' = members, since' = since, collLock' = collLock, next' = next, logged' = logged,
         \A k \in Leaves : Through(received'[k]) = Through(received[k]),
         \A b \in Actors : next[b] # 0 => Head(job'[b]) = Head(job[b])
  PROVE  HandingOn'
<1>1. ASSUME NEW n \in Names, members[n] # None, NEW upto
      PROVE  Has(n, upto) <=> Has(n, upto)'
  <2>1. members[n] \in Leaves
    BY <1>1 DEF IInv, TypeOK
  <2>2. Through(received'[members'[n]]) = Through(received[members[n]])
    BY <2>1
  <2> QED
    BY <2>2 DEF Has
<1>2. (\A b \in Actors : next'[b] = 0) =>
         \A n \in Names : members'[n] # None => Has(n, Len(logged))'
  <2>1. ASSUME \A b \in Actors : next'[b] = 0, NEW n \in Names, members'[n] # None
        PROVE  Has(n, Len(logged))'
    <3>1. PICK u : u = Len(logged)
      OBVIOUS
    <3>2. Has(n, u)
      BY <2>1, <3>1, HandingIs
    <3>3. Has(n, u)'
      BY <1>1, <2>1, <3>2
    <3> QED
      BY <3>1, <3>3 DEF Has
  <2> QED
    BY <2>1
<1>3. ASSUME NEW a \in Actors, next'[a] # 0
      PROVE  /\ EndsWith(logged', Head(job'[a]))
             /\ \A n \in Names : members'[n] # None =>
                   Has(n, IF n >= next[a] THEN Len(logged) - Len(Head(job[a])) ELSE Len(logged))'
  <2>1. EndsWith(logged, Head(job[a]))
    BY <1>3, HandingIs
  <2>2. ASSUME NEW n \in Names, members'[n] # None
        PROVE  Has(n, IF n >= next[a] THEN Len(logged) - Len(Head(job[a])) ELSE Len(logged))'
    <3>1. PICK u : u = IF n >= next[a] THEN Len(logged) - Len(Head(job[a])) ELSE Len(logged)
      OBVIOUS
    <3>2. Has(n, u)
      BY <1>3, <2>2, <3>1, HandingIs
    <3>3. Has(n, u)'
      BY <1>1, <2>2, <3>2
    <3>4. Head(job'[a]) = Head(job[a])
      BY <1>3
    <3> QED
      BY <3>1, <3>3, <3>4 DEF Has
  <2>3. Head(job'[a]) = Head(job[a])
    BY <1>3
  <2> QED
    BY <2>1, <2>2, <2>3
<1> QED
  BY <1>2, <1>3, HandingIsNext

\* Calls on streams, and their end, do not.
LEMMA CallsHanding ==
  ASSUME IInv, CollLocking', NEW s \in Streams, NEW a \in Actors,
         Enters(s, a) \/ Buffers(s) \/ Overflows(s) \/ End(a)
  PROVE  HandingOn'
<1>1. /\ members' = members /\ since' = since /\ collLock' = collLock /\ next' = next
      /\ logged' = logged /\ received' = received
  BY DEF Enters, Buffers, Overflows, End, coll
<1>2. \A b \in Actors : on[b] = None => next[b] = 0
  BY DEF IInv, Locking
<1>3. ASSUME NEW b \in Actors, next[b] # 0 PROVE Head(job'[b]) = Head(job[b])
  <2>1. CASE Enters(s, a)
    <3>1. b # a
      BY <1>2, <1>3, <2>1 DEF Enters
    <3>2. job'[b] = job[b]
      BY <2>1, <3>1 DEF Enters, IInv, TypeOK
    <3> QED
      BY <3>2
  <2>2. CASE Buffers(s) \/ End(a)
    BY <2>2 DEF Buffers, End
  <2>3. CASE Overflows(s)
    <3>1. b # s
      BY <1>2, <1>3, <2>3 DEF Overflows
    <3>2. job'[b] = job[b]
      BY <2>3, <3>1 DEF Overflows, IInv, TypeOK
    <3> QED
      BY <3>2
  <2> QED
    BY <2>1, <2>2, <2>3
<1> QED
  BY <1>1, <1>3, Quiet

\* Nor does what a leaf is written directly.
LEMMA WriteLeafHanding ==
  ASSUME IInv, CollLocking', NEW a \in Actors, WriteLeaf(a)
  PROVE  HandingOn'
<1>1. PICK k \in Leaves :
        /\ on[a] # None /\ job[a] # <<>> /\ sink[on[a]] = k
        /\ received' = [received EXCEPT ![k] = @ \o Arriving(Head(job[a]), k)]
        /\ job' = [job EXCEPT ![a] = Tail(@)]
        /\ members' = members /\ since' = since /\ collLock' = collLock /\ next' = next
        /\ logged' = logged
  BY DEF WriteLeaf, Writing, Idle, Target
<1>2. next[a] = 0 /\ k # Collection /\ k \in Sinks
  BY <1>1, Distinct DEF IInv, CollLocking
<1>3. \A b \in Actors : next[b] # 0 => Head(job'[b]) = Head(job[b])
  BY <1>1, <1>2 DEF IInv, TypeOK
<1>4. ASSUME NEW m \in Leaves PROVE Through(received'[m]) = Through(received[m])
  <2>1. CASE m = k
    <3>1. received'[k] = received[k] \o Arriving(Head(job[a]), k)
      BY <1>1 DEF IInv, TypeOK
    <3>2. received[k] \in Seq(Records) /\ Head(job[a]) \in Seq(Chars)
      <4>1. received[k] \in Seq(Records)
        BY DEF IInv, TypeOK, Records
      <4>2. Head(job[a]) \in Seq(Chars)
        BY <1>1 DEF IInv, TypeOK
      <4> QED
        BY <4>1, <4>2
    <3>3. Through(received[k] \o Arriving(Head(job[a]), k)) = Through(received[k])
      BY <1>2, <3>2, ThroughMore
    <3> QED
      BY <2>1, <3>1, <3>3
  <2>2. CASE m # k
    <3>1. received'[m] = received[m]
      BY <1>1, <2>2 DEF IInv, TypeOK
    <3> QED
      BY <3>1
  <2> QED
    BY <2>1, <2>2
<1> QED
  BY <1>1, <1>3, <1>4, Quiet

\* A new member has nothing to catch up with.
LEMMA RegistersHanding ==
  ASSUME IInv, CollLocking', Registers
  PROVE  HandingOn'
<1>1. /\ collLock = None /\ next' = next /\ logged' = logged /\ received' = received
  BY DEF Registers
<1>2. PICK n \in Names : \/ \E k \in Leaves : /\ members' = [members EXCEPT ![n] = k]
                                              /\ since' = [since EXCEPT ![n] = Len(logged)]
                         \/ members' = [members EXCEPT ![n] = None] /\ since' = since
  BY DEF Registers
<1>3. \A b \in Actors : next[b] = 0
  BY <1>1, Distinct DEF IInv, CollLocking
<1>4. logged \in Seq(Chars) /\ Len(logged) \in Nat
  BY DEF IInv, TypeOK
<1>5. ASSUME NEW m \in Names, members'[m] # None PROVE Has(m, Len(logged))'
  <2>1. CASE members'[m] = members[m] /\ since'[m] = since[m]
    <3>1. Has(m, Len(logged))
      BY <1>3, <1>5, <2>1, HandingIs
    <3> QED
      BY <1>1, <2>1, <3>1 DEF Has
  <2>2. CASE members'[m] \in Leaves /\ since'[m] = Len(logged)
    <3>1. PICK k \in Leaves : k = members'[m]
      BY <2>2
    <3>2. received[k] \in Seq(Records)
      BY DEF IInv, TypeOK, Records
    <3>3. Through(received[k]) \in Seq(Chars)
      <4>1. Collection \in Sinks
        BY Distinct
      <4> QED
        BY <3>2, <4>1, Chunks, ThroughMore
    <3>4. SubSeq(logged, Len(logged) + 1, Len(logged)) = <<>>
      BY <1>4, SubSeqEmpty
    <3>5. EndsWith(Through(received[k]), <<>>)
      BY <3>3, EndsWithMore, Chunks
    <3> QED
      <4>1. Through(received'[members'[m]]) = Through(received[k])
        BY <1>1, <3>1
      <4>2. SubSeq(logged', since'[m] + 1, Len(logged')) = <<>>
        BY <1>1, <2>2, <3>4
      <4>3. since'[m] <= Len(logged')
        BY <1>1, <1>4, <2>2
      <4> QED
        BY <3>5, <4>1, <4>2, <4>3 DEF Has
  <2>3. \/ members'[m] = members[m] /\ since'[m] = since[m]
        \/ members'[m] \in Leaves /\ since'[m] = Len(logged)
    <3>1. CASE m = n
      BY <1>2, <1>5, <3>1 DEF IInv, TypeOK
    <3>2. CASE m # n
      BY <1>2, <3>2 DEF IInv, TypeOK
    <3> QED
      BY <3>1, <3>2
  <2> QED
    BY <2>1, <2>2, <2>3
<1> QED
  BY <1>1, <1>3, <1>5, HandingIsNext

\* A write to the collection adds to the log what the members still have to get.
LEMMA WriteCollectionHanding ==
  ASSUME IInv, CollLocking', NEW a \in Actors, WriteCollection(a)
  PROVE  HandingOn'
<1>1. /\ job[a] # <<>> /\ collLock = None
      /\ next' = [next EXCEPT ![a] = 1] /\ logged' = logged \o Head(job[a])
      /\ job' = job /\ members' = members /\ since' = since /\ received' = received
  BY DEF WriteCollection, Writing, CollFree
<1>2. \A b \in Actors : next[b] = 0
  BY <1>1, Distinct DEF IInv, CollLocking
<1>3. \A b \in Actors : next'[b] = IF b = a THEN 1 ELSE 0
  BY <1>1, <1>2 DEF IInv, TypeOK
<1>4. PICK l \in Seq(Chars), h \in Seq(Chars) : l = logged /\ h = Head(job[a])
  BY <1>1 DEF IInv, TypeOK
<1>5. /\ logged' = l \o h /\ Len(l) \in Nat /\ Len(h) \in Nat /\ Len(l \o h) = Len(l) + Len(h)
  <2>1. /\ Len(l) \in Nat /\ Len(h) \in Nat /\ Len(l \o h) = Len(l) + Len(h)
    OBVIOUS
  <2> QED
    BY <1>1, <1>4, <2>1
<1>6. EndsWith(logged', h)
  BY <1>5, EndsWithMore
<1>7. ASSUME NEW n \in Names, members[n] # None PROVE Has(n, Len(l))'
  <2>1. Has(n, Len(l))
    BY <1>2, <1>4, <1>7, HandingIs
  <2>2. since[n] \in Nat
    BY DEF IInv, TypeOK
  <2>3. Len(l) \in 0 .. Len(l)
    BY <1>5
  <2>4. SubSeq(l \o h, since[n] + 1, Len(l)) = SubSeq(l, since[n] + 1, Len(l))
    BY <2>2, <2>3, Parts
  <2> QED
    BY <1>1, <1>4, <1>5, <2>1, <2>4 DEF Has
<1>8. ASSUME NEW n \in Names, members'[n] # None
      PROVE  Has(n, IF n >= next[a] THEN Len(logged) - Len(Head(job[a])) ELSE Len(logged))'
  <2>1. n >= next'[a]
    BY <1>3 DEF Names
  <2>2. Len(logged') - Len(Head(job'[a])) = Len(l)
    BY <1>1, <1>4, <1>5
  <2>3. Has(n, Len(l))'
    BY <1>1, <1>7, <1>8
  <2> QED
    BY <2>1, <2>2, <2>3 DEF Has
<1>9. next'[a] # 0 /\ \A b \in Actors : next'[b] # 0 => b = a
  BY <1>3
<1>10. EndsWith(logged', Head(job'[a]))
  BY <1>1, <1>4, <1>6
<1> QED
  BY <1>8, <1>9, <1>10, HandingIsNext

\* The member that is reached gets what was written to the collection last.
LEMMA HandOnHanding ==
  ASSUME IInv, CollLocking', NEW a \in Actors, HandOn(a)
  PROVE  HandingOn'
<1>1. /\ next[a] \in Names /\ next' = [next EXCEPT ![a] = @ + 1]
      /\ logged' = logged /\ job' = job /\ members' = members /\ since' = since
      /\ IF members[next[a]] \in Leaves
           THEN received' = [received EXCEPT ![members[next[a]]] =
                               @ \o Arriving(Head(job[a]), Collection)]
           ELSE received' = received
  BY DEF HandOn
<1>2. /\ next[a] # 0 /\ next[a] \in Nat /\ next'[a] = next[a] + 1
      /\ \A b \in Actors : b # a => next'[b] = next[b]
  BY <1>1, Distinct DEF IInv, TypeOK, Names
<1>3. job[a] # <<>> /\ collLock = a /\ \A b \in Actors : b # a => next[b] = 0
  BY <1>2 DEF IInv, CollLocking
<1>4. PICK l \in Seq(Chars), h \in Seq(Chars) : l = logged /\ h = Head(job[a])
  BY <1>3 DEF IInv, TypeOK
<1>5. /\ EndsWith(l, h) /\ Len(l) \in Nat /\ Len(h) \in Nat
      /\ \A n \in Names : members[n] # None =>
           Has(n, IF n >= next[a] THEN Len(l) - Len(h) ELSE Len(l))
  BY <1>2, <1>4, HandingIs
<1>6. ASSUME NEW n \in Names, members[n] # None, n # next[a]
      PROVE  Through(received'[members[n]]) = Through(received[members[n]])
  <2>1. CASE members[next[a]] \in Leaves
    <3>1. members[n] # members[next[a]]
      BY <1>1, <1>6 DEF IInv, CollLocking
    <3>2. received'[members[n]] = received[members[n]]
      BY <1>1, <1>6, <2>1, <3>1 DEF IInv, TypeOK
    <3> QED
      BY <3>2
  <2>2. CASE members[next[a]] \notin Leaves
    BY <1>1, <2>2
  <2> QED
    BY <2>1, <2>2
<1>7. ASSUME NEW n \in Names, members[n] # None, n # next[a],
             NEW u, u = IF n >= next[a] + 1 THEN Len(l) - Len(h) ELSE Len(l)
      PROVE  Has(n, u)'
  <2>1. n >= next[a] <=> n >= next[a] + 1
    BY <1>2, <1>7 DEF Names
  <2>2. Has(n, u)
    BY <1>5, <1>7, <2>1
  <2> QED
    BY <1>1, <1>6, <1>7, <2>2 DEF Has
<1>8. ASSUME NEW m \in Names, members'[m] # None, m # next[a]
      PROVE  Has(m, IF m >= next[a] THEN Len(logged) - Len(Head(job[a])) ELSE Len(logged))'
  <2>1. PICK u : u = IF m >= next[a] + 1 THEN Len(l) - Len(h) ELSE Len(l)
    OBVIOUS
  <2>2. (IF m >= next'[a] THEN Len(logged') - Len(Head(job'[a])) ELSE Len(logged')) = u
    BY <1>1, <1>2, <1>4, <2>1
  <2>3. members[m] # None
    BY <1>1, <1>8
  <2>4. Has(m, u)'
    BY <1>7, <1>8, <2>1, <2>3
  <2> QED
    BY <2>2, <2>4 DEF Has
<1>9. ASSUME NEW n \in Names, members'[n] # None, n = next[a]
      PROVE  Has(n, IF n >= next[a] THEN Len(logged) - Len(Head(job[a])) ELSE Len(logged))'
  <2>k. PICK k \in Leaves : k = members[next[a]]
    BY <1>1, <1>9 DEF IInv, TypeOK
  <2>1. received[k] \in Seq(Records) /\ Collection \in Sinks
    BY Distinct DEF IInv, TypeOK, Records
  <2>2. received'[k] = received[k] \o Arriving(h, Collection)
    BY <1>1, <1>4, <2>k DEF IInv, TypeOK
  <2>3. Through(received[k]) \in Seq(Chars) /\ Through(received'[k]) = Through(received[k]) \o h
    <3>1. /\ Through(received[k]) \in Seq(Chars)
          /\ Through(received[k] \o Arriving(h, Collection)) = Through(received[k]) \o h
      BY <2>1, ThroughMore
    <3> QED
      BY <2>2, <3>1
  <2>4. Has(next[a], Len(l) - Len(h))
    BY <1>1, <1>2, <1>5, <1>9
  <2>i. PICK i \in Nat : i = since[next[a]]
    BY <1>1 DEF IInv, TypeOK
  <2>5. /\ i <= Len(l) - Len(h)
        /\ EndsWith(Through(received[k]), SubSeq(l, i + 1, Len(l) - Len(h)))
    BY <1>4, <2>4, <2>i, <2>k DEF Has
  <2>6. Len(l) - Len(h) \in 0 .. Len(l)
    BY <1>5, <2>5
  <2>7. /\ SubSeq(l, i + 1, Len(l) - Len(h)) \in Seq(Chars)
        /\ SubSeq(l, i + 1, Len(l)) = SubSeq(l, i + 1, Len(l) - Len(h)) \o h
    BY <1>5, <2>5, <2>6, Parts
  <2>8. EndsWith(Through(received'[k]), SubSeq(l, i + 1, Len(l)))
    <3>1. PICK t \in Seq(Chars), v \in Seq(Chars) :
            t = Through(received[k]) /\ v = SubSeq(l, i + 1, Len(l) - Len(h))
      BY <2>3, <2>7
    <3>2. EndsWith(t \o h, v \o h)
      BY <2>5, <3>1, EndsWithMore
    <3> QED
      BY <2>3, <2>7, <3>1, <3>2
  <2>9. i <= Len(l)
    BY <1>5, <2>5
  <2>10. since'[next[a]] = i /\ logged' = l /\ members'[next[a]] = k
    BY <1>1, <1>4, <2>i, <2>k
  <2>11. Has(n, Len(l))'
    BY <1>9, <2>8, <2>9, <2>10 DEF Has
  <2>12. ~ (n >= next[a] + 1)
    BY <1>2, <1>9
  <2>13. (IF n >= next'[a] THEN Len(logged') - Len(Head(job'[a])) ELSE Len(logged')) = Len(l)
    BY <1>2, <2>10, <2>12
  <2> QED
    BY <2>11, <2>13 DEF Has
<1>10. next'[a] # 0 /\ \A b \in Actors : next'[b] # 0 => b = a
  BY <1>2, <1>3
<1>11. EndsWith(logged', Head(job'[a]))
  BY <1>1, <1>4, <1>5
<1>12. ASSUME NEW n \in Names, members'[n] # None
       PROVE  Has(n, IF n >= next[a] THEN Len(logged) - Len(Head(job[a])) ELSE Len(logged))'
  BY <1>8, <1>9, <1>12
<1> QED
  BY <1>10, <1>11, <1>12, HandingIsNext

\* Then all members have been reached.
LEMMA HandedOnHanding ==
  ASSUME IInv, CollLocking', NEW a \in Actors, HandedOn(a)
  PROVE  HandingOn'
<1>1. /\ next[a] = MaxNames + 1 /\ next' = [next EXCEPT ![a] = 0]
      /\ logged' = logged /\ members' = members /\ since' = since /\ received' = received
  BY DEF HandedOn
<1>2. next[a] # 0 /\ \A b \in Actors : b # a => next[b] = 0
  <2>1. next[a] # 0
    BY <1>1, Distinct
  <2> QED
    BY <2>1 DEF IInv, CollLocking
<1>3. \A b \in Actors : next'[b] = 0
  BY <1>1, <1>2 DEF IInv, TypeOK
<1>4. ASSUME NEW n \in Names, members'[n] # None PROVE Has(n, Len(logged))'
  <2>1. ~ (n >= next[a])
    BY <1>1, SizeAssumption DEF Names
  <2>2. Has(n, Len(logged))
    BY <1>1, <1>2, <1>4, <2>1, HandingIs
  <2> QED
    BY <1>1, <2>2 DEF Has
<1> QED
  BY <1>3, <1>4, HandingIsNext
-----------------------------------------------------------------------------
(***************************************************************************)
(* The invariant, and what follows from it.                                *)
(***************************************************************************)
\* At first nothing is put, written or handed on.
LEMMA InitInvariant ==
  ASSUME Init
  PROVE  IInv
<1> USE DEF Init
<1>1. TypeOK
  <2>1. /\ buf \in [Streams -> Seq(Chars)] /\ \A s \in Streams : Len(buf[s]) <= BUF_SIZE
        /\ to \in [Streams -> Seq(Sinks)] /\ \A s \in Streams : Len(to[s]) = sent[s]
    BY Chunks, SizeAssumption
  <2>2. /\ lock \in [Streams -> Actors \cup {None}] /\ sent \in [Streams -> Nat]
        /\ closed \subseteq Streams /\ on \in [Actors -> Streams \cup {None}]
        /\ job \in [Actors -> Seq(Seq(Chars))] /\ new \in Sinks \cup {None}
    BY Chunks
  <2>3. logged \in Seq(Chars) /\ Len(logged) = 0
    BY Chunks
  <2>4. /\ changes \in 0 .. MaxChanges /\ since \in [Names -> 0 .. Len(logged)]
        /\ next \in [Actors -> 0 .. MaxNames + 1]
    BY <2>3, SizeAssumption
  <2>5. received \in [Leaves -> Seq([char : Chars, via : Sinks])]
    <3>R. PICK R : R = [char : Chars, via : Sinks]
      OBVIOUS
    <3>1. received \in [Leaves -> Seq(R)]
      OBVIOUS
    <3> QED
      BY <3>1, <3>R
  <2> QED
    BY <2>1, <2>2, <2>3, <2>4, <2>5 DEF TypeOK
<1>2. /\ \A s \in Streams : Len(buf[s]) = 0 /\ sent[s] = 0 /\ lock[s] = None
      /\ \A a \in Actors : Len(job[a]) = 0 /\ next[a] = 0 /\ on[a] = None
      /\ \A k \in Leaves : Len(received[k]) = 0
  OBVIOUS
<1>3. Locking
  BY Distinct DEF Locking
<1>4. CollLocking
  BY Distinct DEF CollLocking
<1>5. InSequence
  BY <1>2 DEF InSequence
<1>6. ForThisSink
  BY <1>2 DEF ForThisSink
<1>7. NothingLost
  BY <1>2 DEF NothingLost
<1>8. OnceInOrder
  BY <1>2 DEF OnceInOrder
<1>9. Before
  BY <1>2 DEF Before
<1>10. HandingOn
  <2>1. \A n \in Names : Reached(n) = Len(logged)
    BY <1>2 DEF Reached
  <2>2. ASSUME NEW n \in Names, members[n] # None
        PROVE  /\ since[n] <= Len(logged)
               /\ EndsWith(Through(received[members[n]]), SubSeq(logged, since[n] + 1, Len(logged)))
    <3>1. since[n] = 0 /\ Len(logged) = 0 /\ logged = <<>>
      OBVIOUS
    <3>k. PICK k \in Leaves : k = members[n]
      BY <2>2
    <3>2. received[k] \in Seq(Records)
      BY <1>1 DEF TypeOK, Records
    <3>3. Through(received[k]) \in Seq(Chars)
      BY <3>2, Distinct, Chunks, ThroughMore
    <3>4. SubSeq(logged, since[n] + 1, Len(logged)) = <<>>
      BY <3>1, SubSeqEmpty
    <3>5. EndsWith(Through(received[k]), <<>>)
      BY <3>3, EndsWithMore, Chunks
    <3> QED
      <4>1. since[n] <= Len(logged)
        BY <3>1
      <4> QED
        BY <3>4, <3>5, <3>k, <4>1
  <2> QED
    BY <1>2, <2>1, <2>2 DEF HandingOn, ViaCollection, Through
<1> QED
  BY <1>1, <1>3, <1>4, <1>5, <1>6, <1>7, <1>8, <1>9, <1>10 DEF IInv

\* Every step of every thread keeps the invariant.
LEMMA NextInvariant ==
  ASSUME IInv, [Next]_vars
  PROVE  IInv'
<1>1. CASE Call
  <2>1. TypeOK' /\ Locking' /\ CollLocking'
    BY <1>1, CallTypes, CallLocks
  <2>2. CASE \E s \in Streams, a \in Actors : a \in {s, Manager} /\ Enters(s, a)
    BY <2>1, <2>2, EntersCharacters, CallsHanding DEF IInv, Characters
  <2>3. CASE \E s \in Streams : Buffers(s)
    <3>1. Manager \in Actors
      BY Distinct
    <3> QED
      BY <2>1, <2>3, <3>1, BuffersCharacters, CallsHanding DEF IInv, Characters
  <2>4. CASE \E s \in Streams : Overflows(s)
    <3>1. Manager \in Actors
      BY Distinct
    <3> QED
      BY <2>1, <2>4, <3>1, OverflowsCharacters, CallsHanding DEF IInv, Characters
  <2>5. CASE Registers
    BY <2>1, <2>5, RegistersCharacters, RegistersHanding DEF IInv, Characters
  <2> QED
    BY <1>1, <2>2, <2>3, <2>4, <2>5, Calls
<1>2. ASSUME NEW a \in Actors, Step(a) PROVE IInv'
  <2>1. TypeOK' /\ Locking' /\ CollLocking'
    BY <1>2, StepTypes, StepLocks
  <2>2. CASE WriteLeaf(a)
    BY <2>1, <2>2, WriteLeafCharacters, WriteLeafHanding DEF IInv, Characters
  <2>3. CASE WriteCollection(a)
    BY <2>1, <2>3, WriteCollectionCharacters, WriteCollectionHanding DEF IInv, Characters
  <2>4. CASE HandOn(a)
    BY <2>1, <2>4, HandOnCharacters, HandOnHanding DEF IInv, Characters
  <2>5. CASE HandedOn(a)
    BY <2>1, <2>5, HandedOnCharacters, HandedOnHanding DEF IInv, Characters
  <2>6. CASE End(a)
    <3>1. on[a] \in Streams
      BY <2>6 DEF End, Idle, IInv, TypeOK
    <3> QED
      BY <2>1, <2>6, <3>1, EndCharacters, CallsHanding DEF IInv, Characters
  <2> QED
    BY <1>2, <2>2, <2>3, <2>4, <2>5, <2>6 DEF Step
<1>3. CASE UNCHANGED vars
  <2>1. /\ buf' = buf /\ sink' = sink /\ lock' = lock /\ sent' = sent /\ to' = to
        /\ closed' = closed /\ changes' = changes /\ on' = on /\ job' = job /\ new' = new
        /\ members' = members /\ since' = since /\ collLock' = collLock /\ next' = next
        /\ logged' = logged /\ received' = received
    BY <1>3 DEF vars, stream, coll
  <2>2. TypeOK'
    BY <2>1 DEF IInv, TypeOK
  <2>3. Locking' /\ CollLocking'
    BY <2>1 DEF IInv, Locking, CollLocking
  <2>4. InSequence' /\ OnceInOrder'
    <3>1. InSequence'
      BY ONLY <2>1, IInv, SameSequence DEF IInv
    <3>2. OnceInOrder'
      BY <2>1, SameOrder DEF IInv
    <3> QED
      BY <3>1, <3>2
  <2>5. ForThisSink' /\ NothingLost'
    <3>1. \A r, c : InWork(r, c)' <=> InWork(r, c)
      BY ONLY <2>1 DEF InWork, Within
    <3>2. ForThisSink'
      <4>1. /\ \A s \in Streams : \A n \in 1 .. sent[s] :
                  Within(<<s, n>>, buf[s]) \/ InWork(s, <<s, n>>) => to[s][n] = sink[s]
            /\ \A a \in Actors : next[a] # 0 =>
                  \A x \in 1 .. Len(job[a][1]) : Within(job[a][1][x], logged)
        BY DEF IInv, ForThisSink
      <4> QED
        BY ONLY <2>1, <3>1, <4>1 DEF ForThisSink, Within
    <3>3. NothingLost'
      BY <2>1, <3>1 DEF IInv, NothingLost, Within, Given
    <3> QED
      BY <3>2, <3>3
  <2>6. Before'
    <3>1. \A b, k : Served(b, k)' <=> Served(b, k)
      BY ONLY <2>1 DEF Served
    <3>2. ASSUME NEW k \in Leaves, NEW b \in Actors, NEW r \in 1 .. Len(received'[k]),
                 NEW j \in 1 .. Len(job'[b]), NEW x \in 1 .. Len(job'[b][j]),
                 received'[k][r].char[1] = on'[b]
          PROVE  \/ received'[k][r].char[2] < job'[b][j][x][2]
                 \/ j = 1 /\ Served(b, k)'
      BY <2>1, <3>1, <3>2 DEF IInv, Before
    <3>3. ASSUME NEW k \in Leaves, NEW r \in 1 .. Len(received'[k])
          PROVE  /\ received'[k][r].char[2] <= sent'[received'[k][r].char[1]]
                 /\ \A i \in 1 .. Len(buf'[received'[k][r].char[1]]) :
                      received'[k][r].char[2] < buf'[received'[k][r].char[1]][i][2]
      BY <2>1 DEF IInv, Before
    <3> QED
      BY ONLY <3>2, <3>3 DEF Before, Served
  <2>7. HandingOn'
    BY <2>1, <2>3, Quiet
  <2> QED
    BY <2>2, <2>3, <2>4, <2>5, <2>6, <2>7 DEF IInv
<1> QED
  BY <1>1, <1>2, <1>3 DEF Next

\* So it is an invariant.
THEOREM Invariance == Spec => []IInv
BY InitInvariant, NextInvariant, PTL DEF Spec

\* Every variable keeps its type, and no buffer outgrows BUF_SIZE: what overflow()
\* and the writer leave in it.
THEOREM TypeCorrect == Spec => []TypeOK
<1>1. IInv => TypeOK
  BY DEF IInv
<1> QED
  BY <1>1, Invariance, PTL

\* Whatever calls mix and however many threads print, a character is buffered, being
\* written, or at the sink that its stream had when it was put.
THEOREM NoCharacterLost == Spec => []NothingLost
<1>1. IInv => NothingLost
  BY DEF IInv
<1> QED
  BY <1>1, Invariance, PTL

\* No leaf gets a character twice, or two of a stream in the wrong order.
THEOREM EachOnceInOrder == Spec => []OnceInOrder
<1>1. IInv => OnceInOrder
  BY DEF IInv
<1> QED
  BY <1>1, Invariance, PTL

\* Members that come and go do not disturb what the others get: between two writes
\* all have got, in one order, what was written since they were registered.
THEOREM MembersGetAll == Spec => []MembersAgree
<1>1. ASSUME IInv PROVE MembersAgree
  <2>1. ASSUME collLock = None, NEW n \in Names, members[n] # None
        PROVE  EndsWith(ViaCollection(members[n]), SubSeq(logged, since[n] + 1, Len(logged)))
    <3>1. \A b \in Actors : next[b] = 0
      BY <1>1, <2>1, Distinct DEF IInv, CollLocking
    <3>2. Has(n, Len(logged))
      BY <1>1, <2>1, <3>1, HandingIs
    <3> QED
      BY <3>2 DEF Has, ViaCollection, Through
  <2> QED
    BY <2>1 DEF MembersAgree
<1> QED
  BY <1>1, Invariance, PTL
-----------------------------------------------------------------------------
(***************************************************************************)
(* Why a call returns: nobody in a call is stuck for good, and each step   *)
(* leaves its actor less to do.                                            *)
(***************************************************************************)
\* What holds up no actor: the guards of WriteLeaf, WriteCollection, HandOn, HandedOn
\* and End.
CanStep(a) ==
  /\ ~ Idle(a)
  /\ \/ \E k \in Leaves : Writing(a, k)
     \/ Writing(a, Collection) /\ CollFree /\ next[a] = 0
     \/ next[a] \in Names
     \/ next[a] = MaxNames + 1
     \/ job[a] = <<>>

\* Who cannot step waits for the collection's mutex, and its owner, another actor,
\* can step: a stream's mutex is held meanwhile, but nobody asks for one in a call.
NoDeadlock ==
  \A a \in Actors : ~ Idle(a) /\ ~ CanStep(a) =>
    Writing(a, Collection) /\ \E b \in Actors : b # a /\ collLock = b /\ CanStep(b)

\* The steps an actor's call has still to make, at most: the end, and for each write
\* one on a leaf, or those from the lock of the collection to its unlock.
ToDo(a) == IF Idle(a) THEN 0 ELSE 1 + Len(job[a]) * (MaxNames + 3) - next[a]

\* A multiple grows by the factor.
LEMMA OneMore ==
  ASSUME NEW n \in Nat, NEW m \in Nat
  PROVE  n * m \in Nat /\ (n + 1) * m = n * m + m
OBVIOUS

\* An actor that is in a call can step, or the one it waits for can.
LEMMA InvariantNoDeadlock == IInv => NoDeadlock
<1> SUFFICES ASSUME IInv, NEW a \in Actors, ~ Idle(a), ~ CanStep(a)
             PROVE  /\ Writing(a, Collection)
                    /\ \E b \in Actors : b # a /\ collLock = b /\ CanStep(b)
  BY DEF NoDeadlock
<1>1. TypeOK /\ Locking /\ CollLocking
  BY DEF IInv
<1>2. \A b \in Actors : next[b] # 0 => ~ Idle(b) /\ CanStep(b)
  <2> SUFFICES ASSUME NEW b \in Actors, next[b] # 0 PROVE ~ Idle(b) /\ CanStep(b)
    OBVIOUS
  <2>1. next[b] \in Names \/ next[b] = MaxNames + 1
    BY <1>1, SizeAssumption DEF TypeOK, Names
  <2>2. ~ Idle(b)
    BY <1>1 DEF CollLocking, Idle
  <2> QED
    BY <2>1, <2>2 DEF CanStep
<1>3. job[a] # <<>> /\ next[a] = 0 /\ \A k \in Leaves : ~ Writing(a, k)
  BY <1>2 DEF CanStep
<1>4. Target(a) \in Sinks
  <2>1. on[a] \in Streams
    BY <1>1 DEF TypeOK, Idle
  <2> QED
    BY <1>1, <2>1 DEF TypeOK, Target
<1>5. Writing(a, Collection)
  BY <1>3, <1>4 DEF Writing, Sinks
<1>6. collLock # None
  BY <1>3, <1>5 DEF CanStep, CollFree
<1>7. collLock \in Actors
  BY <1>1, <1>6 DEF TypeOK
<1>8. next[collLock] # 0
  BY <1>1, <1>7 DEF CollLocking
<1> QED
  BY <1>2, <1>3, <1>5, <1>7, <1>8

\* What is to do is counted in naturals: an actor that is handing on has a write left.
LEMMA ToDoType ==
  ASSUME TypeOK, CollLocking, NEW a \in Actors
  PROVE  ToDo(a) \in Nat
<1>1. Len(job[a]) \in Nat /\ next[a] \in 0 .. MaxNames + 1 /\ MaxNames \in Nat
  BY SizeAssumption DEF TypeOK
<1>m. MaxNames + 3 \in Nat
  BY <1>1
<1>2. Len(job[a]) * (MaxNames + 3) \in Nat
  BY <1>1, <1>m, OneMore
<1>3. CASE next[a] = 0
  BY <1>2, <1>3 DEF ToDo
<1>4. CASE next[a] # 0
  <2>1. job[a] # <<>>
    BY <1>4 DEF CollLocking
  <2>2. Len(job[a]) - 1 \in Nat
    BY <2>1 DEF TypeOK
  <2>3. /\ (Len(job[a]) - 1) * (MaxNames + 3) \in Nat
        /\ (Len(job[a]) - 1 + 1) * (MaxNames + 3) =
             (Len(job[a]) - 1) * (MaxNames + 3) + (MaxNames + 3)
    BY <1>m, <2>2, OneMore
  <2>4. Len(job[a]) - 1 + 1 = Len(job[a])
    BY <1>1
  <2>5. \A x \in Nat : 1 + (x + (MaxNames + 3)) - next[a] \in Nat
    BY <1>1
  <2> QED
    BY <2>3, <2>4, <2>5 DEF ToDo
<1> QED
  BY <1>3, <1>4

\* A step of a call brings its end nearer and no other call's.
LEMMA StepShortens ==
  ASSUME IInv, NEW a \in Actors, Step(a)
  PROVE  /\ ToDo(a)' \in Int /\ ToDo(a)' < ToDo(a)
         /\ \A b \in Actors \ {a} : ToDo(b)' = ToDo(b)
<1>1. TypeOK /\ Locking /\ CollLocking
  BY DEF IInv
<1>2. MaxNames + 3 \in Nat
  BY SizeAssumption
<1>3. Len(job[a]) \in Nat /\ next[a] \in 0 .. MaxNames + 1 /\ MaxNames \in Nat
  BY <1>1, SizeAssumption DEF TypeOK
<1>4. ASSUME NEW j \in Seq(Seq(Chars)), j # <<>>
      PROVE  /\ Len(Tail(j)) * (MaxNames + 3) \in Nat
             /\ Len(j) * (MaxNames + 3) = Len(Tail(j)) * (MaxNames + 3) + (MaxNames + 3)
  <2>1. Len(Tail(j)) \in Nat /\ Len(j) = Len(Tail(j)) + 1
    BY <1>4
  <2> QED
    BY <1>2, <2>1, OneMore
<1>5. \A b \in Actors \ {a} :
        on'[b] = on[b] /\ job'[b] = job[b] /\ next'[b] = next[b]
  BY <1>1 DEF Step, WriteLeaf, WriteCollection, HandOn, HandedOn, End, stream, coll, TypeOK
<1>6. \A b \in Actors \ {a} : ToDo(b)' = ToDo(b)
  BY <1>5 DEF ToDo, Idle
<1>7. ToDo(a)' \in Int /\ ToDo(a)' < ToDo(a)
  <2>1. CASE WriteLeaf(a) \/ HandedOn(a)
    <3>1. job[a] # <<>> /\ on[a] # None
      BY <1>1, <2>1, Distinct DEF WriteLeaf, Writing, HandedOn, CollLocking, Idle
    <3>2. on' = on /\ job'[a] = Tail(job[a]) /\ next'[a] \in {0, next[a]}
      BY <1>1, <2>1 DEF WriteLeaf, HandedOn, stream, TypeOK
    <3>3. job[a] \in Seq(Seq(Chars))
      BY <1>1 DEF TypeOK
    <3>4. \A x, y \in Nat : y = x + (MaxNames + 3) =>
            /\ 1 + x - 0 \in Int /\ 1 + x - 0 < 1 + y - next[a]
            /\ 1 + x - next[a] \in Int /\ 1 + x - next[a] < 1 + y - next[a]
      BY <1>3
    <3>5. /\ Len(Tail(job[a])) * (MaxNames + 3) \in Nat
          /\ Len(job[a]) * (MaxNames + 3) \in Nat
          /\ Len(job[a]) * (MaxNames + 3) = Len(Tail(job[a])) * (MaxNames + 3) + (MaxNames + 3)
      BY <1>2, <1>3, <1>4, <3>1, <3>3, OneMore
    <3>6. /\ ToDo(a) = 1 + Len(job[a]) * (MaxNames + 3) - next[a]
          /\ ToDo(a)' = 1 + Len(Tail(job[a])) * (MaxNames + 3) - next'[a]
      BY <3>1, <3>2 DEF ToDo, Idle
    <3> QED
      BY <3>2, <3>4, <3>5, <3>6
  <2>2. CASE WriteCollection(a) \/ HandOn(a)
    <3>1. on[a] # None /\ on' = on /\ job' = job /\ next'[a] = next[a] + 1
      <4>1. CASE WriteCollection(a)
        BY <1>1, <4>1 DEF WriteCollection, Writing, Idle, TypeOK
      <4>2. CASE HandOn(a)
        <5>1. next[a] # 0
          BY <4>2, Distinct DEF HandOn
        <5> QED
          BY <1>1, <4>2, <5>1 DEF HandOn, CollLocking, TypeOK, stream
      <4> QED
        BY <2>2, <4>1, <4>2
    <3>2. Len(job[a]) * (MaxNames + 3) \in Nat
      BY <1>2, <1>3, OneMore
    <3>3. \A x \in Nat : 1 + x - (next[a] + 1) \in Int /\ 1 + x - (next[a] + 1) < 1 + x - next[a]
      BY <1>3
    <3>4. /\ ToDo(a) = 1 + Len(job[a]) * (MaxNames + 3) - next[a]
          /\ ToDo(a)' = 1 + Len(job[a]) * (MaxNames + 3) - (next[a] + 1)
      BY <3>1 DEF ToDo, Idle
    <3> QED
      BY <3>2, <3>3, <3>4
  <2>3. CASE End(a)
    <3>1. on[a] # None /\ job[a] = <<>> /\ on'[a] = None
      BY <1>1, <2>3 DEF End, Idle, TypeOK
    <3>2. next[a] = 0 /\ Len(job[a]) = 0
      BY <1>1, <3>1 DEF CollLocking
    <3>3. 0 * (MaxNames + 3) = 0
      BY <1>3
    <3>4. ToDo(a)' = 0 /\ ToDo(a) = 1 + Len(job[a]) * (MaxNames + 3) - next[a]
      BY <3>1 DEF ToDo, Idle
    <3>5. ToDo(a) = 1
      BY <3>2, <3>3, <3>4
    <3> QED
      BY <3>4, <3>5
  <2> QED
    BY <2>1, <2>2, <2>3 DEF Step
<1> QED
  BY <1>6, <1>7

\* A call that begins leaves alone whoever is in one.
LEMMA CallKeeps ==
  ASSUME TypeOK, Call, NEW a \in Actors, ~ Idle(a)
  PROVE  on'[a] = on[a] /\ job'[a] = job[a] /\ next'[a] = next[a]
<1>1. ASSUME NEW s \in Streams, NEW b \in Actors, NEW chunks, Begin(b, s, chunks)
      PROVE  on'[a] = on[a] /\ job'[a] = job[a]
  BY <1>1 DEF Begin, Idle, TypeOK
<1>2. Streams \subseteq Actors /\ Manager \in Actors
  BY DEF Actors
<1>3. ASSUME NEW s \in Streams, Put(s)
      PROVE  on'[a] = on[a] /\ job'[a] = job[a] /\ next' = next
  <2>1. next' = next
    BY <1>3 DEF Put, coll
  <2>2. CASE Full(s)
    BY <1>1, <1>2, <1>3, <2>1, <2>2 DEF Put, Overflow
  <2>3. CASE ~ Full(s)
    BY <1>3, <2>1, <2>3 DEF Put
  <2> QED
    BY <2>2, <2>3
<1>4. ASSUME NEW s \in Streams, Sync(s) \/ Destroy(s) \/ \E k \in Sinks : SetSink(s, k)
      PROVE  on'[a] = on[a] /\ job'[a] = job[a] /\ next' = next
  <2>1. next' = next
    BY <1>4 DEF Sync, Destroy, SetSink, coll
  <2>2. CASE Sync(s)
    BY <1>1, <1>2, <2>1, <2>2 DEF Sync
  <2>3. CASE Destroy(s)
    BY <1>1, <1>2, <2>1, <2>3 DEF Destroy
  <2>4. CASE \E k \in Sinks : SetSink(s, k)
    BY <1>1, <1>2, <2>1, <2>4 DEF SetSink
  <2> QED
    BY <1>4, <2>2, <2>3, <2>4
<1>5. ASSUME NEW n \in Names, RemoveSink(n) \/ \E k \in Leaves : PutSink(n, k)
      PROVE  on' = on /\ job' = job /\ next' = next
  BY <1>5 DEF RemoveSink, PutSink
<1> QED
  BY <1>3, <1>4, <1>5 DEF Call

\* The two kinds of mutexes never lock each other out: of the actors in calls, one can
\* always go on, and it is the one that the others wait for.
THEOREM NobodyLockedOut == Spec => []NoDeadlock
BY InvariantNoDeadlock, Invariance, PTL

\* A call cannot run for ever: each of its steps lessens a natural number that no step
\* of another call and no new call of another actor raises.
THEOREM CallsRunOut ==
  Spec => /\ [](\A a \in Actors : ToDo(a) \in Nat)
          /\ [][\A a \in Actors : ~ Idle(a) =>
                  /\ ToDo(a)' <= ToDo(a)
                  /\ Step(a) => ToDo(a)' < ToDo(a)]_vars
<1>1. IInv => \A a \in Actors : ToDo(a) \in Nat
  BY ToDoType DEF IInv
<1>2. ASSUME IInv, [Next]_vars
      PROVE  [\A a \in Actors : ~ Idle(a) =>
                /\ ToDo(a)' <= ToDo(a)
                /\ Step(a) => ToDo(a)' < ToDo(a)]_vars
  <2> SUFFICES ASSUME Next, NEW a \in Actors, ~ Idle(a)
               PROVE  /\ ToDo(a)' <= ToDo(a)
                      /\ Step(a) => ToDo(a)' < ToDo(a)
    BY <1>2
  <2>1. TypeOK /\ CollLocking
    BY <1>2 DEF IInv
  <2>2. ToDo(a) \in Nat
    BY <2>1, ToDoType
  <2>3. ASSUME NEW b \in Actors, Step(b)
        PROVE  /\ ToDo(b)' \in Int /\ ToDo(b)' < ToDo(b)
               /\ \A x \in Actors \ {b} : ToDo(x)' = ToDo(x)
    BY <1>2, <2>3, StepShortens
  <2>4. CASE \E b \in Actors : Step(b)
    BY <2>2, <2>3, <2>4
  <2>5. CASE Call /\ ~ \E b \in Actors : Step(b)
    <3>1. on'[a] = on[a] /\ job'[a] = job[a] /\ next'[a] = next[a]
      BY <1>2, <2>1, <2>5, CallKeeps
    <3>2. ToDo(a)' = ToDo(a)
      BY <3>1 DEF ToDo, Idle
    <3> QED
      BY <2>2, <2>3, <3>2
  <2> QED
    BY <2>4, <2>5 DEF Next
<1> QED
  BY <1>1, <1>2, Invariance, PTL DEF Spec
==============================================================================
