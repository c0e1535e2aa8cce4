---------------------------- MODULE ReaderProofs ----------------------------
(***************************************************************************)
(* What holds of streams and of the reader for every number of files and   *)
(* of transfers and whatever is in them: the streams and the functions of  *)
(* the reader keep their types, url_feof speaks the truth, and no more is  *)
(* pushed back on a file than it can hold.                                 *)
(*                                                                         *)
(* The second needs to know why a transfer counts as ended.  `running' of  *)
(* a URL is what the last call that waited for it, or opened it, saw of    *)
(* all the transfers; it is false only if none went on then, this one      *)
(* included.  One that is over has delivered everything, so there is       *)
(* nothing left but what is in the buffer.                                 *)
(***************************************************************************)
EXTENDS Reader, SequenceTheorems, TLAPS

FileSound(f) ==
  /\ f.buffer = <<>> /\ ~f.running
  /\ f.eof => f.rest = <<>> /\ f.back = <<>>

(* A transfer, except for what is noted of it. *)
Delivers(f) ==
  /\ f.back = <<>> /\ ~f.eof
  /\ f.over => f.rest = <<>>

Noted(f) == f.state = "open" /\ ~f.running => f.over

UrlSound(f) == Delivers(f) /\ Noted(f)

Sound(x) ==
  /\ x \in [stream : [Inputs -> Stream], ungotten : Character]
  /\ \A s \in Files : FileSound(x.stream[s])
  /\ \A s \in Urls : UrlSound(x.stream[s])

(* Functions that wait for what another reads, and the task. *)
Callers(stack) == \E F : stack \in Seq(F) /\ \A f \in F : f.fn \in Returns

Waiter(f) == "fn" \in DOMAIN f /\ f.fn \in Waits

Active(stack, value) ==
  \/ /\ value = None
     /\ \E f, below : Waiter(f) /\ Callers(below) /\ stack = Push(f, below)
  \/ /\ \E v : value = <<v>>
     /\ Callers(stack)

TaskSound == task = Idle \/ (task.on \in Inputs /\ Active(task.stack, task.value))

ReaderInv == Sound(io) /\ TaskSound

-----------------------------------------------------------------------------
(* What libcurl may deliver of a transfer. *)
LEMMA ArriveFacts ==
  ASSUME NEW f \in Stream, NEW k \in 0 .. Len(f.rest), NEW over \in BOOLEAN
  PROVE  LET n == Arrive(f, k, over)
         IN  /\ n \in Stream /\ n.state = f.state /\ n.running = f.running
             /\ n.back = f.back /\ n.eof = f.eof /\ n.over = over
             /\ k = Len(f.rest) => n.rest = <<>>
<1>1. f.rest \in Seq(Character) /\ f.buffer \in Seq(Character) /\ Len(f.rest) \in Nat
  BY DEF Stream
<1> DEFINE came == SubSeq(f.rest, 1, k)
           left == SubSeq(f.rest, k + 1, Len(f.rest))
<1>2. came \in Seq(Character) /\ left \in Seq(Character)
  BY <1>1
<1>3. k = Len(f.rest) => left = <<>>
  BY <1>1
<1>4. f.buffer \o came \in Seq(Character)
  <2> HIDE DEF came
  <2>1. QED
    BY <1>1, <1>2
<1> DEFINE buffer == f.buffer \o came
<1>5. Arrive(f, k, over) = [f EXCEPT !.buffer = buffer, !.rest = left, !.over = over]
  BY DEF Arrive
<1> HIDE DEF buffer, left
<1>6. QED
  BY <1>2, <1>3, <1>4, <1>5 DEF Stream, buffer

Progress(f, n) ==
  /\ n.state = f.state /\ n.running = f.running
  /\ n.back = f.back /\ n.eof = f.eof
  /\ Delivers(f) => Delivers(n)
  /\ f.over => n.over

LEMMA ArrivalsFacts ==
  ASSUME NEW f \in Stream, ~f.over, NEW n \in Arrivals(f)
  PROVE  n \in Stream /\ Progress(f, n)
<1>1. Len(f.rest) \in Nat
  BY DEF Stream
<1> DEFINE counts == {k \in 0 .. MaxArrival : k <= Len(f.rest)} \cup {Len(f.rest)}
           ends   == TRUE
           not    == FALSE
<1>2. counts \subseteq 0 .. Len(f.rest) /\ Len(f.rest) \in counts
  BY <1>1, StreamsAssumption
<1>3. ends \in BOOLEAN /\ not \in BOOLEAN /\ ~not
  OBVIOUS
<1>4. Arrivals(f) = {Arrive(f, k, not) : k \in counts} \cup {Arrive(f, Len(f.rest), ends)}
  BY DEF Arrivals
<1> HIDE DEF counts, ends, not
<1>5. PICK k \in 0 .. Len(f.rest), over \in BOOLEAN :
        n = Arrive(f, k, over) /\ (over => k = Len(f.rest))
  BY <1>2, <1>3, <1>4
<1>6. /\ n \in Stream /\ n.state = f.state /\ n.running = f.running
      /\ n.back = f.back /\ n.eof = f.eof /\ n.over = over
      /\ k = Len(f.rest) => n.rest = <<>>
  BY <1>5, ArriveFacts
<1>7. QED
  BY <1>5, <1>6 DEF Progress, Delivers

(* curl_multi_perform *)
LEMMA PerformFacts ==
  ASSUME NEW stream \in [Inputs -> Stream], NEW m \in Perform(stream)
  PROVE  /\ m \in [Inputs -> Stream]
         /\ \A t \in Inputs : Progress(stream[t], m[t])
         /\ \A t \in Files : m[t] = stream[t]
<1> DEFINE going == Going(stream)
<1>1. PICK r \in [going -> UNION {Arrivals(stream[t]) : t \in going}] :
        /\ \A t \in going : r[t] \in Arrivals(stream[t])
        /\ m = [t \in Inputs |-> IF t \in going THEN r[t] ELSE stream[t]]
  BY DEF Perform
<1>2. \A t \in going : t \in Urls /\ t \in Inputs /\ ~stream[t].over
  BY DEF Going, Inputs
<1> HIDE DEF going
<1>3. \A t \in Inputs : m[t] \in Stream /\ Progress(stream[t], m[t])
  <2>1. TAKE t \in Inputs
  <2>2. CASE t \in going
    BY <1>1, <1>2, <2>2, ArrivalsFacts
  <2>3. CASE t \notin going
    BY <1>1, <2>3 DEF Progress
  <2>4. QED
    BY <2>2, <2>3
<1>4. \A t \in Files : m[t] = stream[t]
  BY <1>1, <1>2, StreamsAssumption DEF Inputs
<1>5. QED
  BY <1>1, <1>3, <1>4

-----------------------------------------------------------------------------
(* The streams, when what is noted of one transfer is set aside. *)
Streaming(stream) ==
  /\ stream \in [Inputs -> Stream]
  /\ \A s \in Files : FileSound(stream[s])
  /\ \A s \in Urls : Delivers(stream[s])

(* Every call of libcurl notes truly whether the transfer goes on. *)
LEMMA NotedTruly ==
  ASSUME NEW stream, Streaming(stream), NEW s \in Urls,
         \A t \in Urls \ {s} : Noted(stream[t]),
         NEW m \in Perform(stream)
  PROVE  LET n == [m EXCEPT ![s].running = Going(m) # {}]
         IN  Streaming(n) /\ \A t \in Urls : Noted(n[t])
<1> DEFINE going == Going(m) # {}
           n == [m EXCEPT ![s].running = going]
<1>1. /\ m \in [Inputs -> Stream]
      /\ \A t \in Inputs : Progress(stream[t], m[t])
      /\ \A t \in Files : m[t] = stream[t]
  BY PerformFacts DEF Streaming
<1>2. s \in Inputs /\ s \notin Files /\ Files \subseteq Inputs /\ Urls \subseteq Inputs
  BY StreamsAssumption DEF Inputs
<1>3. going \in BOOLEAN
  OBVIOUS
<1>4. ~going => (m[s].state = "open" => m[s].over)
  BY DEF Going
<1> HIDE DEF going
<1>5. n[s] = [m[s] EXCEPT !.running = going] /\ \A t \in Inputs \ {s} : n[t] = m[t]
  BY <1>1, <1>2
<1>6. n[s] \in Stream /\ n[s].running = going /\ n[s].state = m[s].state /\ n[s].over = m[s].over
      /\ n[s].rest = m[s].rest /\ n[s].back = m[s].back /\ n[s].eof = m[s].eof
  BY <1>1, <1>2, <1>3, <1>5 DEF Stream
<1>7. n \in [Inputs -> Stream]
  <2>1. n = [t \in Inputs |-> n[t]]
    BY <1>1
  <2> HIDE DEF n
  <2>2. \A t \in Inputs : n[t] \in Stream
    BY <1>1, <1>5, <1>6
  <2>3. QED
    BY <2>1, <2>2
<1> HIDE DEF n
<1>8. \A t \in Files : FileSound(n[t])
  BY <1>1, <1>2, <1>5 DEF Streaming
<1>9. \A t \in Urls : Delivers(n[t])
  <2>1. TAKE t \in Urls
  <2>2. Delivers(m[t])
    BY <1>1, <1>2 DEF Streaming, Progress
  <2>3. QED
    BY <1>2, <1>5, <1>6, <2>2 DEF Delivers
<1>10. \A t \in Urls : Noted(n[t])
  <2>1. TAKE t \in Urls
  <2>2. CASE t = s
    BY <1>4, <1>6, <2>2 DEF Noted
  <2>3. CASE t # s
    BY <1>1, <1>2, <1>5, <2>3 DEF Noted, Progress
  <2>4. QED
    BY <2>2, <2>3
<1>11. QED
  BY <1>7, <1>8, <1>9, <1>10 DEF Streaming, n, going

LEMMA SoundStreams ==
  ASSUME NEW x
  PROVE  Sound(x) <=> /\ x \in [stream : [Inputs -> Stream], ungotten : Character]
                      /\ Streaming(x.stream) /\ \A s \in Urls : Noted(x.stream[s])
BY DEF Sound, Streaming, UrlSound

(* fill_buffer *)
LEMMA FillFacts ==
  ASSUME NEW x, Sound(x), NEW s \in Urls, NEW n \in Fill(x.stream, s)
  PROVE  Sound([x EXCEPT !.stream = n])
<1>1. Streaming(n) /\ \A t \in Urls : Noted(n[t])
  <2>1. Streaming(x.stream) /\ \A t \in Urls : Noted(x.stream[t])
    BY SoundStreams
  <2>2. CASE n = x.stream
    BY <2>1, <2>2
  <2> DEFINE note(m) == [m EXCEPT ![s].running = Going(m) # {}]
             ready   == {m \in Perform(x.stream) : m[s].buffer # <<>> \/ Going(m) = {}}
  <2>4. n = x.stream \/ n \in {note(m) : m \in ready}
    BY DEF Fill
  <2>5. ready \subseteq Perform(x.stream)
    OBVIOUS
  <2> HIDE DEF note, ready
  <2>6. CASE n \in {note(m) : m \in ready}
    <3>1. PICK m \in Perform(x.stream) : n = note(m)
      BY <2>5, <2>6
    <3>2. n = [m EXCEPT ![s].running = Going(m) # {}]
      BY <3>1 DEF note
    <3>3. QED
      BY <2>1, <3>2, NotedTruly
  <2>7. QED
    BY <2>2, <2>4, <2>6
<1>2. n \in [Inputs -> Stream]
  BY <1>1 DEF Streaming
<1>3. [x EXCEPT !.stream = n] \in [stream : [Inputs -> Stream], ungotten : Character]
      /\ [x EXCEPT !.stream = n].stream = n
  BY <1>2 DEF Sound
<1>4. QED
  BY <1>1, <1>3, SoundStreams

-----------------------------------------------------------------------------
(* Putting one stream back changed. *)
LEMMA OneStream ==
  ASSUME NEW x, Sound(x), NEW s \in Inputs, NEW f \in Stream,
         s \in Files => FileSound(f), s \in Urls => UrlSound(f)
  PROVE  Sound([x EXCEPT !.stream[s] = f])
<1>1. x.stream \in [Inputs -> Stream]
  BY DEF Sound
<1> DEFINE stream == [x.stream EXCEPT ![s] = f]
<1>2. stream \in [Inputs -> Stream] /\ stream[s] = f /\ \A t \in Inputs \ {s} : stream[t] = x.stream[t]
  BY <1>1
<1>3. [x EXCEPT !.stream[s] = f] = [x EXCEPT !.stream = stream]
  BY <1>1 DEF Sound
<1> HIDE DEF stream
<1>4. [x EXCEPT !.stream = stream] \in [stream : [Inputs -> Stream], ungotten : Character]
      /\ [x EXCEPT !.stream = stream].stream = stream
  BY <1>2 DEF Sound
<1>5. /\ \A t \in Files : FileSound(stream[t])
      /\ \A t \in Urls : UrlSound(stream[t])
  BY <1>2 DEF Sound, Inputs
<1>6. QED
  BY <1>3, <1>4, <1>5 DEF Sound

CharacterOf(s, c) == c \in Character \cup {Eof} /\ (s \in Urls => c \in Character)

(* fgetwc *)
LEMMA FromFileFacts ==
  ASSUME NEW x, Sound(x), NEW s \in Files
  PROVE  LET g == FromFile(x, s) IN Sound(g.io) /\ CharacterOf(s, g.char)
<1> DEFINE f == x.stream[s]
<1>1. /\ s \in Inputs /\ s \notin Urls /\ f \in Stream /\ FileSound(f)
      /\ x \in [stream : [Inputs -> Stream], ungotten : Character]
  BY StreamsAssumption DEF Sound, Inputs
<1>2. f.back \in Seq(Character) /\ f.rest \in Seq(Character)
  BY <1>1 DEF Stream
<1>3. CASE f.back # <<>>
  <2> DEFINE n == [f EXCEPT !.back = Tail(f.back)]
  <2>1. Tail(f.back) \in Seq(Character) /\ Head(f.back) \in Character
    BY <1>2, <1>3
  <2>2. n \in Stream /\ FileSound(n)
    BY <1>1, <1>3, <2>1 DEF Stream, FileSound
  <2>3. [x EXCEPT !.stream[s].back = Tail(@)] = [x EXCEPT !.stream[s] = n]
    BY <1>1
  <2>4. FromFile(x, s) = [io |-> [x EXCEPT !.stream[s] = n], char |-> Head(f.back)]
    BY <1>3, <2>3 DEF FromFile
  <2> HIDE DEF n
  <2>5. QED
    BY <1>1, <2>1, <2>2, <2>4, OneStream DEF CharacterOf
<1>4. CASE f.back = <<>> /\ f.rest = <<>>
  <2> DEFINE n == [f EXCEPT !.eof = TRUE]
  <2>1. n \in Stream /\ FileSound(n)
    BY <1>1, <1>4 DEF Stream, FileSound
  <2>2. [x EXCEPT !.stream[s].eof = TRUE] = [x EXCEPT !.stream[s] = n]
    BY <1>1
  <2>3. FromFile(x, s) = [io |-> [x EXCEPT !.stream[s] = n], char |-> Eof]
    BY <1>4, <2>2 DEF FromFile
  <2> HIDE DEF n
  <2>4. QED
    BY <1>1, <2>1, <2>3, OneStream DEF CharacterOf
<1>5. CASE f.back = <<>> /\ f.rest # <<>>
  <2> DEFINE n == [f EXCEPT !.rest = Tail(f.rest)]
  <2>1. Tail(f.rest) \in Seq(Character) /\ Head(f.rest) \in Character
    BY <1>2, <1>5
  <2>2. n \in Stream /\ FileSound(n)
    BY <1>1, <1>5, <2>1 DEF Stream, FileSound
  <2>3. [x EXCEPT !.stream[s].rest = Tail(@)] = [x EXCEPT !.stream[s] = n]
    BY <1>1
  <2>4. FromFile(x, s) = [io |-> [x EXCEPT !.stream[s] = n], char |-> Head(f.rest)]
    BY <1>5, <2>3 DEF FromFile
  <2> HIDE DEF n
  <2>5. QED
    BY <1>1, <2>1, <2>2, <2>4, OneStream DEF CharacterOf
<1>6. QED
  BY <1>3, <1>4, <1>5

(* url_fgets *)
LEMMA FromBufferFacts ==
  ASSUME NEW x, Sound(x), NEW s \in Urls
  PROVE  LET g == FromBuffer(x, s) IN Sound(g.io) /\ CharacterOf(s, g.char)
<1> DEFINE f == x.stream[s]
<1>1. /\ s \in Inputs /\ s \notin Files /\ f \in Stream /\ UrlSound(f)
      /\ x \in [stream : [Inputs -> Stream], ungotten : Character]
  BY StreamsAssumption DEF Sound, Inputs
<1>2. f.buffer \in Seq(Character) /\ Nul \in Character
  BY <1>1 DEF Stream, Character, White
<1>3. CASE f.buffer = <<>>
  BY <1>2, <1>3 DEF FromBuffer, CharacterOf
<1>4. CASE f.buffer # <<>>
  <2> DEFINE n == [f EXCEPT !.buffer = Tail(f.buffer)]
             c == IF Head(f.buffer) = Byte THEN Nul ELSE Head(f.buffer)
  <2>1. Tail(f.buffer) \in Seq(Character) /\ c \in Character
    BY <1>2, <1>4
  <2>2. n \in Stream /\ UrlSound(n)
    BY <1>1, <2>1 DEF Stream, UrlSound, Delivers, Noted
  <2>3. [x EXCEPT !.stream[s].buffer = Tail(@)] = [x EXCEPT !.stream[s] = n]
    BY <1>1
  <2>4. FromBuffer(x, s) = [io |-> [x EXCEPT !.stream[s] = n], char |-> c]
    BY <1>4, <2>3 DEF FromBuffer
  <2> HIDE DEF n, c
  <2>5. QED
    BY <1>1, <2>1, <2>2, <2>4, OneStream DEF CharacterOf
<1>5. QED
  BY <1>3, <1>4

(* url_fgetwc *)
LEMMA FgetwcFacts ==
  ASSUME NEW x, Sound(x), NEW s \in Inputs, NEW g \in Fgetwc(x, s)
  PROVE  Sound(g.io) /\ CharacterOf(s, g.char)
<1>1. Nul \in Character
  BY DEF Character, White
<1>2. CASE x.ungotten # Nul
  <2>1. Fgetwc(x, s) = {[io |-> [x EXCEPT !.ungotten = Nul], char |-> x.ungotten]}
    BY <1>2 DEF Fgetwc
  <2>2. g.io = [x EXCEPT !.ungotten = Nul] /\ g.char = x.ungotten
    BY <2>1
  <2>3. x.ungotten \in Character /\ g.io.stream = x.stream
        /\ g.io \in [stream : [Inputs -> Stream], ungotten : Character]
    BY <1>1, <2>2 DEF Sound
  <2>4. QED
    BY <2>2, <2>3 DEF Sound, CharacterOf
<1>3. CASE x.ungotten = Nul /\ s \in Files
  BY <1>3, FromFileFacts DEF Fgetwc
<1>4. CASE x.ungotten = Nul /\ s \in Urls
  <2>1. s \notin Files
    BY <1>4, StreamsAssumption
  <2>2. Fgetwc(x, s) = {FromBuffer([x EXCEPT !.stream = n], s) : n \in Fill(x.stream, s)}
    BY <1>4, <2>1 DEF Fgetwc
  <2>3. PICK n \in Fill(x.stream, s) : g = FromBuffer([x EXCEPT !.stream = n], s)
    BY <2>2
  <2>4. Sound([x EXCEPT !.stream = n])
    BY <1>4, FillFacts
  <2>5. QED
    BY <1>4, <2>3, <2>4, FromBufferFacts
<1>5. QED
  BY <1>2, <1>3, <1>4 DEF Inputs

(* url_ungetwc *)
LEMMA UngetwcFacts ==
  ASSUME NEW x, Sound(x), NEW s \in Inputs, NEW c, CharacterOf(s, c)
  PROVE  Sound(Ungetwc(x, s, c))
<1>1. CASE s \in Urls
  BY <1>1 DEF Ungetwc, Sound, CharacterOf
<1>2. CASE s \notin Urls /\ c = Eof
  BY <1>2 DEF Ungetwc
<1>3. CASE s \notin Urls /\ c # Eof
  <2> DEFINE f == x.stream[s]
             n == [f EXCEPT !.back = <<c>> \o f.back, !.eof = FALSE]
  <2>1. s \in Files /\ f \in Stream /\ FileSound(f)
        /\ x \in [stream : [Inputs -> Stream], ungotten : Character]
    BY <1>3 DEF Sound, Inputs
  <2>2. c \in Character
    BY <1>3 DEF CharacterOf
  <2>3. <<c>> \o f.back \in Seq(Character)
    <3>1. f.back \in Seq(Character) /\ <<c>> \in Seq(Character)
      BY <2>1, <2>2 DEF Stream
    <3> DEFINE one == <<c>>
    <3> HIDE DEF f, one
    <3>2. one \o f.back \in Seq(Character)
      BY <3>1 DEF one
    <3>3. QED
      BY <3>2 DEF one
  <2>4. n \in Stream /\ FileSound(n)
    BY <2>1, <2>3 DEF Stream, FileSound
  <2>5. [x EXCEPT !.stream[s].back = <<c>> \o @, !.stream[s].eof = FALSE] = [x EXCEPT !.stream[s] = n]
    BY <2>1
  <2>6. Ungetwc(x, s, c) = [x EXCEPT !.stream[s] = n]
    BY <1>3, <2>5 DEF Ungetwc
  <2> HIDE DEF n
  <2>7. QED
    BY <1>3, <2>1, <2>4, <2>6, OneStream
<1>4. QED
  BY <1>1, <1>2, <1>3

-----------------------------------------------------------------------------
(* The stack of activations. *)
LEMMA NoCallers == Callers(<<>>)
<1>1. <<>> \in Seq([fn : Returns]) /\ \A f \in [fn : Returns] : f.fn \in Returns
  OBVIOUS
<1>2. QED
  BY <1>1 DEF Callers

LEMMA PushCallers ==
  ASSUME NEW frame, frame.fn \in Returns, NEW below, Callers(below)
  PROVE  Callers(Push(frame, below))
<1>1. PICK F : below \in Seq(F) /\ \A f \in F : f.fn \in Returns
  BY DEF Callers
<1> DEFINE one == <<frame>>
           G   == F \cup {frame}
<1>2. one \in Seq(G)
  OBVIOUS
<1>3. below \in Seq(G)
  BY <1>1
<1>4. \A f \in G : f.fn \in Returns
  BY <1>1
<1> HIDE DEF one, G
<1>5. one \o below \in Seq(G)
  BY <1>2, <1>3
<1>6. QED
  BY <1>4, <1>5 DEF Callers, Push, one

LEMMA PopCallers ==
  ASSUME NEW stack, Callers(stack), stack # <<>>
  PROVE  Head(stack).fn \in Returns /\ Callers(Tail(stack))
<1>1. PICK F : stack \in Seq(F) /\ \A f \in F : f.fn \in Returns
  BY DEF Callers
<1>2. Head(stack) \in F /\ Tail(stack) \in Seq(F)
  BY <1>1
<1>3. QED
  BY <1>1, <1>2 DEF Callers

LEMMA TopFrame ==
  ASSUME NEW frame, NEW below, Callers(below)
  PROVE  Push(frame, below) # <<>> /\ Head(Push(frame, below)) = frame
         /\ Tail(Push(frame, below)) = below
<1>1. PICK F : below \in Seq(F)
  BY DEF Callers
<1> DEFINE one == <<frame>>
           G   == F \cup {frame}
<1>2. one \in Seq(G) /\ Len(one) = 1 /\ one[1] = frame /\ below \in Seq(G)
  BY <1>1
<1> HIDE DEF one, G
<1>3. /\ one \o below \in Seq(G) /\ Len(one \o below) = 1 + Len(below)
      /\ (one \o below)[1] = frame
      /\ \A i \in 1 .. Len(below) : (one \o below)[i + 1] = below[i]
  <2>1. Len(below) \in Nat
    BY <1>2
  <2>2. one \in Seq(G) /\ below \in Seq(G)
    BY <1>2
  <2>3. /\ one \o below \in Seq(G) /\ Len(one \o below) = Len(one) + Len(below)
        /\ \A i \in 1 .. Len(one) + Len(below) :
             (one \o below)[i] = IF i <= Len(one) THEN one[i] ELSE below[i - Len(one)]
    BY <2>2, ConcatProperties
  <2>4. (one \o below)[1] = frame
    BY <1>2, <2>1, <2>3
  <2>5. \A i \in 1 .. Len(below) : (one \o below)[i + 1] = below[i]
    <3>1. TAKE i \in 1 .. Len(below)
    <3>2. i + 1 \in 1 .. 1 + Len(below) /\ ~(i + 1 <= 1) /\ (i + 1) - 1 = i
      BY <2>1
    <3>3. QED
      BY <1>2, <2>3, <3>2
  <2>6. QED
    BY <1>2, <2>3, <2>4, <2>5
<1> DEFINE all == one \o below
<1>4. all \in Seq(G) /\ Len(all) = 1 + Len(below) /\ all[1] = frame
      /\ \A i \in 1 .. Len(below) : all[i + 1] = below[i]
  BY <1>3
<1>5. Len(below) \in Nat
  BY <1>2
<1> HIDE DEF all
<1>6. all # <<>> /\ Head(all) = frame
  BY <1>4, <1>5
<1>7. Tail(all) = below
  <2>1. Tail(all) \in Seq(G) /\ Len(Tail(all)) = Len(below)
        /\ \A i \in 1 .. Len(below) : Tail(all)[i] = all[i + 1]
    BY <1>4, <1>5
  <2> DEFINE t == Tail(all)
  <2>2. t \in Seq(G) /\ Len(t) = Len(below) /\ \A i \in 1 .. Len(below) : t[i] = below[i]
    BY <1>4, <2>1
  <2> HIDE DEF t
  <2>3. t = below
    BY <1>2, <2>2
  <2>4. QED
    BY <2>3 DEF t
<1>8. QED
  BY <1>6, <1>7 DEF all, one, Push

(* What a function may make of the character c of a stream: the streams are as
   they are then, or the character is put back; and either a function waits for
   another character or there is a value.                                  *)
Outcome(r, g, s) ==
  /\ r.io = g.io \/ r.io = Ungetwc(g.io, s, g.char)
  /\ Active(r.stack, r.value)

LEMMA Waiting ==
  ASSUME NEW x, NEW frame, Waiter(frame), NEW below, Callers(below)
  PROVE  LET r == Wait(x, frame, below) IN r.io = x /\ Active(r.stack, r.value)
BY DEF Wait, Active, Push

LEMMA Giving ==
  ASSUME NEW x, NEW value, NEW below, Callers(below)
  PROVE  LET r == Give(x, value, below) IN r.io = x /\ Active(r.stack, r.value)
BY DEF Give, Active

LEMMA SymbolOutcome ==
  ASSUME NEW g, NEW s, NEW tag, NEW chars, NEW below, Callers(below)
  PROVE  Outcome(SymbolOrKey(g, s, tag, chars, below), g, s)
BY Waiting, Giving DEF SymbolOrKey, Outcome, Waits, Waiter

LEMMA NumberOutcome ==
  ASSUME NEW g, NEW s, NEW n, Waiter(n), NEW below, Callers(below)
  PROVE  Outcome(Number(g, s, n, below), g, s)
<1> DEFINE a == [n EXCEPT !.chars = Append(@, g.char)]
           b == [n EXCEPT !.chars = Append(@, g.char), !.mark = TRUE]
<1>1. Waiter(a) /\ Waiter(b)
  BY DEF Waiter
<1>2. Number(g, s, n, below) \in
        {Wait(g.io, a, below), Wait(g.io, b, below), Wait(g.io, n, below),
         Give(g.io, Exception, below), Give(Ungetwc(g.io, s, g.char), <<"number", n.chars>>, below)}
  BY DEF Number
<1> HIDE DEF a, b
<1>3. QED
  BY <1>1, <1>2, Waiting, Giving DEF Outcome

(* What waits at the start of an object. *)
LEMMA Starts ==
  /\ \A fn \in Waits : Waiter([fn |-> fn])
  /\ \A chars : Waiter([fn |-> "string", chars |-> chars])
  /\ \A tag, chars : Waiter([fn |-> "symbol", tag |-> tag, chars |-> chars])
  /\ \A parts : Waiter([fn |-> "path", parts |-> parts])
  /\ \A sign, mark : Waiter(NumberStart(sign, mark))
BY DEF Waiter, Waits, NumberStart

LEMMA FormOutcome ==
  ASSUME NEW g, NEW s, NEW below, Callers(below)
  PROVE  Outcome(Form(g, s, below), g, s)
<1> DEFINE c == g.char
           quoting == Push([fn |-> "quote"], below)
           symbol  == SymbolOrKey(g, s, "symbol", <<>>, below)
           number  == Number(g, s, NumberStart(<<>>, FALSE), below)
           W(frame) == Wait(g.io, frame, below)
<1>1. Callers(quoting)
  BY PushCallers DEF Returns
<1>2. Outcome(Wait(g.io, [fn |-> "form"], quoting), g, s)
  BY <1>1, Starts, Waiting DEF Outcome, Waits
<1>3. Outcome(symbol, g, s)
  BY SymbolOutcome
<1>4. Outcome(number, g, s)
  BY NumberOutcome, Starts
<1>5. Outcome(Give(g.io, Exception, below), g, s)
  BY Giving DEF Outcome
<1>6. \A frame : Waiter(frame) => Outcome(W(frame), g, s)
  BY Waiting DEF Outcome
<1>7. /\ Outcome(W([fn |-> "form"]), g, s) /\ Outcome(W([fn |-> "comment"]), g, s)
      /\ Outcome(W([fn |-> "list"]), g, s) /\ Outcome(W([fn |-> "map"]), g, s)
      /\ Outcome(W([fn |-> "minus"]), g, s) /\ Outcome(W([fn |-> "point"]), g, s)
      /\ Outcome(W([fn |-> "slash"]), g, s)
  BY <1>6, Starts DEF Waits
<1>8. /\ Outcome(W([fn |-> "string", chars |-> <<>>]), g, s)
      /\ Outcome(W([fn |-> "symbol", tag |-> "key", chars |-> <<>>]), g, s)
      /\ Outcome(W([fn |-> "path", parts |-> <<Named("session")>>]), g, s)
  BY <1>6, Starts
<1> DEFINE results ==
      {W([fn |-> "form"]), W([fn |-> "comment"]), W([fn |-> "list"]), W([fn |-> "map"]),
       W([fn |-> "minus"]), W([fn |-> "point"]), W([fn |-> "slash"]),
       W([fn |-> "string", chars |-> <<>>]), W([fn |-> "symbol", tag |-> "key", chars |-> <<>>]),
       W([fn |-> "path", parts |-> <<Named("session")>>]),
       Wait(g.io, [fn |-> "form"], quoting), Give(g.io, Exception, below), symbol, number}
<1>9. \A r \in results : Outcome(r, g, s)
  BY <1>2, <1>3, <1>4, <1>5, <1>7, <1>8
<1> HIDE DEF symbol, number, quoting, W
<1>10. Form(g, s, below) \in results
  BY DEF Form, symbol, number, quoting, W
<1>11. QED
  BY <1>9, <1>10

LEMMA ListOutcome ==
  ASSUME NEW g, NEW s, NEW below, Callers(below)
  PROVE  Outcome(ListFrom(g, s, below), g, s)
<1>1. Outcome(Give(g.io, Nil, below), g, s)
  BY Giving DEF Outcome
<1>2. Callers(Push([fn |-> "item"], below))
  BY PushCallers DEF Returns
<1>3. QED
  BY <1>1, <1>2, FormOutcome DEF ListFrom

LEMMA MapOutcome ==
  ASSUME NEW g, NEW s, NEW pairs, NEW below, Callers(below)
  PROVE  Outcome(MapFrom(g, s, pairs, below), g, s)
<1>1. Outcome(Give(g.io, <<"map", pairs>>, below), g, s)
  BY Giving DEF Outcome
<1>2. Callers(Push([fn |-> "key", pairs |-> pairs], below))
  BY PushCallers DEF Returns
<1>3. QED
  BY <1>1, <1>2, FormOutcome DEF MapFrom

LEMMA PathOutcome ==
  ASSUME NEW g, NEW s, NEW parts, NEW below, Callers(below)
  PROVE  Outcome(PathFrom(g, s, parts, below), g, s)
<1> DEFINE path    == Listing(<<Named("->")>> \o parts)
           Then(fn) == Push([fn |-> fn, parts |-> parts], below)
           key     == [fn |-> "symbol", tag |-> "key", chars |-> <<>>]
           name    == [fn |-> "symbol", tag |-> "symbol", chars |-> <<>>]
           symbol  == SymbolOrKey(g, s, "symbol", <<>>, Then("part"))
<1>1. Callers(Then("part")) /\ Callers(Then("name"))
  BY PushCallers DEF Returns
<1>2. Outcome(Give(g.io, path, below), g, s)
      /\ Outcome(Give(Ungetwc(g.io, s, g.char), path, below), g, s)
  BY Giving DEF Outcome
<1>3. Outcome(Wait(g.io, key, Then("part")), g, s) /\ Outcome(Wait(g.io, name, Then("name")), g, s)
  BY <1>1, Starts, Waiting DEF Outcome
<1>4. Outcome(symbol, g, s)
  BY <1>1, SymbolOutcome
<1>5. [name EXCEPT !.tag = "key"] = key
  OBVIOUS
<1>6. PathFrom(g, s, parts, below) \in
        {Give(g.io, path, below), Give(Ungetwc(g.io, s, g.char), path, below),
         Wait(g.io, key, Then("part")), Wait(g.io, name, Then("name")), symbol}
  BY <1>5 DEF PathFrom
<1>7. QED
  BY <1>2, <1>3, <1>4, <1>6

(* Whatever waits for a character knows what to do with each. *)
LEMMA TakenOutcome ==
  ASSUME NEW f, Waiter(f), NEW g, NEW s, NEW below, Callers(below)
  PROVE  Outcome(Taken(f, g, s, below), g, s)
<1> DEFINE c    == g.char
           back == Ungetwc(g.io, s, c)
           r    == Taken(f, g, s, below)
           W(frame) == Wait(g.io, frame, below)
           Unread(frame) == Wait(back, frame, below)
<1>1. /\ \A frame : Waiter(frame) => Outcome(W(frame), g, s)
      /\ \A frame : Waiter(frame) => Outcome(Unread(frame), g, s)
      /\ \A v : Outcome(Give(g.io, v, below), g, s)
      /\ \A v : Outcome(Give(back, v, below), g, s)
  BY Waiting, Giving DEF Outcome
<1>2. Outcome(W(f), g, s)
  BY <1>1
<1>3. CASE f.fn = "form"
  BY <1>3, FormOutcome DEF Taken
<1>4. CASE f.fn = "list"
  BY <1>4, ListOutcome DEF Taken
<1>5. CASE f.fn = "map"
  BY <1>5, MapOutcome DEF Taken
<1>6. CASE f.fn = "path"
  BY <1>6, PathOutcome DEF Taken
<1>7. CASE f.fn = "symbol"
  BY <1>7, SymbolOutcome DEF Taken
<1>8. CASE f.fn = "number"
  BY <1>8, NumberOutcome DEF Taken
<1>9. CASE f.fn = "comment"
  BY <1>9, <1>1, <1>2 DEF Taken, Comment
<1>10. CASE f.fn = "string"
  <2> DEFINE a == [f EXCEPT !.chars = Append(@, c)]
  <2>1. Waiter(a)
    BY DEF Waiter
  <2>2. r = IF c \in {"\"", Nul} THEN Give(g.io, String(f.chars), below)
            ELSE Wait(g.io, [f EXCEPT !.chars = Append(@, c)], below)
    BY <1>10 DEF Taken
  <2> HIDE DEF r
  <2>3. r = Give(g.io, String(f.chars), below) \/ r = W(a)
    BY <2>2
  <2> HIDE DEF a, W
  <2>4. QED
    BY <1>1, <2>1, <2>3 DEF r
<1>11. CASE f.fn = "minus"
  <2> DEFINE number == NumberStart(<<"-">>, FALSE)
             symbol == [fn |-> "symbol", tag |-> "symbol", chars |-> <<"-">>]
  <2>1. Waiter(number) /\ Waiter(symbol)
    BY Starts
  <2>2. r \in {Unread(number), Unread(symbol)}
    BY <1>11 DEF Taken
  <2> HIDE DEF number, symbol, r
  <2>3. QED
    BY <1>1, <2>1, <2>2 DEF r
<1>12. CASE f.fn = "point"
  <2> DEFINE form    == [fn |-> "form"]
             symbol  == [fn |-> "symbol", tag |-> "symbol", chars |-> <<".">>]
             ignored == Push([fn |-> "ignored"], below)
  <2>1. Waiter(form) /\ Waiter(symbol)
    BY Starts DEF Waits
  <2>2. Callers(ignored)
    BY PushCallers DEF Returns
  <2>3. Outcome(Wait(g.io, symbol, ignored), g, s)
    BY <2>1, <2>2, Waiting DEF Outcome
  <2>4. r \in {Give(back, Exception, below), W(form), Wait(g.io, symbol, ignored)}
    BY <1>12 DEF Taken
  <2> HIDE DEF form, symbol, ignored, r
  <2>5. QED
    BY <1>1, <2>1, <2>3, <2>4 DEF r
<1>13. CASE f.fn = "slash"
  <2> DEFINE path == [fn |-> "path", parts |-> <<Listing(<<Named("oblist")>>)>>]
  <2>1. Waiter(path)
    BY Starts
  <2>2. r \in {Give(back, Symbol(<<"/">>), below), Unread(path)}
    BY <1>13 DEF Taken
  <2> HIDE DEF path, r
  <2>3. QED
    BY <1>1, <2>1, <2>2 DEF r
<1>14. CASE f.fn = "rest"
  <2> DEFINE list    == [fn |-> "list"]
             dotted  == [f EXCEPT !.fn = "dotted"]
             tail    == [f EXCEPT !.fn = "tail"]
             onDot   == Push(dotted, below)
             onTail  == Push(tail, below)
  <2>1. Waiter(list)
    BY Starts DEF Waits
  <2>2. dotted.fn \in Returns /\ tail.fn \in Returns
    BY DEF Waiter, Returns
  <2>3. Callers(onDot) /\ Callers(onTail)
    <3> HIDE DEF dotted, tail
    <3>1. QED
      BY <2>2, PushCallers
  <2>4. Outcome(Wait(g.io, list, onDot), g, s)
    BY <2>1, <2>3, Waiting DEF Outcome
  <2>5. Outcome(ListFrom(g, s, onTail), g, s)
    BY <2>3, ListOutcome
  <2>6. r \in {W(f), Wait(g.io, list, onDot), ListFrom(g, s, onTail)}
    BY <1>14 DEF Taken
  <2> HIDE DEF list, onDot, onTail, r
  <2>7. QED
    BY <1>2, <2>4, <2>5, <2>6 DEF r
<1>15. CASE f.fn = "value"
  <2> DEFINE frame == [f EXCEPT !.fn = "pair"]
             pair  == Push(frame, below)
  <2>1. frame.fn \in Returns
    BY DEF Waiter, Returns
  <2>2. Callers(pair)
    <3> HIDE DEF frame
    <3>1. QED
      BY <2>1, PushCallers
  <2>3. Outcome(Form(g, s, pair), g, s)
    BY <2>2, FormOutcome
  <2>4. r \in {W(f), Form(g, s, pair)}
    BY <1>15 DEF Taken
  <2> HIDE DEF pair, r
  <2>5. QED
    BY <1>2, <2>3, <2>4 DEF r
<1>16. CASE f.fn = "pairs"
  <2>1. Outcome(MapFrom(g, s, f.pairs, below), g, s)
    BY MapOutcome
  <2>2. r \in {W(f), MapFrom(g, s, f.pairs, below)}
    BY <1>16 DEF Taken
  <2> HIDE DEF r
  <2>3. QED
    BY <1>2, <2>1, <2>2 DEF r
<1>17. CASE f.fn = "slurp"
  <2> DEFINE a == [f EXCEPT !.chars = Append(@, c), !.begun = TRUE]
  <2>1. Waiter(a)
    BY DEF Waiter
  <2>2. r = IF f.begun /\ (Feof(g.io, s) \/ c = Nul)
            THEN Give(g.io, <<"slurped", f.chars>>, below)
            ELSE Wait(g.io, [f EXCEPT !.chars = Append(@, c), !.begun = TRUE], below)
    BY <1>17 DEF Taken
  <2> HIDE DEF r
  <2>3. r = Give(g.io, <<"slurped", f.chars>>, below) \/ r = W(a)
    BY <2>2
  <2> HIDE DEF a, W
  <2>4. QED
    BY <1>1, <2>1, <2>3 DEF r
<1>18. QED
  BY <1>3, <1>4, <1>5, <1>6, <1>7, <1>8, <1>9, <1>10, <1>11, <1>12, <1>13, <1>14, <1>15, <1>16, <1>17 DEF Waiter, Waits

(* Whatever waits for a value knows what to do with it, and reads nothing. *)
LEMMA ReturnedOutcome ==
  ASSUME NEW f, f.fn \in Returns, NEW v, NEW below, Callers(below)
  PROVE  LET r == Returned(f, v, below) IN r.io = io /\ Active(r.stack, r.value)
<1> DEFINE r == Returned(f, v, below)
           Fine(q) == q.io = io /\ Active(q.stack, q.value)
           rest  == [fn |-> "rest", car |-> v]
           value == [fn |-> "value", pairs |-> f.pairs, key |-> v]
           pairs == [fn |-> "pairs", pairs |-> Append(f.pairs, <<f.key, v>>)]
           part  == [fn |-> "path", parts |-> Append(f.parts, v)]
           name  == [fn |-> "path", parts |-> Append(f.parts, Quoted(v))]
<1>1. Waiter(rest) /\ Waiter(value) /\ Waiter(pairs) /\ Waiter(part) /\ Waiter(name)
  BY DEF Waiter, Waits
<1>2. /\ \A w : Fine(Give(io, w, below))
      /\ \A frame : Waiter(frame) => Fine(Wait(io, frame, below))
  BY Giving, Waiting
<1>3. r \in {Give(io, Quoted(v), below), Give(io, Pair(f.car, v), below),
            Give(io, Pair(f.car, Car(v)), below), Give(io, Nil, below),
            Wait(io, rest, below), Wait(io, value, below), Wait(io, pairs, below),
            Wait(io, part, below), Wait(io, name, below)}
  BY DEF Returned, Returns
<1> HIDE DEF r, Fine, rest, value, pairs, part, name
<1>4. Fine(r)
  BY <1>1, <1>2, <1>3
<1>5. QED
  BY <1>4 DEF Fine, r

-----------------------------------------------------------------------------
(* url_fopen and url_fclose. *)
LEMMA OpenFacts ==
  ASSUME Sound(io), NEW s \in Inputs, Open(s)
  PROVE  Sound(io')
<1>1. io \in [stream : [Inputs -> Stream], ungotten : Character]
  BY DEF Sound
<1> DEFINE opened == [io.stream[s] EXCEPT !.state = "open"]
<1>2. opened \in Stream
  BY <1>1 DEF Stream
<1>3. CASE s \in Files /\ io' = [io EXCEPT !.stream[s].state = "open"]
  <2>1. io' = [io EXCEPT !.stream[s] = opened]
    BY <1>1, <1>3
  <2>2. FileSound(opened)
    BY <1>1, <1>3 DEF Sound, FileSound, Stream
  <2>3. s \notin Urls
    BY <1>3, StreamsAssumption
  <2> HIDE DEF opened
  <2>4. QED
    BY <1>2, <2>1, <2>2, <2>3, OneStream
<1>4. CASE s \in Urls /\ ~(s \in Files /\ io' = [io EXCEPT !.stream[s].state = "open"])
  <2> DEFINE stream == [io.stream EXCEPT ![s].state = "open"]
  <2>1. stream \in [Inputs -> Stream] /\ stream[s] = opened
        /\ \A t \in Inputs \ {s} : stream[t] = io.stream[t]
    BY <1>1, <1>2
  <2>2. Delivers(opened)
    BY <1>1, <1>4 DEF Sound, UrlSound, Delivers, Stream
  <2>3. s \notin Files /\ Files \subseteq Inputs /\ Urls \subseteq Inputs
    BY <1>4, StreamsAssumption DEF Inputs
  <2> HIDE DEF opened
  <2>4. PICK m \in Perform(stream) : io' = [io EXCEPT !.stream = [m EXCEPT ![s].running = Going(m) # {}]]
    BY <1>4 DEF Open
  <2> HIDE DEF stream
  <2>5. Streaming(stream)
    BY <2>1, <2>2, <2>3 DEF Streaming, Sound, UrlSound
  <2>6. \A t \in Urls \ {s} : Noted(stream[t])
    BY <2>1, <2>3 DEF Sound, UrlSound
  <2> DEFINE n == [m EXCEPT ![s].running = Going(m) # {}]
  <2>7. Streaming(n) /\ \A t \in Urls : Noted(n[t])
    BY <1>4, <2>5, <2>6, NotedTruly
  <2>8. io' = [io EXCEPT !.stream = n]
    BY <2>4
  <2> HIDE DEF n
  <2>9. n \in [Inputs -> Stream]
    BY <2>7 DEF Streaming
  <2>10. io' \in [stream : [Inputs -> Stream], ungotten : Character] /\ io'.stream = n
    BY <1>1, <2>8, <2>9
  <2> DEFINE x == io'
  <2>11. x \in [stream : [Inputs -> Stream], ungotten : Character] /\ x.stream = n
    BY <2>10
  <2> HIDE DEF x
  <2>12. Sound(x)
    BY <2>7, <2>11, SoundStreams
  <2>13. QED
    BY <2>12 DEF x
<1>5. QED
  BY <1>3, <1>4 DEF Open

LEMMA CloseFacts ==
  ASSUME Sound(io), NEW s \in Inputs, Close(s)
  PROVE  Sound(io')
<1> DEFINE closed == [Unopened(<<>>) EXCEPT !.state = "closed"]
<1>1. closed \in Stream /\ FileSound(closed) /\ UrlSound(closed)
  <2> DEFINE u == Unopened(<<>>)
  <2>1. <<>> \in Seq(Character)
    OBVIOUS
  <2>2. u \in Stream /\ u.buffer = <<>> /\ u.back = <<>> /\ ~u.running /\ ~u.eof /\ ~u.over
    BY <2>1 DEF Unopened, Stream
  <2> HIDE DEF u
  <2>3. closed = [u EXCEPT !.state = "closed"]
    BY DEF u
  <2> HIDE DEF closed
  <2>4. closed \in Stream /\ closed.state = "closed"
    BY <2>2, <2>3 DEF Stream
  <2>5. closed.buffer = <<>> /\ closed.back = <<>> /\ ~closed.running /\ ~closed.eof /\ ~closed.over
    BY <2>2, <2>3 DEF Stream
  <2>6. QED
    BY <2>4, <2>5 DEF FileSound, UrlSound, Delivers, Noted
<1>2. io' = [io EXCEPT !.stream[s] = closed]
  BY DEF Close
<1> HIDE DEF closed
<1>3. QED
  BY <1>1, <1>2, OneStream

(* A call of the reader. *)
LEMMA CallFacts ==
  ASSUME NEW s \in Inputs, NEW frame, Waiter(frame), Call(s, frame)
  PROVE  TaskSound'
<1>1. task' = [on |-> s, stack |-> Push(frame, <<>>), value |-> None]
  BY DEF Call, Goes, Wait, Push
<1>2. Active(Push(frame, <<>>), None)
  BY NoCallers DEF Active
<1>3. QED
  BY <1>1, <1>2 DEF TaskSound

LEMMA GoesFacts ==
  ASSUME NEW s \in Inputs, NEW r, Active(r.stack, r.value), Goes(s, r)
  PROVE  TaskSound'
BY DEF Goes, TaskSound

LEMMA ReaderInit == Init => ReaderInv
<1>1. SUFFICES ASSUME Init PROVE ReaderInv
  OBVIOUS
<1>2. /\ io = [stream |-> [s \in Inputs |-> Unopened(Encoded(s, Contents(plan[s])))], ungotten |-> Nul]
      /\ plan \in Plans /\ task = Idle
  BY <1>1 DEF Init
<1>3. \A text \in Seq(Character) :
        Unopened(text) \in Stream /\ FileSound(Unopened(text)) /\ UrlSound(Unopened(text))
  BY DEF Unopened, Stream, FileSound, UrlSound, Delivers, Noted
<1>4. \A s \in Inputs : Encoded(s, Contents(plan[s])) \in Seq(Character)
  BY <1>2, ReaderAssumption
<1>5. Nul \in Character
  BY DEF Character, White
<1>6. Sound(io)
  <2> DEFINE text(s) == Encoded(s, Contents(plan[s]))
  <2>1. \A s \in Inputs : text(s) \in Seq(Character)
    BY <1>4
  <2>2. io = [stream |-> [s \in Inputs |-> Unopened(text(s))], ungotten |-> Nul]
    BY <1>2
  <2> HIDE DEF text
  <2>3. io \in [stream : [Inputs -> Stream], ungotten : Character]
    BY <1>3, <1>5, <2>1, <2>2
  <2>4. \A s \in Inputs : FileSound(io.stream[s]) /\ UrlSound(io.stream[s])
    BY <1>3, <2>1, <2>2
  <2>5. QED
    BY <2>3, <2>4 DEF Sound, Inputs
<1>7. QED
  BY <1>2, <1>6 DEF ReaderInv, TaskSound

LEMMA TakeFacts ==
  ASSUME ReaderInv, Take
  PROVE  ReaderInv'
<1>1. /\ Sound(io) /\ task.on \in Inputs /\ Active(task.stack, task.value)
      /\ task.value = None
  BY DEF ReaderInv, TaskSound, Take
<1>2. PICK f, below : Waiter(f) /\ Callers(below) /\ task.stack = Push(f, below)
  BY <1>1 DEF Active, None
<1>3. Head(task.stack) = f /\ Tail(task.stack) = below
  BY <1>2, TopFrame
<1>4. PICK g \in Fgetwc(io, task.on) :
        LET r == Taken(Head(task.stack), g, task.on, Tail(task.stack))
        IN  io' = r.io /\ task' = [on |-> task.on, stack |-> r.stack, value |-> r.value]
  BY DEF Take, Goes
<1> DEFINE s == task.on
           r == Taken(f, g, s, below)
<1>5. io' = r.io /\ task' = [on |-> s, stack |-> r.stack, value |-> r.value]
  BY <1>3, <1>4
<1>6. Sound(g.io) /\ CharacterOf(s, g.char)
  BY <1>1, FgetwcFacts
<1>7. Outcome(r, g, s)
  BY <1>2, TakenOutcome
<1> HIDE DEF r
<1>8. Sound(r.io)
  BY <1>1, <1>6, <1>7, UngetwcFacts DEF Outcome
<1>9. Active(r.stack, r.value)
  BY <1>7 DEF Outcome
<1>10. TaskSound'
  BY <1>1, <1>5, <1>9 DEF TaskSound
<1>11. Sound(io')
  BY <1>5, <1>8
<1>12. QED
  BY <1>10, <1>11 DEF ReaderInv

LEMMA ReturnFacts ==
  ASSUME ReaderInv, Return
  PROVE  ReaderInv'
<1>1. /\ Sound(io) /\ task.on \in Inputs /\ Active(task.stack, task.value)
      /\ task.value # None /\ task.stack # <<>>
  BY DEF ReaderInv, TaskSound, Return
<1>2. Callers(task.stack)
  BY <1>1 DEF Active
<1> DEFINE f == Head(task.stack)
           v == Head(task.value)
           below == Tail(task.stack)
           r == Returned(f, v, below)
<1>3. f.fn \in Returns /\ Callers(below)
  BY <1>1, <1>2, PopCallers
<1>4. io' = io /\ task' = [on |-> task.on, stack |-> r.stack, value |-> r.value]
  BY DEF Return, Goes
<1> HIDE DEF f, v, below
<1>5. Active(r.stack, r.value)
  BY <1>3, ReturnedOutcome
<1> HIDE DEF r
<1>6. TaskSound'
  BY <1>1, <1>4, <1>5 DEF TaskSound
<1>7. QED
  BY <1>1, <1>4, <1>6 DEF ReaderInv

LEMMA ReaderStep == ReaderInv /\ [Next]_vars => ReaderInv'
<1>1. SUFFICES ASSUME ReaderInv, [Next]_vars PROVE ReaderInv'
  OBVIOUS
<1>2. Sound(io) /\ TaskSound
  BY <1>1 DEF ReaderInv
<1>3. ASSUME io' = io, task' = task PROVE ReaderInv'
  BY <1>2, <1>3 DEF ReaderInv, TaskSound
<1>4. ASSUME task = Idle, task' = task, Sound(io') PROVE ReaderInv'
  BY <1>4 DEF ReaderInv, TaskSound
<1>5. ASSUME NEW s \in Inputs, LispOpen(s) PROVE ReaderInv'
  BY <1>2, <1>4, <1>5, OpenFacts DEF LispOpen
<1>6. ASSUME NEW s \in Inputs, LispClose(s) PROVE ReaderInv'
  BY <1>2, <1>4, <1>6, CloseFacts DEF LispClose
<1>7. ASSUME NEW s \in Inputs, Read(s) PROVE ReaderInv'
  <2>1. Waiter([fn |-> "form"])
    BY Starts DEF Waits
  <2>2. TaskSound' /\ io' = io
    BY <1>7, <2>1, CallFacts DEF Read
  <2>3. QED
    BY <1>2, <2>2 DEF ReaderInv
<1>8. ASSUME NEW s \in Inputs, ReadChar(s) PROVE ReaderInv'
  <2>1. PICK g \in Fgetwc(io, s) : io' = g.io
    BY <1>8 DEF ReadChar
  <2>2. Sound(io')
    BY <1>2, <2>1, FgetwcFacts
  <2>3. QED
    BY <1>4, <1>8, <2>2 DEF ReadChar, Ready
<1>9. ASSUME NEW s \in Inputs, Slurp(s) PROVE ReaderInv'
  <2>1. Waiter([fn |-> "slurp", chars |-> <<>>, begun |-> FALSE])
    BY DEF Waiter, Waits
  <2>2. TaskSound' /\ io' = io
    BY <1>9, <2>1, CallFacts DEF Slurp
  <2>3. QED
    BY <1>2, <2>2 DEF ReaderInv
<1>10. ASSUME Finish PROVE ReaderInv'
  BY <1>2, <1>10 DEF Finish, ReaderInv, TaskSound
<1>11. CASE Rest \/ UNCHANGED vars
  BY <1>3, <1>11 DEF Rest, vars
<1>12. QED
  BY <1>1, <1>5, <1>6, <1>7, <1>8, <1>9, <1>10, <1>11, TakeFacts, ReturnFacts DEF Next

-----------------------------------------------------------------------------
(* Every stream is sound, and every function that is active knows what to do
   with what it waits for: the invariant that the others follow from.      *)
THEOREM ReaderSound == Spec => []ReaderInv
<1>1. Init => ReaderInv
  BY ReaderInit
<1>2. ReaderInv /\ [Next]_vars => ReaderInv'
  BY ReaderStep
<1>3. QED
  BY <1>1, <1>2, PTL DEF Spec

LEMMA FrameAt ==
  ASSUME NEW f, NEW below, Callers(below), NEW i \in DOMAIN Push(f, below)
  PROVE  IF i = 1 THEN Push(f, below)[i] = f ELSE Push(f, below)[i].fn \in Returns
<1>1. PICK F : below \in Seq(F) /\ \A b \in F : b.fn \in Returns
  BY DEF Callers
<1> DEFINE one == <<f>>
           G   == F \cup {f}
<1>2. one \in Seq(G) /\ Len(one) = 1 /\ one[1] = f /\ below \in Seq(G)
  BY <1>1
<1>3. Push(f, below) = one \o below
  BY DEF Push
<1> HIDE DEF one, G
<1>4. one \in Seq(G) /\ below \in Seq(G)
  BY <1>2
<1>5. /\ one \o below \in Seq(G) /\ Len(one \o below) = Len(one) + Len(below)
      /\ \A j \in 1 .. Len(one) + Len(below) :
           (one \o below)[j] = IF j <= Len(one) THEN one[j] ELSE below[j - Len(one)]
  BY <1>4, ConcatProperties
<1>6. Len(below) \in Nat
  BY <1>1
<1>7. i \in 1 .. 1 + Len(below)
  <2>1. DOMAIN (one \o below) = 1 .. Len(one \o below)
    BY <1>5
  <2>2. QED
    BY <1>2, <1>3, <1>5, <2>1
<1>8. CASE i = 1
  BY <1>2, <1>3, <1>5, <1>6, <1>7, <1>8
<1>9. CASE i # 1
  <2>1. i - 1 \in 1 .. Len(below) /\ ~(i <= 1)
    BY <1>6, <1>7, <1>9
  <2>2. (one \o below)[i] = below[i - 1]
    BY <1>2, <1>5, <1>7, <2>1
  <2>3. below[i - 1] \in F
    BY <1>1, <2>1
  <2>4. QED
    BY <1>1, <1>3, <1>9, <2>2, <2>3
<1>10. QED
  BY <1>8, <1>9

LEMMA CallerAt ==
  ASSUME NEW stack, Callers(stack), NEW i \in DOMAIN stack
  PROVE  stack[i].fn \in Returns
<1>1. PICK F : stack \in Seq(F) /\ \A f \in F : f.fn \in Returns
  BY DEF Callers
<1>2. stack[i] \in F
  BY <1>1
<1>3. QED
  BY <1>1, <1>2

LEMMA ActiveTyped ==
  ASSUME NEW stack, NEW value, Active(stack, value)
  PROVE  /\ value = None => stack # <<>>
         /\ \A i \in DOMAIN stack :
              stack[i].fn \in IF i = 1 /\ value = None THEN Waits ELSE Returns
<1>1. CASE value = None
  <2>1. PICK f, below : Waiter(f) /\ Callers(below) /\ stack = Push(f, below)
    BY <1>1 DEF Active, None
  <2>2. stack # <<>>
    BY <2>1, TopFrame
  <2>3. \A i \in DOMAIN stack : IF i = 1 THEN stack[i] = f ELSE stack[i].fn \in Returns
    BY <2>1, FrameAt
  <2>4. QED
    BY <1>1, <2>1, <2>2, <2>3 DEF Waiter
<1>2. CASE value # None
  <2>1. Callers(stack)
    BY <1>2 DEF Active
  <2>2. QED
    BY <1>2, <2>1, CallerAt
<1>3. QED
  BY <1>1, <1>2

LEMMA ReaderMeans == ReaderInv => TypeOK /\ EndIsTrue
<1>1. SUFFICES ASSUME ReaderInv PROVE TypeOK /\ EndIsTrue
  OBVIOUS
<1>2. Sound(io) /\ TaskSound
  BY <1>1 DEF ReaderInv
<1>3. io \in [stream : [Inputs -> Stream], ungotten : Character]
  BY <1>2 DEF Sound
<1>4. \A s \in Inputs :
        /\ s \in Files => io.stream[s].buffer = <<>> /\ ~io.stream[s].running
        /\ s \in Urls => io.stream[s].back = <<>> /\ ~io.stream[s].eof
  BY <1>2 DEF Sound, FileSound, UrlSound, Delivers
<1>5. \/ task = Idle
      \/ /\ task.on \in Inputs
         /\ task.value = None => task.stack # <<>>
         /\ \A i \in DOMAIN task.stack :
              task.stack[i].fn \in IF i = 1 /\ task.value = None THEN Waits ELSE Returns
  BY <1>2, ActiveTyped DEF TaskSound
<1>6. EndIsTrue
  <2>1. SUFFICES ASSUME NEW s \in Inputs, io.stream[s].state = "open", Feof(io, s)
                 PROVE  io.stream[s].rest = <<>> /\ io.stream[s].buffer = <<>>
                        /\ io.stream[s].back = <<>>
    BY DEF EndIsTrue
  <2>2. CASE s \in Files
    BY <1>2, <2>1, <2>2 DEF Feof, Sound, FileSound
  <2>3. CASE s \notin Files
    <3>1. s \in Urls
      BY <2>3 DEF Inputs
    <3>2. UrlSound(io.stream[s])
      BY <1>2, <3>1 DEF Sound
    <3>3. QED
      BY <2>1, <2>3, <3>2 DEF Feof, UrlSound, Delivers, Noted
  <2>4. QED
    BY <2>2, <2>3
<1>7. QED
  BY <1>3, <1>4, <1>5, <1>6 DEF TypeOK

(* The streams and the activations of the reader have their types: the function
   that was called last waits for a character, until it has a value to return,
   and every other one for a value, whatever is in the streams.            *)
THEOREM ReaderTyped == Spec => []TypeOK
BY ReaderSound, ReaderMeans, PTL

(* url_feof says of a stream that it is at its end only when everything has
   been taken from it, for any number of transfers that libcurl advances in any
   way, though it looks at what was noted of all of them together.         *)
THEOREM EndsAreTrue == Spec => []EndIsTrue
BY ReaderSound, ReaderMeans, PTL
-----------------------------------------------------------------------------
(* What is pushed back.  A character of a transfer goes to `ungotten', which the
   next call takes whatever stream it is for.  If that is white space, as
   behind a whole object, a file's call passes over it and pushes nothing back,
   and any other character that is pushed back on a file was just taken from it.
   (A `)' that is left over would be pushed back on a file that may hold a
   character already.)                                                      *)
OneBack(x) == \A s \in Files : Len(x.stream[s].back) <= 1

Begun(stack) == Head(stack).fn \in {"form", "slurp"}

Fresh ==
  task # Idle /\ task.on \in Files /\ io.ungotten # Nul =>
    io.ungotten \in White /\ task.value = None /\ Begun(task.stack)

InTurn == OneBack(io) /\ Fresh

LEMMA OneBackKept ==
  ASSUME NEW x, NEW y, OneBack(x), \A s \in Files : y.stream[s].back = x.stream[s].back
  PROVE  OneBack(y)
BY DEF OneBack

(* fgetwc takes the character that is pushed back. *)
LEMMA FromFileBack ==
  ASSUME NEW x, Sound(x), OneBack(x), NEW s \in Files
  PROVE  LET g == FromFile(x, s)
         IN  OneBack(g.io) /\ g.io.stream[s].back = <<>> /\ g.io.ungotten = x.ungotten
<1> DEFINE f == x.stream[s]
           g == FromFile(x, s)
<1>1. /\ s \in Inputs /\ f \in Stream /\ Len(f.back) <= 1 /\ x.stream \in [Inputs -> Stream]
      /\ x \in [stream : [Inputs -> Stream], ungotten : Character]
  BY DEF Sound, Inputs, OneBack
<1>2. f.back \in Seq(Character)
  BY <1>1 DEF Stream
<1>3. ASSUME NEW n, n.back = <<>>, g.io = [x EXCEPT !.stream[s] = n]
      PROVE  OneBack(g.io) /\ g.io.stream[s].back = <<>> /\ g.io.ungotten = x.ungotten
  <2> HIDE DEF g
  <2>1. g.io.stream[s] = n /\ g.io.ungotten = x.ungotten
        /\ \A t \in Inputs \ {s} : g.io.stream[t] = x.stream[t]
    BY <1>1, <1>3
  <2>2. Len(<<>>) <= 1
    OBVIOUS
  <2>3. \A t \in Files : Len(g.io.stream[t].back) <= 1
    BY <1>3, <2>1, <2>2 DEF OneBack, Inputs
  <2>4. QED
    BY <1>3, <2>1, <2>3 DEF OneBack
<1>4. CASE f.back # <<>>
  <2> DEFINE n == [f EXCEPT !.back = Tail(f.back)]
  <2>1. Tail(f.back) = <<>>
    <3> DEFINE b == f.back
    <3>1. b \in Seq(Character) /\ Len(b) <= 1 /\ b # <<>>
      BY <1>1, <1>2, <1>4
    <3> HIDE DEF b
    <3>2. Len(b) = 1
      <4>1. Len(b) \in Nat /\ Len(b) # 0
        BY <3>1, EmptySeq
      <4>2. Len(b) <= 1
        BY <3>1
      <4> DEFINE len == Len(b)
      <4>3. len \in Nat /\ len # 0 /\ len <= 1
        BY <4>1, <4>2
      <4> HIDE DEF len
      <4>4. len = 1
        BY <4>3
      <4>5. QED
        BY <4>4 DEF len
    <3>3. Tail(b) \in Seq(Character) /\ Len(Tail(b)) = 0
      BY <3>1, <3>2
    <3>4. Tail(b) = <<>>
      BY <3>3, EmptySeq
    <3>5. QED
      BY <3>4 DEF b
  <2>2. n.back = <<>>
    BY <1>1, <2>1 DEF Stream
  <2>3. [x EXCEPT !.stream[s].back = Tail(@)] = [x EXCEPT !.stream[s] = n]
    BY <1>1
  <2>4. g.io = [x EXCEPT !.stream[s] = n]
    BY <1>4, <2>3 DEF FromFile
  <2> HIDE DEF n, g
  <2>5. QED
    BY <1>3, <2>2, <2>4 DEF g
<1>5. CASE f.back = <<>> /\ f.rest = <<>>
  <2> DEFINE n == [f EXCEPT !.eof = TRUE]
  <2>1. n.back = <<>>
    BY <1>1, <1>5 DEF Stream
  <2>2. [x EXCEPT !.stream[s].eof = TRUE] = [x EXCEPT !.stream[s] = n]
    BY <1>1
  <2>3. g.io = [x EXCEPT !.stream[s] = n]
    BY <1>5, <2>2 DEF FromFile
  <2> HIDE DEF n, g
  <2>4. QED
    BY <1>3, <2>1, <2>3 DEF g
<1>6. CASE f.back = <<>> /\ f.rest # <<>>
  <2> DEFINE n == [f EXCEPT !.rest = Tail(f.rest)]
  <2>1. n.back = <<>>
    BY <1>1, <1>6 DEF Stream
  <2>2. [x EXCEPT !.stream[s].rest = Tail(@)] = [x EXCEPT !.stream[s] = n]
    BY <1>1
  <2>3. g.io = [x EXCEPT !.stream[s] = n]
    BY <1>6, <2>2 DEF FromFile
  <2> HIDE DEF n, g
  <2>4. QED
    BY <1>3, <2>1, <2>3 DEF g
<1>7. QED
  BY <1>4, <1>5, <1>6

(* fill_buffer and url_fgets: nothing is pushed back on a file. *)
LEMMA FillBack ==
  ASSUME NEW x, Sound(x), NEW s \in Urls, NEW n \in Fill(x.stream, s)
  PROVE  \A t \in Files : n[t] = x.stream[t]
<1>1. CASE n = x.stream
  BY <1>1
<1>2. CASE n # x.stream
  <2> DEFINE ready == {m \in Perform(x.stream) : m[s].buffer # <<>> \/ Going(m) = {}}
             note(m) == [m EXCEPT ![s].running = Going(m) # {}]
  <2>1. n \in {note(m) : m \in ready}
    BY <1>2 DEF Fill
  <2>2. PICK m \in Perform(x.stream) : n = note(m)
    BY <2>1
  <2>3. m \in [Inputs -> Stream] /\ \A t \in Files : m[t] = x.stream[t]
    BY PerformFacts DEF Sound
  <2>4. s \notin Files /\ Files \subseteq Inputs
    BY StreamsAssumption DEF Inputs
  <2>5. \A t \in Inputs \ {s} : n[t] = m[t]
    BY <2>2, <2>3
  <2>6. QED
    BY <2>3, <2>4, <2>5
<1>3. QED
  BY <1>1, <1>2

LEMMA FromBufferBack ==
  ASSUME NEW x, Sound(x), NEW s \in Urls
  PROVE  \A t \in Files : FromBuffer(x, s).io.stream[t] = x.stream[t]
<1> DEFINE f == x.stream[s]
           io2 == FromBuffer(x, s).io
<1>1. s \notin Files /\ Files \subseteq Inputs /\ x.stream \in [Inputs -> Stream]
      /\ x \in [stream : [Inputs -> Stream], ungotten : Character]
  BY StreamsAssumption DEF Sound, Inputs
<1>2. io2 = x \/ io2 = [x EXCEPT !.stream[s].buffer = Tail(@)]
  BY DEF FromBuffer
<1> HIDE DEF io2
<1>3. \A t \in Inputs \ {s} : io2.stream[t] = x.stream[t]
  BY <1>1, <1>2
<1>4. \A t \in Files : io2.stream[t] = x.stream[t]
  BY <1>1, <1>3
<1>5. QED
  BY <1>4 DEF io2

(* url_fgetwc: it takes the character that was pushed back first. *)
LEMMA FgetwcBack ==
  ASSUME NEW x, Sound(x), OneBack(x), NEW s \in Inputs, NEW g \in Fgetwc(x, s)
  PROVE  /\ OneBack(g.io)
         /\ s \in Files => g.io.ungotten = Nul
         /\ x.ungotten # Nul => g.char = x.ungotten
         /\ x.ungotten = Nul /\ s \in Files => g.io.stream[s].back = <<>>
<1>1. CASE x.ungotten # Nul
  <2>1. Fgetwc(x, s) = {[io |-> [x EXCEPT !.ungotten = Nul], char |-> x.ungotten]}
    BY <1>1 DEF Fgetwc
  <2>2. g.io = [x EXCEPT !.ungotten = Nul] /\ g.char = x.ungotten
    BY <2>1
  <2>3. g.io.stream = x.stream /\ g.io.ungotten = Nul
    BY <2>2 DEF Sound
  <2>4. OneBack(g.io)
    BY <2>3, OneBackKept
  <2>5. QED
    BY <1>1, <2>2, <2>3, <2>4
<1>2. CASE x.ungotten = Nul /\ s \in Files
  <2>1. g = FromFile(x, s)
    BY <1>2 DEF Fgetwc
  <2>2. QED
    BY <1>2, <2>1, FromFileBack
<1>3. CASE x.ungotten = Nul /\ s \notin Files
  <2>1. s \in Urls
    BY <1>3 DEF Inputs
  <2>2. PICK n \in Fill(x.stream, s) : g = FromBuffer([x EXCEPT !.stream = n], s)
    BY <1>3 DEF Fgetwc
  <2> DEFINE y == [x EXCEPT !.stream = n]
  <2>3. Sound(y)
    BY <2>1, FillFacts
  <2>4. y.stream = n
    BY DEF Sound
  <2>5. g = FromBuffer(y, s)
    BY <2>2
  <2> HIDE DEF y
  <2>6. \A t \in Files : g.io.stream[t] = y.stream[t]
    BY <2>1, <2>3, <2>5, FromBufferBack
  <2>7. \A t \in Files : y.stream[t] = x.stream[t]
    BY <2>1, <2>4, FillBack
  <2>8. OneBack(g.io)
    BY <2>6, <2>7, OneBackKept
  <2>9. QED
    BY <1>3, <2>8
<1>4. QED
  BY <1>1, <1>2, <1>3

(* url_ungetwc: one is pushed back on a file on which there was none. *)
LEMMA UngetwcBack ==
  ASSUME NEW x, Sound(x), OneBack(x), NEW s \in Inputs, NEW c, CharacterOf(s, c),
         s \in Files => x.stream[s].back = <<>>
  PROVE  /\ OneBack(Ungetwc(x, s, c))
         /\ s \in Files => Ungetwc(x, s, c).ungotten = x.ungotten
<1>1. CASE s \in Urls
  <2>1. s \notin Files
    BY <1>1, StreamsAssumption
  <2>2. Ungetwc(x, s, c).stream = x.stream
    BY <1>1 DEF Ungetwc, Sound
  <2>3. QED
    BY <2>1, <2>2, OneBackKept
<1>2. CASE s \notin Urls /\ c = Eof
  BY <1>2 DEF Ungetwc
<1>3. CASE s \notin Urls /\ c # Eof
  <2> DEFINE f == x.stream[s]
             one == <<c>>
             n == [f EXCEPT !.back = one, !.eof = FALSE]
  <2>1. /\ s \in Files /\ f \in Stream /\ f.back = <<>>
        /\ x \in [stream : [Inputs -> Stream], ungotten : Character]
    BY <1>3 DEF Sound, Inputs
  <2>2. Len(one) = 1 /\ one \o f.back = one
    BY <2>1
  <2>3. [x EXCEPT !.stream[s].back = one \o @, !.stream[s].eof = FALSE] = [x EXCEPT !.stream[s] = n]
    BY <2>1, <2>2
  <2>4. Ungetwc(x, s, c) = [x EXCEPT !.stream[s] = n]
    BY <1>3, <2>3 DEF Ungetwc
  <2>5. n.back = one
    BY <2>1 DEF Stream
  <2> DEFINE y == Ungetwc(x, s, c)
  <2> HIDE DEF n, one, f
  <2>6. y = [x EXCEPT !.stream[s] = n]
    BY <2>4
  <2> HIDE DEF y
  <2>7. y.stream[s] = n /\ y.ungotten = x.ungotten /\ \A t \in Inputs \ {s} : y.stream[t] = x.stream[t]
    BY <2>1, <2>6
  <2>8. \A t \in Files : Len(y.stream[t].back) <= 1
    <3>1. TAKE t \in Files
    <3>2. CASE t = s
      <4>1. Len(n.back) = 1
        BY <2>2, <2>5
      <4>2. y.stream[t] = n
        BY <2>7, <3>2
      <4>3. \A k : k = 1 => k <= 1
        OBVIOUS
      <4>4. QED
        BY <4>1, <4>2, <4>3, Zenon
    <3>3. CASE t # s
      BY <2>7, <3>3 DEF OneBack, Inputs
    <3>4. QED
      BY <3>2, <3>3
  <2>9. OneBack(y)
    BY <2>8 DEF OneBack
  <2>10. QED
    BY <2>7, <2>9 DEF y
<1>4. QED
  BY <1>1, <1>2, <1>3

(* White space that is left over is passed over. *)
LEMMA WhitePassed ==
  ASSUME NEW f, f.fn \in {"form", "slurp"}, NEW g, g.char \in White, NEW s, NEW below
  PROVE  Taken(f, g, s, below).io = g.io
<1>1. CASE f.fn = "form"
  <2>1. Taken(f, g, s, below) = Form(g, s, below)
    BY <1>1 DEF Taken
  <2> DEFINE W(frame) == Wait(g.io, frame, below)
             quoting == Wait(g.io, [fn |-> "form"], Push([fn |-> "quote"], below))
             failed  == Give(g.io, Exception, below)
             symbol  == SymbolOrKey(g, s, "symbol", <<>>, below)
             number  == Number(g, s, NumberStart(<<>>, FALSE), below)
  <2> HIDE DEF W, quoting, failed, symbol, number
  <2>2. Form(g, s, below) = W([fn |-> "form"])
    BY DEF Form, W, quoting, failed, symbol, number
  <2>3. QED
    BY <2>1, <2>2 DEF Wait, W
<1>2. CASE f.fn = "slurp"
  <2> DEFINE n == [f EXCEPT !.chars = Append(@, g.char), !.begun = TRUE]
             r == Taken(f, g, s, below)
  <2>1. r = IF f.begun /\ (Feof(g.io, s) \/ g.char = Nul)
            THEN Give(g.io, <<"slurped", f.chars>>, below)
            ELSE Wait(g.io, [f EXCEPT !.chars = Append(@, g.char), !.begun = TRUE], below)
    BY <1>2 DEF Taken
  <2> HIDE DEF r
  <2>2. r = Give(g.io, <<"slurped", f.chars>>, below) \/ r = Wait(g.io, n, below)
    BY <2>1
  <2> HIDE DEF n
  <2>3. r.io = g.io
    BY <2>2 DEF Give, Wait
  <2>4. QED
    BY <2>3 DEF r
<1>3. QED
  BY <1>1, <1>2

LEMMA TakeBack ==
  ASSUME ReaderInv, InTurn, Take
  PROVE  InTurn'
<1>1. /\ Sound(io) /\ task # Idle /\ task.on \in Inputs /\ Active(task.stack, task.value)
      /\ task.value = None /\ OneBack(io) /\ Fresh
  BY DEF ReaderInv, TaskSound, Take, InTurn
<1>2. PICK f, below : Waiter(f) /\ Callers(below) /\ task.stack = Push(f, below)
  BY <1>1 DEF Active, None
<1>3. Head(task.stack) = f /\ Tail(task.stack) = below
  BY <1>2, TopFrame
<1>4. PICK g \in Fgetwc(io, task.on) :
        LET r == Taken(Head(task.stack), g, task.on, Tail(task.stack))
        IN  io' = r.io /\ task' = [on |-> task.on, stack |-> r.stack, value |-> r.value]
  BY DEF Take, Goes
<1> DEFINE s == task.on
           r == Taken(f, g, s, below)
<1>5. io' = r.io /\ task'.on = s
  BY <1>3, <1>4
<1>6. Sound(g.io) /\ CharacterOf(s, g.char)
  BY <1>1, FgetwcFacts
<1>7. /\ OneBack(g.io)
      /\ s \in Files => g.io.ungotten = Nul
      /\ io.ungotten # Nul => g.char = io.ungotten
      /\ io.ungotten = Nul /\ s \in Files => g.io.stream[s].back = <<>>
  BY <1>1, FgetwcBack
<1>8. r.io = g.io \/ r.io = Ungetwc(g.io, s, g.char)
  BY <1>2, TakenOutcome DEF Outcome
<1>9. CASE s \in Files /\ io.ungotten # Nul
  <2>1. f.fn \in {"form", "slurp"} /\ g.char \in White
    BY <1>1, <1>3, <1>7, <1>9 DEF Fresh, Begun
  <2>2. r.io = g.io
    BY <2>1, WhitePassed
  <2> HIDE DEF r
  <2>3. OneBack(io') /\ io'.ungotten = Nul
    BY <1>5, <1>7, <1>9, <2>2
  <2>4. QED
    BY <2>3 DEF InTurn, Fresh
<1>10. CASE ~(s \in Files /\ io.ungotten # Nul)
  <2> DEFINE back == Ungetwc(g.io, s, g.char)
  <2>1. s \in Files => g.io.stream[s].back = <<>>
    BY <1>7, <1>10
  <2>2. OneBack(back) /\ (s \in Files => back.ungotten = g.io.ungotten)
    BY <1>1, <1>6, <1>7, <2>1, UngetwcBack
  <2> HIDE DEF back, r
  <2>3. r.io = g.io \/ r.io = back
    BY <1>8 DEF back
  <2>4. OneBack(io') /\ (s \in Files => io'.ungotten = Nul)
    BY <1>5, <1>7, <2>2, <2>3
  <2>5. QED
    BY <1>5, <2>4 DEF InTurn, Fresh
<1>11. QED
  BY <1>9, <1>10

LEMMA OpenBack ==
  ASSUME Sound(io), OneBack(io), NEW s \in Inputs, Open(s)
  PROVE  OneBack(io')
<1>1. io \in [stream : [Inputs -> Stream], ungotten : Character] /\ Files \subseteq Inputs
  BY DEF Sound, Inputs
<1>2. CASE s \in Files /\ io' = [io EXCEPT !.stream[s].state = "open"]
  <2> DEFINE opened == [io.stream[s] EXCEPT !.state = "open"]
  <2>1. opened.back = io.stream[s].back
    BY <1>1 DEF Stream
  <2>2. io' = [io EXCEPT !.stream[s] = opened]
    BY <1>1, <1>2
  <2> HIDE DEF opened
  <2>3. io'.stream[s] = opened /\ \A t \in Inputs \ {s} : io'.stream[t] = io.stream[t]
    BY <1>1, <2>2
  <2>4. \A t \in Files : io'.stream[t].back = io.stream[t].back
    BY <1>1, <2>1, <2>3
  <2> DEFINE x == io'
  <2>5. \A t \in Files : x.stream[t].back = io.stream[t].back
    BY <2>4
  <2> HIDE DEF x
  <2>6. OneBack(x)
    BY <2>5, OneBackKept
  <2>7. QED
    BY <2>6 DEF x
<1>3. CASE s \in Urls /\ ~(s \in Files /\ io' = [io EXCEPT !.stream[s].state = "open"])
  <2> DEFINE stream == [io.stream EXCEPT ![s].state = "open"]
  <2>1. stream \in [Inputs -> Stream] /\ \A t \in Inputs \ {s} : stream[t] = io.stream[t]
    <3>1. [io.stream[s] EXCEPT !.state = "open"] \in Stream
      BY <1>1 DEF Stream
    <3>2. QED
      BY <1>1, <3>1
  <2>2. s \notin Files
    BY <1>3, StreamsAssumption
  <2>3. PICK m \in Perform(stream) : io' = [io EXCEPT !.stream = [m EXCEPT ![s].running = Going(m) # {}]]
    BY <1>3 DEF Open
  <2> HIDE DEF stream
  <2>4. m \in [Inputs -> Stream] /\ \A t \in Files : m[t] = stream[t]
    BY <2>1, PerformFacts
  <2>5. \A t \in Inputs \ {s} : io'.stream[t] = m[t]
    BY <1>1, <2>3, <2>4
  <2>6. \A t \in Files : io'.stream[t] = io.stream[t]
    BY <1>1, <2>1, <2>2, <2>4, <2>5
  <2> DEFINE x == io'
  <2>7. \A t \in Files : x.stream[t].back = io.stream[t].back
    BY <2>6
  <2> HIDE DEF x
  <2>8. OneBack(x)
    BY <2>7, OneBackKept
  <2>9. QED
    BY <2>8 DEF x
<1>4. QED
  BY <1>2, <1>3 DEF Open

LEMMA CloseBack ==
  ASSUME Sound(io), OneBack(io), NEW s \in Inputs, Close(s)
  PROVE  OneBack(io')
<1> DEFINE closed == [Unopened(<<>>) EXCEPT !.state = "closed"]
<1>1. closed.back = <<>>
  BY DEF Unopened
<1>2. io' = [io EXCEPT !.stream[s] = closed]
  BY DEF Close
<1> HIDE DEF closed
<1>3. io'.stream[s] = closed /\ \A t \in Inputs \ {s} : io'.stream[t] = io.stream[t]
  BY <1>2 DEF Sound
<1>4. Len(<<>>) <= 1
  OBVIOUS
<1>5. \A t \in Files : Len(io'.stream[t].back) <= 1
  BY <1>1, <1>3, <1>4 DEF OneBack, Inputs
<1>6. QED
  BY <1>5 DEF OneBack

LEMMA InTurnStep == ReaderInv /\ LeftoverIsWhite /\ InTurn /\ [Next]_vars => InTurn'
<1>1. SUFFICES ASSUME ReaderInv, LeftoverIsWhite, InTurn, [Next]_vars PROVE InTurn'
  OBVIOUS
<1>2. Sound(io) /\ TaskSound /\ OneBack(io) /\ Fresh
  BY <1>1 DEF ReaderInv, InTurn
<1>3. ASSUME io' = io, task' = task PROVE InTurn'
  BY <1>2, <1>3 DEF InTurn, Fresh, OneBack
<1>4. ASSUME task' = Idle, OneBack(io') PROVE InTurn'
  BY <1>4 DEF InTurn, Fresh
<1>5. ASSUME NEW s \in Inputs, NEW frame, frame.fn \in {"form", "slurp"}, task = Idle,
             Call(s, frame), io' = io
      PROVE  InTurn'
  <2>1. task' = [on |-> s, stack |-> Push(frame, <<>>), value |-> None]
    BY <1>5 DEF Call, Goes, Wait, Push
  <2>2. Head(Push(frame, <<>>)) = frame
    BY NoCallers, TopFrame
  <2>3. task'.value = None /\ Begun(task'.stack)
    BY <1>5, <2>1, <2>2 DEF Begun
  <2>4. io'.ungotten \in White
    BY <1>1, <1>5 DEF LeftoverIsWhite
  <2>5. QED
    BY <1>2, <1>5, <2>3, <2>4 DEF InTurn, Fresh
<1>6. ASSUME NEW s \in Inputs, LispOpen(s) PROVE InTurn'
  BY <1>2, <1>4, <1>6, OpenBack DEF LispOpen
<1>7. ASSUME NEW s \in Inputs, LispClose(s) PROVE InTurn'
  BY <1>2, <1>4, <1>7, CloseBack DEF LispClose
<1>8. ASSUME NEW s \in Inputs, Read(s) PROVE InTurn'
  BY <1>5, <1>8 DEF Read, Ready
<1>9. ASSUME NEW s \in Inputs, ReadChar(s) PROVE InTurn'
  <2>1. PICK g \in Fgetwc(io, s) : io' = g.io
    BY <1>9 DEF ReadChar
  <2>2. OneBack(io')
    BY <1>2, <2>1, FgetwcBack
  <2>3. QED
    BY <1>4, <1>9, <2>2 DEF ReadChar, Ready
<1>10. ASSUME NEW s \in Inputs, Slurp(s) PROVE InTurn'
  BY <1>5, <1>10 DEF Slurp, Ready
<1>11. CASE Take
  BY <1>1, <1>11, TakeBack
<1>12. CASE Return
  <2>1. io' = io /\ task'.on = task.on /\ task # Idle /\ task.value # None
    BY <1>12 DEF Return, Goes
  <2>2. QED
    BY <1>2, <2>1 DEF InTurn, Fresh
<1>13. CASE Finish
  BY <1>2, <1>4, <1>13 DEF Finish
<1>14. CASE Rest \/ UNCHANGED vars
  BY <1>3, <1>14 DEF Rest, vars
<1>15. QED
  BY <1>1, <1>6, <1>7, <1>8, <1>9, <1>10, <1>11, <1>12, <1>13, <1>14 DEF Next

LEMMA InTurnInit == Init => InTurn
<1>1. SUFFICES ASSUME Init PROVE InTurn
  OBVIOUS
<1>2. task = Idle
  BY <1>1 DEF Init
<1>3. \A s \in Inputs : io.stream[s].back = <<>>
  BY <1>1 DEF Init, Unopened
<1>4. Len(<<>>) <= 1
  OBVIOUS
<1>5. OneBack(io)
  BY <1>3, <1>4 DEF OneBack, Inputs
<1>6. QED
  BY <1>2, <1>5 DEF InTurn, Fresh

(* However many files and transfers are read in turn: as long as each call
   leaves no more than white space pushed back on a transfer (url_ungetwc), at
   most one character is pushed back on a file.                             *)
THEOREM PushedBackInTurn == Spec /\ []LeftoverIsWhite => []PushedBackOnce
<1>1. InTurn /\ ReaderInv => PushedBackOnce
  <2>1. SUFFICES ASSUME InTurn, ReaderInv PROVE PushedBackOnce
    OBVIOUS
  <2>2. \A s \in Urls : io.stream[s].back = <<>>
    BY <2>1 DEF ReaderInv, Sound, UrlSound, Delivers
  <2>3. \A s \in Files : Len(io.stream[s].back) <= 1
    BY <2>1 DEF InTurn, OneBack
  <2>4. Len(<<>>) <= 1
    OBVIOUS
  <2>5. QED
    BY <2>2, <2>3, <2>4 DEF PushedBackOnce, Inputs
<1>2. Init => InTurn
  BY InTurnInit
<1>3. ReaderInv /\ LeftoverIsWhite /\ InTurn /\ [Next]_vars => InTurn'
  BY InTurnStep
<1>4. QED
  BY <1>1, <1>2, <1>3, ReaderSound, PTL DEF Spec
=============================================================================
