-------------------------- MODULE ChunkUpload_proofs --------------------------
(***************************************************************************)
(* Theorems about ChunkUpload for every length of a recording, every size  *)
(* of its chunks and every number of requests, tries and losses; and about *)
(* the other parts of MCOutside: the connection to hh.ru and what is found *)
(* there (HhConnection, HhDiscovery), the letters that are sent (Outbox),  *)
(* the reminders (Reminders) and the feedback (Feedback), for every number *)
(* of clients, pairs of tokens, applications, executions, attempts,        *)
(* deaths, decisions and days.                                             *)
(***************************************************************************)
EXTENDS MCOutside, FiniteSetTheorems, TLAPS

\* The bytes of n chunks, and what a write that ended half-way may have added to them.
Size(n) == n * ChunkSize
Slack == IF torn THEN ChunkSize - 1 ELSE 0

Closed == client.rec = "gone"
\* The chunks of the recording that have left the queue.
Left(c) == c.recorded - Len(c.queue)

\* A request of the page with a chunk, or with the end of the recording, that the server has not answered yet.
Carries(s) == net[s].chunk # 0 /\ net[s].pc \in {"sent", "loaded"}
Completes(s) == net[s].chunk = 0 /\ net[s].pc \in {"sent", "loaded"}

\* The recording is over: no chunk will be sent any more.
Over == /\ client.rec # "on"
        /\ Closed \/ (client.queue = <<>> /\ client.pc = "idle")

\* Where the recorder and the loop of the page are.
Sensible(c) ==
    /\ Len(c.queue) <= c.recorded
    /\ \A i \in 1 .. Len(c.queue) : c.queue[i] = c.recorded - Len(c.queue) + i
    /\ c.pc # "idle" => c.queue # <<>> /\ c.rec # "gone"
    /\ c.pc = "send" => c.attempt < MaxTries
    /\ c.finish # "no" => c.rec = "inactive"
    /\ c.rec = "on" => c.recorded < Chunks
    /\ c.finish \in {"complete", "confirming", "done"} => c.queue = <<>> /\ c.pc = "idle"
    /\ c.fetch # None <=> c.pc = "wait" \/ c.finish = "confirming"

\* The page awaits the request it has sent last, and no other is answered to it.
FetchOK ==
    \A s \in Requests :
        /\ client.fetch = s =>
              /\ net[s].pc # "free"
              /\ net[s].chunk = (IF client.finish = "confirming" THEN 0 ELSE client.queue[1])
        /\ client.fetch # s => net[s].pc \notin Replies

PageOK == Sensible(client) /\ FetchOK

\* The page knows of no byte that the file does not have, and is at most a chunk behind it.
OffsetOK ==
    ~Closed => /\ Size(Left(client)) <= client.offset /\ client.offset <= Size(Left(client)) + Slack
               /\ client.offset <= Len(file) /\ Len(file) <= client.offset + ChunkSize
               /\ Len(file) < client.offset + ChunkSize => Len(file) <= Size(Left(client)) + Slack

\* A chunk on its way carries an offset the page has been at, the present one only if it is the
\* first of the queue.
CarriesOK(s) ==
    Carries(s) =>
        /\ net[s].chunk <= client.recorded
        /\ Size(net[s].chunk - 1) <= net[s].at /\ net[s].at <= Size(net[s].chunk - 1) + Slack
        /\ net[s].at <= Len(file)
        /\ ~Closed => /\ net[s].at <= client.offset
                      /\ net[s].at = client.offset => client.queue # <<>> /\ net[s].chunk = client.queue[1]
        /\ client.fetch = s => net[s].at = client.offset

\* The end of the recording is sent when it is over, and after every chunk on its way.
CompletesOK(s) ==
    Completes(s) =>
        /\ Over /\ \A q \in Requests : Carries(q) => net[q].at < net[s].at
        /\ Size(client.recorded) <= net[s].at /\ net[s].at <= Size(client.recorded) + Slack

\* What the answer to a chunk says.
RepliesOK(s) ==
    /\ net[s].pc = "appended" =>
          net[s].chunk # 0 /\ net[s].at <= Len(file) /\ (client.fetch = s => net[s].at = client.offset + ChunkSize)
    /\ net[s].chunk # 0 /\ net[s].pc = "ok" =>
          net[s].at <= Len(file) /\ net[s].at = client.offset + ChunkSize
    /\ net[s].chunk # 0 /\ net[s].pc = "conflict" =>
          /\ client.offset <= net[s].at /\ net[s].at <= Len(file)
          /\ net[s].at > client.offset => net[s].at = Len(file)
          /\ net[s].at < client.offset + ChunkSize => net[s].at <= Size(Left(client)) + Slack

RequestOK(s) == CarriesOK(s) /\ CompletesOK(s) /\ RepliesOK(s)

\* The file is the recording up to some chunk, and a finished one takes no more.
FileOK ==
    /\ Len(file) <= Size(client.recorded) + Slack
    /\ ~torn => \E n \in 0 .. client.recorded : file = Whole(n)
    /\ answer.status = "uploaded" =>
          /\ Over
          /\ \A s \in Requests : net[s].pc = "loaded" /\ net[s].chunk # 0 => net[s].at < Len(file)
          /\ ~torn => file = Whole(client.recorded)

IInv == TypeOK /\ PageOK /\ OffsetOK /\ (\A s \in Requests : RequestOK(s)) /\ FileOK
-----------------------------------------------------------------------------
(* Sizes, and the bytes of the recording. *)

LEMMA Constants ==
    ASSUME ParametersOK
    PROVE  /\ Chunks \in Nat /\ Chunks >= 1 /\ ChunkSize \in Nat \ {0} /\ ChunkSize >= 1
           /\ MaxTries \in Nat /\ MaxTries >= 1 /\ MaxLosses \in Nat /\ None \notin Requests
BY DEF ParametersOK

LEMMA Sizing ==
    ASSUME ParametersOK
    PROVE  /\ \A n \in Nat : Size(n) \in Nat /\ Size(n + 1) = Size(n) + ChunkSize
           /\ \A m, n \in Nat : m <= n => Size(m) <= Size(n)
           /\ \A m, n \in Nat : m < n => Size(m) + ChunkSize <= Size(n)
           /\ Size(0) = 0
           /\ Sizes = 0 .. Size(Chunks) + ChunkSize
           /\ Slack \in 0 .. ChunkSize - 1 /\ (~torn => Slack = 0)
<1>0. ChunkSize \in Nat \ {0} /\ Chunks \in Nat  BY Constants
<1>1. \A n \in Nat : Size(n) \in Nat /\ Size(n + 1) = Size(n) + ChunkSize  BY <1>0 DEF Size
<1>2. \A m, n \in Nat : m <= n => Size(m) <= Size(n)  BY <1>0 DEF Size
<1>3. \A m, n \in Nat : m < n => Size(m) + ChunkSize <= Size(n)  BY <1>0 DEF Size
<1>4. Size(0) = 0  BY <1>0 DEF Size
<1>5. Sizes = 0 .. Size(Chunks) + ChunkSize
  <2>1. (Chunks + 1) * ChunkSize = Size(Chunks) + ChunkSize  BY <1>0 DEF Size
  <2>2. QED  BY <2>1 DEF Sizes
<1>6. Slack \in 0 .. ChunkSize - 1 /\ (~torn => Slack = 0)  BY <1>0 DEF Slack
<1>7. QED  BY <1>1, <1>2, <1>3, <1>4, <1>5, <1>6

Bytes == Chunk \X (1 .. ChunkSize)

LEMMA FunctionIsSeq ==
    ASSUME NEW S, NEW n \in Nat, NEW f \in [1 .. n -> S]
    PROVE  f \in Seq(S) /\ Len(f) = n
OBVIOUS

\* Division puts the byte b of a recording into its chunk.
LEMMA Place ==
    ASSUME ParametersOK, NEW a \in Nat, NEW i \in 1 .. ChunkSize, NEW b \in Nat, b = Size(a) + i
    PROVE  1 + ((b - 1) \div ChunkSize) = a + 1 /\ 1 + ((b - 1) % ChunkSize) = i
<1>1. ChunkSize \in Nat \ {0}  BY Constants
<1>2. i - 1 \in 0 .. ChunkSize - 1  BY <1>1
<1>3. \A r \in 0 .. ChunkSize - 1 : (a * ChunkSize + r) \div ChunkSize = a /\ (a * ChunkSize + r) % ChunkSize = r
  BY <1>1
<1>4. \A r \in 0 .. ChunkSize - 1, x \in Nat : x = a * ChunkSize + r => x \div ChunkSize = a /\ x % ChunkSize = r
  BY <1>3
<1>5. b - 1 \in Nat /\ b - 1 = a * ChunkSize + (i - 1)
  <2>1. a * ChunkSize \in Nat  BY <1>1
  <2>2. QED  BY <1>1, <2>1 DEF Size
<1>6. (b - 1) \div ChunkSize = a /\ (b - 1) % ChunkSize = i - 1  BY <1>2, <1>4, <1>5
<1>7. QED  BY <1>6

\* Every byte is in a chunk.
LEMMA Parts ==
    ASSUME ParametersOK, NEW n \in Nat, NEW b \in 1 .. Size(n)
    PROVE  \E a \in 0 .. n - 1, i \in 1 .. ChunkSize : b = Size(a) + i
<1>1. ChunkSize \in Nat \ {0}  BY Constants
<1> DEFINE a == (b - 1) \div ChunkSize
           i == 1 + ((b - 1) % ChunkSize)
<1>2. b - 1 \in Nat  BY <1>1, Sizing
<1>3. a \in Nat /\ i \in 1 .. ChunkSize /\ b - 1 = a * ChunkSize + (i - 1)  BY <1>1, <1>2
<1>4. b = Size(a) + i  BY <1>1, <1>2, <1>3 DEF Size
<1> HIDE DEF a, i
<1>5. a < n
  <2>1. SUFFICES ASSUME n <= a PROVE FALSE  BY <1>3
  <2>2. Size(n) <= Size(a) /\ Size(n) \in Nat /\ Size(a) \in Nat  BY <1>3, <2>1, Sizing
  <2>3. QED  BY <1>3, <1>4, <2>2
<1>6. QED  BY <1>3, <1>4, <1>5

LEMMA BodyIs ==
    ASSUME ParametersOK, NEW k \in Chunk
    PROVE  /\ Body(k) \in Seq(Bytes) /\ Len(Body(k)) = ChunkSize
           /\ \A i \in 1 .. ChunkSize : Body(k)[i] = <<k, i>>
<1>1. Body(k) \in [1 .. ChunkSize -> Bytes]  BY DEF Body, Bytes
<1>2. ChunkSize \in Nat  BY Constants
<1>3. QED  BY <1>1, <1>2, FunctionIsSeq DEF Body

LEMMA WholeIs ==
    ASSUME ParametersOK, NEW n \in 0 .. Chunks
    PROVE  /\ Whole(n) \in Seq(Bytes) /\ Len(Whole(n)) = Size(n) /\ DOMAIN Whole(n) = 1 .. Size(n)
           /\ \A b \in 1 .. Size(n), a \in 0 .. n - 1, i \in 1 .. ChunkSize : b = Size(a) + i => Whole(n)[b] = <<a + 1, i>>
<1>0. n \in Nat /\ Chunks \in Nat /\ Size(n) \in Nat /\ ChunkSize \in Nat  BY Constants, Sizing
<1>1. DOMAIN Whole(n) = 1 .. Size(n)  BY DEF Whole, Size
<1>2. ASSUME NEW b \in 1 .. Size(n), NEW a \in 0 .. n - 1, NEW i \in 1 .. ChunkSize, b = Size(a) + i
      PROVE  Whole(n)[b] = <<a + 1, i>>
  <2>1. a \in Nat /\ b \in Nat  BY <1>0
  <2>2. Whole(n) = [c \in 1 .. Size(n) |-> <<1 + ((c - 1) \div ChunkSize), 1 + ((c - 1) % ChunkSize)>>]
    BY DEF Whole, Size
  <2>3. Whole(n)[b] = <<1 + ((b - 1) \div ChunkSize), 1 + ((b - 1) % ChunkSize)>>  BY <2>2, Zenon
  <2>4. 1 + ((b - 1) \div ChunkSize) = a + 1 /\ 1 + ((b - 1) % ChunkSize) = i  BY <1>2, <2>1, Place
  <2>5. QED  BY <2>3, <2>4, Zenon
<1>3. \A b \in 1 .. Size(n) : Whole(n)[b] \in Bytes
  <2>1. SUFFICES ASSUME NEW b \in 1 .. Size(n) PROVE Whole(n)[b] \in Bytes  OBVIOUS
  <2>2. PICK a \in 0 .. n - 1, i \in 1 .. ChunkSize : b = Size(a) + i  BY <1>0, Parts
  <2>3. Whole(n)[b] = <<a + 1, i>>  BY <1>2, <2>2
  <2>4. a + 1 \in Chunk  BY <1>0 DEF Chunk
  <2>5. QED  BY <2>3, <2>4 DEF Bytes
<1>4. Whole(n) \in [1 .. Size(n) -> Bytes]
  <2>1. Whole(n) = [b \in 1 .. Size(n) |-> Whole(n)[b]]  BY DEF Whole, Size
  <2>2. QED  BY <1>3, <2>1
<1>5. Whole(n) \in Seq(Bytes) /\ Len(Whole(n)) = Size(n)  BY <1>0, <1>4, FunctionIsSeq
<1>6. QED  BY <1>1, <1>2, <1>5

LEMMA SameBytes ==
    ASSUME NEW S, NEW f \in Seq(S), NEW g \in Seq(S), Len(f) = Len(g), \A b \in 1 .. Len(f) : f[b] = g[b]
    PROVE  f = g
OBVIOUS

LEMMA Joined ==
    ASSUME NEW S, NEW f \in Seq(S), NEW g \in Seq(S)
    PROVE  /\ f \o g \in Seq(S) /\ Len(f \o g) = Len(f) + Len(g)
           /\ \A b \in 1 .. Len(f) : (f \o g)[b] = f[b]
           /\ \A i \in 1 .. Len(g) : (f \o g)[Len(f) + i] = g[i]
<1>1. f \o g \in Seq(S) /\ Len(f \o g) = Len(f) + Len(g)  OBVIOUS
<1>2. \A b \in 1 .. Len(f) : (f \o g)[b] = f[b]  OBVIOUS
<1>3. ASSUME NEW i \in 1 .. Len(g) PROVE (f \o g)[Len(f) + i] = g[i]
  <2>1. Len(f) \in Nat /\ Len(g) \in Nat /\ Len(f) + i \in 1 .. Len(f) + Len(g) /\ ~(Len(f) + i <= Len(f))
        /\ Len(f) + i - Len(f) = i
    OBVIOUS
  <2>2. QED  BY <2>1
<1>4. QED  BY <1>1, <1>2, <1>3

LEMMA NextChunk ==
    ASSUME ParametersOK, NEW k \in Chunk
    PROVE  Whole(k - 1) \o Body(k) = Whole(k)
<1> DEFINE m == k - 1
           f == Whole(m) \o Body(k)
<1>0. /\ m \in 0 .. Chunks /\ k \in 0 .. Chunks /\ m \in Nat /\ k = m + 1 /\ ChunkSize \in Nat
      /\ Size(m) \in Nat /\ Size(k) = Size(m) + ChunkSize
  <2>1. m \in 0 .. Chunks /\ k \in 0 .. Chunks /\ m \in Nat /\ k = m + 1  BY Constants DEF Chunk
  <2> HIDE DEF m
  <2>2. Size(m) \in Nat /\ Size(m + 1) = Size(m) + ChunkSize  BY <2>1, Sizing
  <2>3. QED  BY <2>1, <2>2, Constants
<1> HIDE DEF m
<1>1. /\ Whole(m) \in Seq(Bytes) /\ Len(Whole(m)) = Size(m)
      /\ \A b \in 1 .. Size(m), a \in 0 .. m - 1, i \in 1 .. ChunkSize : b = Size(a) + i => Whole(m)[b] = <<a + 1, i>>
  BY <1>0, WholeIs
<1>2. /\ Whole(k) \in Seq(Bytes) /\ Len(Whole(k)) = Size(k)
      /\ \A b \in 1 .. Size(k), a \in 0 .. k - 1, i \in 1 .. ChunkSize : b = Size(a) + i => Whole(k)[b] = <<a + 1, i>>
  BY <1>0, WholeIs
<1>3. /\ Body(k) \in Seq(Bytes) /\ Len(Body(k)) = ChunkSize
      /\ \A i \in 1 .. ChunkSize : Body(k)[i] = <<k, i>>
  BY BodyIs
<1>4. /\ f \in Seq(Bytes) /\ Len(f) = Size(k)
      /\ \A b \in 1 .. Size(m) : f[b] = Whole(m)[b]
      /\ \A i \in 1 .. ChunkSize : f[Size(m) + i] = Body(k)[i]
  <2> DEFINE w == Whole(m)
             t == Body(k)
  <2>1. w \in Seq(Bytes) /\ t \in Seq(Bytes) /\ f = w \o t  BY <1>1, <1>3
  <2>2. Len(w) = Size(m) /\ Len(t) = ChunkSize  BY <1>1, <1>3
  <2> HIDE DEF f, w, t
  <2>3. /\ f \in Seq(Bytes) /\ Len(f) = Len(w) + Len(t)
        /\ \A b \in 1 .. Len(w) : f[b] = w[b]
        /\ \A i \in 1 .. Len(t) : f[Len(w) + i] = t[i]
    BY <2>1, Joined
  <2>4. QED  BY <1>0, <2>2, <2>3 DEF w, t
<1> HIDE DEF f
<1>5. ASSUME NEW b \in 1 .. Size(k) PROVE f[b] = Whole(k)[b]
  <2>1. PICK a \in 0 .. k - 1, i \in 1 .. ChunkSize : b = Size(a) + i  BY <1>0, Parts
  <2>2. CASE a = m  BY <1>0, <1>2, <1>3, <1>4, <2>1, <2>2, ZenonT(30)
  <2>3. CASE a # m
    <3>1. a \in 0 .. m - 1 /\ a \in Nat /\ a < m  BY <1>0, <2>1, <2>3
    <3>2. Size(a) + ChunkSize <= Size(m) /\ Size(a) \in Nat  BY <1>0, <3>1, Sizing
    <3>3. b \in 1 .. Size(m)  BY <1>0, <2>1, <3>2
    <3>4. QED  BY <1>1, <1>2, <1>4, <2>1, <3>1, <3>3
  <2>4. QED  BY <2>2, <2>3
<1>6. f = Whole(k)  BY <1>2, <1>4, <1>5, SameBytes
<1>7. QED  BY <1>6 DEF f, m

LEMMA PrefixOfWhole ==
    ASSUME ParametersOK, NEW n \in 0 .. Chunks, NEW m \in 0 .. n
    PROVE  IsPrefix(Whole(m), Whole(n))
<1>0. m \in Nat /\ n \in Nat /\ m <= n /\ m \in 0 .. Chunks  BY Constants
<1>1. /\ Whole(m) \in Seq(Bytes) /\ Len(Whole(m)) = Size(m) /\ Whole(n) \in Seq(Bytes) /\ Len(Whole(n)) = Size(n)
      /\ \A b \in 1 .. Size(m), a \in 0 .. m - 1, i \in 1 .. ChunkSize : b = Size(a) + i => Whole(m)[b] = <<a + 1, i>>
      /\ \A b \in 1 .. Size(n), a \in 0 .. n - 1, i \in 1 .. ChunkSize : b = Size(a) + i => Whole(n)[b] = <<a + 1, i>>
  BY <1>0, WholeIs
<1>2. Size(m) <= Size(n) /\ Size(m) \in Nat /\ Size(n) \in Nat  BY <1>0, Sizing
<1>3. ASSUME NEW b \in 1 .. Size(m) PROVE Whole(m)[b] = Whole(n)[b]
  <2>1. PICK a \in 0 .. m - 1, i \in 1 .. ChunkSize : b = Size(a) + i  BY <1>0, Parts
  <2>2. a \in 0 .. n - 1 /\ b \in 1 .. Size(n)  BY <1>0, <1>2
  <2>3. QED  BY <1>1, <2>1, <2>2, SMTT(20)
<1> DEFINE f == SubSeq(Whole(m), 1, Size(m))
           g == SubSeq(Whole(n), 1, Size(m))
<1>4. f \in Seq(Bytes) /\ Len(f) = Size(m) /\ \A b \in 1 .. Size(m) : f[b] = Whole(m)[b]  BY <1>1, <1>2
<1>5. g \in Seq(Bytes) /\ Len(g) = Size(m) /\ \A b \in 1 .. Size(m) : g[b] = Whole(n)[b]  BY <1>1, <1>2
<1> HIDE DEF f, g
<1>6. f = g  BY <1>3, <1>4, <1>5, SameBytes
<1>7. QED  BY <1>1, <1>2, <1>6 DEF IsPrefix, f, g
-----------------------------------------------------------------------------
(* The page: its queue and its loop. *)

LEMMA Queues ==
    ASSUME NEW q \in Seq(Chunk)
    PROVE  /\ Len(q) \in Nat /\ (q = <<>> <=> Len(q) = 0)
           /\ \A k \in Chunk : /\ Append(q, k) \in Seq(Chunk) /\ Len(Append(q, k)) = Len(q) + 1
                               /\ Append(q, k)[Len(q) + 1] = k
                               /\ \A i \in 1 .. Len(q) : Append(q, k)[i] = q[i]
           /\ q # <<>> => /\ Tail(q) \in Seq(Chunk) /\ Len(Tail(q)) = Len(q) - 1 /\ Head(q) = q[1] /\ q[1] \in Chunk
                          /\ \A i \in 1 .. Len(q) - 1 : Tail(q)[i] = q[i + 1]
OBVIOUS

LEMMA ClientFields ==
    ASSUME NEW c \in Client
    PROVE  /\ c.rec \in {"on", "inactive", "gone"} /\ c.recorded \in 0 .. Chunks /\ c.queue \in Seq(Chunk)
           /\ c.pc \in {"idle", "send", "wait"} /\ c.fetch \in Requests \cup {None} /\ c.offset \in Sizes
           /\ c.attempt \in 0 .. MaxTries /\ c.failed \in BOOLEAN
           /\ c.finish \in {"no", "drain", "complete", "confirming", "done", "thrown"}
BY DEF Client

\* The recorder has emitted a chunk.
LEMMA Emitting ==
    ASSUME ParametersOK, NEW c \in Client, Sensible(c), c.rec = "on"
    PROVE  LET d == Emitted(c) IN
           /\ d \in Client /\ Left(d) = Left(c)
           /\ d.recorded = c.recorded + 1 /\ d.rec = "on" /\ d.offset = c.offset /\ d.fetch = c.fetch
           /\ d.finish = c.finish /\ d.failed = c.failed /\ d.pc # "idle" /\ d.queue # <<>>
           /\ c.pc # "idle" => d.pc = c.pc
           /\ d.pc = "wait" <=> c.pc = "wait"
           /\ c.queue # <<>> => d.queue[1] = c.queue[1]
           /\ d.pc = "send" => d.attempt < MaxTries
           /\ Len(d.queue) <= d.recorded
           /\ \A i \in 1 .. Len(d.queue) : d.queue[i] = Left(d) + i
<1> DEFINE k == c.recorded + 1
           q == Append(c.queue, k)
           pc == IF c.pc = "idle" THEN "send" ELSE c.pc
           at == IF c.pc = "idle" THEN 0 ELSE c.attempt
           d == [c EXCEPT !.recorded = k, !.queue = q, !.pc = pc, !.attempt = at]
<1>0. Chunks \in Nat /\ MaxTries \in Nat /\ MaxTries >= 1 /\ c.queue \in Seq(Chunk) /\ c.recorded \in 0 .. Chunks
      /\ c.attempt \in 0 .. MaxTries /\ c.pc \in {"idle", "send", "wait"}
  BY Constants, ClientFields
<1>1. k \in Chunk /\ k \in 0 .. Chunks  BY <1>0 DEF Sensible, Chunk
<1>2. /\ q \in Seq(Chunk) /\ Len(q) = Len(c.queue) + 1 /\ q[Len(c.queue) + 1] = k /\ Len(c.queue) \in Nat
      /\ \A i \in 1 .. Len(c.queue) : q[i] = c.queue[i]
  <2> HIDE DEF k
  <2>1. QED  BY <1>0, <1>1, Queues
<1>3. q # <<>>
  <2> HIDE DEF q
  <2>1. QED  BY <1>2, Queues
<1>4. pc \in {"send", "wait"} /\ at \in 0 .. MaxTries /\ (pc = "send" => at < MaxTries)
      /\ (c.pc # "idle" => pc = c.pc) /\ (pc = "wait" <=> c.pc = "wait")
  BY <1>0 DEF Sensible
<1>5. Emitted(c) = d  BY DEF Emitted
<1>6. c.recorded + 1 - (Len(c.queue) + 1) = c.recorded - Len(c.queue)  BY <1>0, <1>2
<1>7. \A i \in 1 .. Len(c.queue) + 1 : q[i] = Left(c) + i
  <2>1. SUFFICES ASSUME NEW i \in 1 .. Len(c.queue) + 1 PROVE q[i] = Left(c) + i  OBVIOUS
  <2>2. CASE i = Len(c.queue) + 1
    <3>1. k = c.recorded - Len(c.queue) + (Len(c.queue) + 1)  BY <1>0, <1>2
    <3>2. QED  BY <1>2, <2>2, <3>1 DEF Left
  <2>3. CASE i # Len(c.queue) + 1
    <3>1. i \in 1 .. Len(c.queue)  BY <1>2, <2>3
    <3>2. QED  BY <1>2, <3>1 DEF Sensible, Left
  <2>4. QED  BY <2>2, <2>3
<1>8. c.queue # <<>> => q[1] = c.queue[1]
  <2>1. c.queue # <<>> => 1 \in 1 .. Len(c.queue)  BY <1>0, <1>2, Queues
  <2>2. QED  BY <1>2, <2>1
<1>9. k = c.recorded + 1 /\ Len(q) <= k /\ k - Len(q) = Left(c)  BY <1>0, <1>2, <1>6 DEF Sensible, Left
<1> HIDE DEF k, q, pc, at
<1>10. d \in Client  BY <1>1, <1>2, <1>4 DEF Client
<1>11. /\ d.recorded = k /\ d.queue = q /\ d.pc = pc /\ d.attempt = at /\ d.rec = c.rec /\ d.offset = c.offset
       /\ d.fetch = c.fetch /\ d.finish = c.finish /\ d.failed = c.failed
  BY DEF Client
<1> HIDE DEF d
<1>12. Left(d) = Left(c)  BY <1>9, <1>11 DEF Left
<1>13. QED  BY <1>2, <1>3, <1>4, <1>5, <1>7, <1>8, <1>9, <1>10, <1>11, <1>12

\* The loop of c ends.
LEMMA Draining ==
    ASSUME NEW c \in Client
    PROVE  LET d == DrainEnds(c) IN
           /\ d \in Client /\ d.pc = "idle" /\ d.queue = c.queue /\ d.recorded = c.recorded /\ d.rec = c.rec
           /\ d.offset = c.offset /\ d.fetch = c.fetch /\ d.attempt = c.attempt /\ d.failed = c.failed
           /\ d.finish = (IF c.finish # "drain" THEN c.finish ELSE IF c.failed THEN "thrown" ELSE "complete")
<1> DEFINE e == [c EXCEPT !.pc = "idle"]
           f == [e EXCEPT !.finish = IF e.failed THEN "thrown" ELSE "complete"]
<1>1. e \in Client  BY DEF Client
<1>2. /\ e.pc = "idle" /\ e.queue = c.queue /\ e.recorded = c.recorded /\ e.rec = c.rec /\ e.failed = c.failed
      /\ e.offset = c.offset /\ e.fetch = c.fetch /\ e.attempt = c.attempt /\ e.finish = c.finish
  BY DEF Client
<1>3. DrainEnds(c) = IF c.finish = "drain" THEN f ELSE e  BY DEF DrainEnds, Resumed
<1> HIDE DEF e
<1>4. f \in Client  BY <1>1 DEF Client
<1>5. /\ f.pc = e.pc /\ f.queue = e.queue /\ f.recorded = e.recorded /\ f.rec = e.rec /\ f.failed = e.failed
      /\ f.offset = e.offset /\ f.fetch = e.fetch /\ f.attempt = e.attempt
      /\ f.finish = (IF e.failed THEN "thrown" ELSE "complete")
  BY <1>1 DEF Client
<1> HIDE DEF f
<1>6. QED  BY <1>1, <1>2, <1>3, <1>4, <1>5

\* The server has the first chunk of the queue of c.
LEMMA Shifting ==
    ASSUME ParametersOK, NEW c \in Client, Sensible(c), c.pc = "wait", NEW size \in Sizes
    PROVE  LET d == Shifted([c EXCEPT !.fetch = None], size) IN
           /\ d \in Client /\ Sensible(d) /\ d.offset = size /\ d.recorded = c.recorded /\ d.rec = c.rec
           /\ d.fetch = None /\ Left(d) = Left(c) + 1 /\ d.finish # "confirming"
<1> DEFINE a == [c EXCEPT !.fetch = None]
           rest == [a EXCEPT !.offset = size, !.queue = Tail(a.queue)]
           s == [rest EXCEPT !.pc = "send", !.attempt = 0]
           d == IF rest.queue = <<>> THEN DrainEnds(rest) ELSE s
<1>0. c.queue \in Seq(Chunk) /\ c.queue # <<>> /\ c.rec # "gone" /\ c.finish \notin {"complete", "confirming", "done"}
  BY ClientFields DEF Sensible
<1>1. /\ a \in Client /\ a.queue = c.queue /\ a.recorded = c.recorded /\ a.rec = c.rec /\ a.fetch = None
      /\ a.finish = c.finish /\ a.failed = c.failed
  BY DEF Client
<1> HIDE DEF a
<1>2. /\ Tail(c.queue) \in Seq(Chunk) /\ Len(Tail(c.queue)) = Len(c.queue) - 1 /\ Len(c.queue) \in Nat
      /\ \A i \in 1 .. Len(c.queue) - 1 : Tail(c.queue)[i] = c.queue[i + 1]
  BY <1>0, Queues
<1>3. /\ rest \in Client /\ rest.queue = Tail(c.queue) /\ rest.recorded = c.recorded /\ rest.rec = c.rec
      /\ rest.fetch = None /\ rest.finish = c.finish /\ rest.failed = c.failed /\ rest.offset = size
  BY <1>1, <1>2 DEF Client
<1> HIDE DEF rest
<1>4. Left(rest) = Left(c) + 1 /\ Len(rest.queue) <= rest.recorded
      /\ \A i \in 1 .. Len(rest.queue) : rest.queue[i] = Left(rest) + i
  <2>1. c.recorded \in Nat /\ Len(c.queue) <= c.recorded  BY Constants, ClientFields DEF Sensible
  <2>2. Left(rest) = Left(c) + 1 /\ Len(rest.queue) <= rest.recorded /\ Left(c) \in Nat
    BY <1>2, <1>3, <2>1 DEF Left
  <2>3. ASSUME NEW i \in 1 .. Len(rest.queue) PROVE rest.queue[i] = Left(rest) + i
    <3>1. i + 1 \in 1 .. Len(c.queue) /\ i \in 1 .. Len(c.queue) - 1  BY <1>2, <1>3
    <3>2. c.queue[i + 1] = Left(c) + (i + 1)  BY <3>1 DEF Sensible, Left
    <3>3. QED  BY <1>2, <1>3, <2>2, <3>1, <3>2
  <2>4. QED  BY <2>2, <2>3
<1>5. Shifted([c EXCEPT !.fetch = None], size) = d  BY DEF Shifted, rest, a
<1>6. CASE rest.queue = <<>>
  <2>1. d = DrainEnds(rest)  BY <1>6
  <2> HIDE DEF d
  <2>2. /\ d \in Client /\ d.pc = "idle" /\ d.queue = rest.queue /\ d.recorded = rest.recorded /\ d.rec = rest.rec
        /\ d.offset = rest.offset /\ d.fetch = rest.fetch
        /\ d.finish = (IF rest.finish # "drain" THEN rest.finish ELSE IF rest.failed THEN "thrown" ELSE "complete")
    BY <1>3, <2>1, Draining
  <2>3. d.finish # "confirming" /\ (d.finish # "no" => rest.finish # "no")  BY <1>0, <1>3, <2>2
  <2>4. Sensible(d)
    <3>1. /\ d.finish # "no" => d.rec = "inactive"
          /\ d.rec = "on" => d.recorded < Chunks
      BY <1>3, <2>2, <2>3 DEF Sensible
    <3>2. Len(d.queue) <= d.recorded /\ \A i \in 1 .. Len(d.queue) : d.queue[i] = d.recorded - Len(d.queue) + i
      BY <1>4, <2>2 DEF Left
    <3>3. QED  BY <1>3, <1>6, <2>2, <2>3, <3>1, <3>2 DEF Sensible
  <2>5. Left(d) = Left(c) + 1  BY <1>4, <2>2 DEF Left
  <2>6. QED  BY <1>3, <1>5, <2>2, <2>3, <2>4, <2>5
<1>7. CASE rest.queue # <<>>
  <2>1. d = s  BY <1>7
  <2>0. 0 \in 0 .. MaxTries /\ 0 < MaxTries  BY Constants
  <2>2. /\ d \in Client /\ d.pc = "send" /\ d.queue = rest.queue /\ d.recorded = rest.recorded /\ d.rec = rest.rec
        /\ d.offset = rest.offset /\ d.fetch = rest.fetch /\ d.finish = rest.finish /\ d.attempt = 0
    BY <1>3, <2>0, <2>1 DEF Client
  <2> HIDE DEF d
  <2>4. Sensible(d)
    <3>1. /\ d.finish # "no" => d.rec = "inactive"
          /\ d.rec = "on" => d.recorded < Chunks
      BY <1>3, <2>2 DEF Sensible
    <3>2. Len(d.queue) <= d.recorded /\ \A i \in 1 .. Len(d.queue) : d.queue[i] = d.recorded - Len(d.queue) + i
      BY <1>4, <2>2 DEF Left
    <3>3. QED  BY <1>0, <1>3, <1>7, <2>0, <2>2, <3>1, <3>2 DEF Sensible
  <2>5. Left(d) = Left(c) + 1  BY <1>4, <2>2 DEF Left
  <2>6. QED  BY <1>0, <1>3, <1>5, <2>2, <2>4, <2>5
<1>8. QED  BY <1>6, <1>7

\* The first chunk of the queue of c is to be sent again, or given up.
LEMMA Retrying ==
    ASSUME ParametersOK, NEW c \in Client, Sensible(c), c.pc = "wait", NEW size \in Sizes
    PROVE  LET d == Retried([c EXCEPT !.fetch = None, !.offset = size]) IN
           /\ d \in Client /\ Sensible(d) /\ d.offset = size /\ d.recorded = c.recorded /\ d.rec = c.rec
           /\ d.fetch = None /\ d.queue = c.queue /\ d.finish # "confirming"
<1> DEFINE a == [c EXCEPT !.fetch = None, !.offset = size]
           s == [a EXCEPT !.pc = "send"]
           g == [a EXCEPT !.failed = TRUE]
           d == IF a.attempt < MaxTries THEN s ELSE DrainEnds(g)
<1>0. c.queue # <<>> /\ c.rec # "gone" /\ c.finish \notin {"complete", "confirming", "done"}
  BY ClientFields DEF Sensible
<1>1. /\ a \in Client /\ a.queue = c.queue /\ a.recorded = c.recorded /\ a.rec = c.rec /\ a.fetch = None
      /\ a.finish = c.finish /\ a.offset = size
  BY DEF Client
<1>2. Retried([c EXCEPT !.fetch = None, !.offset = size]) = d  BY DEF Retried, GivenUp
<1> HIDE DEF a
<1>3. CASE a.attempt < MaxTries
  <2>1. d = s  BY <1>3
  <2>2. /\ d \in Client /\ d.pc = "send" /\ d.queue = a.queue /\ d.recorded = a.recorded /\ d.rec = a.rec
        /\ d.offset = a.offset /\ d.fetch = a.fetch /\ d.finish = a.finish /\ d.attempt = a.attempt
    BY <1>1, <2>1 DEF Client
  <2> HIDE DEF d
  <2>3. Sensible(d)  BY <1>0, <1>1, <1>3, <2>2 DEF Sensible
  <2>4. QED  BY <1>0, <1>1, <1>2, <2>2, <2>3
<1>4. CASE ~(a.attempt < MaxTries)
  <2>1. d = DrainEnds(g)  BY <1>4
  <2>2. /\ g \in Client /\ g.queue = a.queue /\ g.recorded = a.recorded /\ g.rec = a.rec /\ g.fetch = a.fetch
        /\ g.finish = a.finish /\ g.offset = a.offset /\ g.failed
    BY <1>1 DEF Client
  <2> HIDE DEF g, d
  <2>3. /\ d \in Client /\ d.pc = "idle" /\ d.queue = g.queue /\ d.recorded = g.recorded /\ d.rec = g.rec
        /\ d.offset = g.offset /\ d.fetch = g.fetch
        /\ d.finish = (IF g.finish # "drain" THEN g.finish ELSE IF g.failed THEN "thrown" ELSE "complete")
    BY <2>1, <2>2, Draining
  <2>4. d.finish \notin {"complete", "confirming", "done"} /\ (d.finish # "no" => c.finish # "no")
    BY <1>0, <1>1, <2>2, <2>3
  <2>5. Sensible(d)  BY <1>1, <2>2, <2>3, <2>4 DEF Sensible
  <2>6. QED  BY <1>1, <1>2, <2>2, <2>3, <2>4, <2>5
<1>5. QED  BY <1>3, <1>4
-----------------------------------------------------------------------------
(* What the steps of the page do. *)

Page == client \in Client /\ Sensible(client)

\* The recorder emits, stops or waits for the loop.
PageMoves ==
    /\ client' \in Client /\ Sensible(client') /\ ~Closed /\ client'.rec # "gone"
    /\ client'.offset = client.offset /\ client'.fetch = client.fetch /\ Left(client') = Left(client)
    /\ client.recorded <= client'.recorded
    /\ client.queue # <<>> => client'.queue # <<>> /\ client'.queue[1] = client.queue[1]
    /\ client.rec # "on" => client'.rec # "on" /\ client'.recorded = client.recorded
                            /\ client'.queue = client.queue /\ client'.pc = client.pc
    /\ client'.finish = "confirming" <=> client.finish = "confirming"
    /\ UNCHANGED <<net, answer, file, losses, torn>>

LEMMA Stopping ==
    ASSUME ParametersOK, NEW c \in Client, Sensible(c), c.rec = "on", NEW d \in Stopped(c)
    PROVE  /\ d \in Client /\ Sensible(d) /\ d.rec = "inactive" /\ d.finish = "no"
           /\ d.offset = c.offset /\ d.fetch = c.fetch /\ Left(d) = Left(c) /\ c.recorded <= d.recorded
           /\ c.queue # <<>> => d.queue # <<>> /\ d.queue[1] = c.queue[1]
<1>0. c.finish = "no" /\ c.recorded \in Nat  BY Constants, ClientFields DEF Sensible
<1>1. PICK e \in {Emitted(c), c} : d = [e EXCEPT !.rec = "inactive"]  BY DEF Stopped
<1>2. /\ e \in Client /\ Left(e) = Left(c) /\ c.recorded <= e.recorded
      /\ e.offset = c.offset /\ e.fetch = c.fetch /\ e.finish = "no"
      /\ c.queue # <<>> => e.queue # <<>> /\ e.queue[1] = c.queue[1]
      /\ e.pc # "idle" => e.queue # <<>>
      /\ e.pc = "send" => e.attempt < MaxTries
      /\ e.pc = "wait" <=> c.pc = "wait"
      /\ Len(e.queue) <= e.recorded
      /\ \A i \in 1 .. Len(e.queue) : e.queue[i] = Left(e) + i
  <2>1. CASE e = c  BY <1>0, <2>1 DEF Sensible, Left
  <2>2. CASE e = Emitted(c)
    <3>1. c.recorded <= c.recorded + 1  BY <1>0
    <3> HIDE DEF Left
    <3>2. QED  BY <1>0, <2>2, <3>1, Emitting
  <2>3. QED  BY <1>1, <2>1, <2>2
<1>3. /\ d \in Client /\ d.rec = "inactive" /\ d.recorded = e.recorded /\ d.queue = e.queue /\ d.pc = e.pc
      /\ d.offset = e.offset /\ d.fetch = e.fetch /\ d.finish = e.finish /\ d.attempt = e.attempt
  BY <1>1, <1>2 DEF Client
<1>4. Left(d) = Left(c)  BY <1>2, <1>3 DEF Left
<1>5. Sensible(d)
  <2>1. \A i \in 1 .. Len(d.queue) : d.queue[i] = d.recorded - Len(d.queue) + i  BY <1>2, <1>3 DEF Left
  <2>2. d.fetch # None <=> d.pc = "wait" \/ d.finish = "confirming"
    BY <1>0, <1>2, <1>3 DEF Sensible
  <2>3. QED  BY <1>2, <1>3, <2>1, <2>2 DEF Sensible
<1>6. QED  BY <1>2, <1>3, <1>4, <1>5

LEMMA Finishing ==
    ASSUME NEW c \in Client, Sensible(c), c.rec = "inactive", c.finish = "no"
    PROVE  LET d == waitForDrain(c) IN
           /\ d \in Client /\ Sensible(d) /\ d.rec = "inactive" /\ d.finish # "confirming"
           /\ d.offset = c.offset /\ d.fetch = c.fetch /\ d.recorded = c.recorded /\ d.queue = c.queue /\ d.pc = c.pc
<1> DEFINE f == IF c.queue = <<>> /\ c.pc = "idle" THEN (IF c.failed THEN "thrown" ELSE "complete") ELSE "drain"
           d == [c EXCEPT !.finish = f]
<1>1. waitForDrain(c) = d  BY DEF waitForDrain, Resumed
<1>2. f \in {"thrown", "complete", "drain"} /\ (f = "complete" => c.queue = <<>> /\ c.pc = "idle")  OBVIOUS
<1> HIDE DEF f
<1>3. /\ d \in Client /\ d.finish = f /\ d.rec = c.rec /\ d.offset = c.offset /\ d.fetch = c.fetch
      /\ d.recorded = c.recorded /\ d.queue = c.queue /\ d.pc = c.pc /\ d.attempt = c.attempt
  BY <1>2 DEF Client
<1> HIDE DEF d
<1>4. Sensible(d)  BY <1>2, <1>3 DEF Sensible
<1>5. QED  BY <1>1, <1>2, <1>3, <1>4

LEMMA Recording ==
    ASSUME ParametersOK, Page, Record \/ StreamEnds \/ finish
    PROVE  PageMoves
<1>0. client \in Client /\ Sensible(client) /\ client.recorded \in Nat /\ Chunks \in Nat
  BY Constants, ClientFields DEF Page
<1>1. CASE Record
  <2> DEFINE d == Emitted(client)
  <2>1. client.rec = "on" /\ client' = d /\ client.recorded + 1 < Chunks  BY <1>1 DEF Record
  <2> HIDE DEF d
  <2>2. /\ d \in Client /\ Left(d) = Left(client)
        /\ d.recorded = client.recorded + 1 /\ d.rec = "on" /\ d.offset = client.offset /\ d.fetch = client.fetch
        /\ d.finish = client.finish /\ d.pc # "idle" /\ d.queue # <<>>
        /\ d.pc = "wait" <=> client.pc = "wait"
        /\ client.queue # <<>> => d.queue[1] = client.queue[1]
        /\ d.pc = "send" => d.attempt < MaxTries
        /\ Len(d.queue) <= d.recorded
        /\ \A i \in 1 .. Len(d.queue) : d.queue[i] = Left(d) + i
    BY <1>0, <2>1, Emitting DEF d
  <2>3. client.finish = "no"  BY <1>0, <2>1 DEF Sensible
  <2>4. Sensible(d)
    <3>1. \A i \in 1 .. Len(d.queue) : d.queue[i] = d.recorded - Len(d.queue) + i  BY <2>2 DEF Left
    <3>2. d.fetch # None <=> d.pc = "wait" \/ d.finish = "confirming"  BY <1>0, <2>2, <2>3 DEF Sensible
    <3>3. QED  BY <1>0, <2>1, <2>2, <2>3, <3>1, <3>2 DEF Sensible
  <2>5. client.recorded <= d.recorded  BY <1>0, <2>2
  <2>6. QED  BY <1>1, <2>1, <2>2, <2>3, <2>4, <2>5 DEF PageMoves, Record, Closed
<1>2. CASE StreamEnds
  <2>1. PICK c \in Stopped(client), error \in BOOLEAN : client' = [c EXCEPT !.failed = c.failed \/ error]
    BY <1>2 DEF StreamEnds
  <2>2. client.rec = "on"  BY <1>2 DEF StreamEnds
  <2>3. /\ c \in Client /\ Sensible(c) /\ c.rec = "inactive" /\ c.finish = "no"
        /\ c.offset = client.offset /\ c.fetch = client.fetch /\ Left(c) = Left(client)
        /\ client.recorded <= c.recorded
        /\ client.queue # <<>> => c.queue # <<>> /\ c.queue[1] = client.queue[1]
    BY <1>0, <2>1, <2>2, Stopping
  <2> DEFINE b == c.failed \/ error
             d == [c EXCEPT !.failed = b]
  <2>4. b \in BOOLEAN  OBVIOUS
  <2>5. client' = d  BY <2>1
  <2> HIDE DEF b
  <2>6. /\ d \in Client /\ d.rec = c.rec /\ d.offset = c.offset /\ d.fetch = c.fetch /\ d.finish = c.finish
        /\ d.recorded = c.recorded /\ d.queue = c.queue /\ d.pc = c.pc /\ d.attempt = c.attempt
    BY <2>3, <2>4 DEF Client
  <2> HIDE DEF d
  <2>7. Sensible(d)  BY <2>3, <2>6 DEF Sensible
  <2>8. Left(d) = Left(client)  BY <2>3, <2>6 DEF Left
  <2>9. client.finish = "no"  BY <1>0, <2>2 DEF Sensible
  <2>10. QED  BY <1>2, <2>2, <2>3, <2>5, <2>6, <2>7, <2>8, <2>9 DEF PageMoves, StreamEnds, Closed
<1>3. CASE finish
  <2>1. PICK c \in (IF client.rec = "on" THEN Stopped(client) ELSE {client}) : client' = waitForDrain(c)
    BY <1>3 DEF finish
  <2>2. client.finish = "no" /\ client.rec # "gone" /\ client.rec \in {"on", "inactive", "gone"}
    BY <1>0, <1>3, ClientFields DEF finish
  <2>3. /\ c \in Client /\ Sensible(c) /\ c.rec = "inactive" /\ c.finish = "no"
        /\ c.offset = client.offset /\ c.fetch = client.fetch /\ Left(c) = Left(client)
        /\ client.recorded <= c.recorded
        /\ client.queue # <<>> => c.queue # <<>> /\ c.queue[1] = client.queue[1]
        /\ client.rec # "on" => c = client
    <3>1. CASE client.rec = "on"  BY <1>0, <2>1, <3>1, Stopping
    <3>2. CASE client.rec # "on"  BY <1>0, <2>1, <2>2, <3>2
    <3>3. QED  BY <3>1, <3>2
  <2> DEFINE d == waitForDrain(c)
  <2>4. client' = d  BY <2>1
  <2> HIDE DEF d
  <2>5. /\ d \in Client /\ Sensible(d) /\ d.rec = "inactive" /\ d.finish # "confirming"
        /\ d.offset = c.offset /\ d.fetch = c.fetch /\ d.recorded = c.recorded /\ d.queue = c.queue /\ d.pc = c.pc
    BY <2>3, Finishing DEF d
  <2>6. Left(d) = Left(client)  BY <2>3, <2>5 DEF Left
  <2>7. QED  BY <1>3, <2>2, <2>3, <2>4, <2>5, <2>6 DEF PageMoves, finish, Closed
<1>4. QED  BY <1>1, <1>2, <1>3
-----------------------------------------------------------------------------
(* Every step of the page keeps the invariant. *)

LEMMA RequestFields ==
    ASSUME TypeOK, NEW s \in Requests
    PROVE  /\ net[s] \in Request /\ net[s].chunk \in Chunk \cup {0} /\ net[s].at \in Sizes
           /\ net[s].pc \in {"free", "sent", "loaded", "appended", "ok", "conflict", "error"}
BY DEF TypeOK, Request

LEMMA Numbers ==
    ASSUME ParametersOK, TypeOK, Sensible(client)
    PROVE  /\ client \in Client /\ client.recorded \in 0 .. Chunks /\ client.recorded \in Nat
           /\ client.offset \in Nat /\ client.offset \in Sizes
           /\ Len(client.queue) \in Nat /\ client.queue \in Seq(Chunk)
           /\ Left(client) \in Nat /\ Left(client) <= client.recorded
           /\ client.queue = <<>> <=> Left(client) = client.recorded
           /\ Size(Left(client)) \in Nat /\ Size(client.recorded) \in Nat /\ Size(Left(client)) <= Size(client.recorded)
           /\ Size(client.recorded) <= Size(Chunks) /\ Size(Chunks) \in Nat
           /\ ChunkSize \in Nat \ {0} /\ Slack \in 0 .. ChunkSize - 1 /\ (~torn => Slack = 0)
           /\ Sizes = 0 .. Size(Chunks) + ChunkSize
           /\ file \in Seq(Bytes) /\ Len(file) \in Nat
           /\ \A s \in Requests : net[s].at \in Nat
<1>1. client \in Client /\ file \in Seq(Bytes) /\ Len(file) \in Nat  BY DEF TypeOK, Bytes
<1>2. /\ client.recorded \in 0 .. Chunks /\ client.queue \in Seq(Chunk) /\ client.offset \in Sizes
      /\ Chunks \in Nat /\ ChunkSize \in Nat \ {0}
  BY <1>1, ClientFields, Constants
<1>3. client.recorded \in Nat /\ client.recorded <= Chunks  BY <1>2
<1>4. /\ Left(client) \in Nat /\ Left(client) <= client.recorded
      /\ client.queue = <<>> <=> Left(client) = client.recorded
      /\ Len(client.queue) \in Nat
  <2>1. Len(client.queue) \in Nat /\ (client.queue = <<>> <=> Len(client.queue) = 0)  BY <1>2, Queues
  <2>2. Len(client.queue) <= client.recorded  BY DEF Sensible
  <2>3. QED  BY <1>3, <2>1, <2>2 DEF Left
<1>5. /\ Size(Left(client)) \in Nat /\ Size(client.recorded) \in Nat /\ Size(Left(client)) <= Size(client.recorded)
      /\ Size(client.recorded) <= Size(Chunks) /\ Size(Chunks) \in Nat
  BY <1>2, <1>3, <1>4, Sizing
<1>6. Sizes = 0 .. Size(Chunks) + ChunkSize /\ Slack \in 0 .. ChunkSize - 1 /\ (~torn => Slack = 0)  BY Sizing
<1>7. client.offset \in Nat /\ \A s \in Requests : net[s].at \in Nat  BY <1>2, <1>5, <1>6, RequestFields
<1>8. QED  BY <1>1, <1>2, <1>3, <1>4, <1>5, <1>6, <1>7

LEMMA MovesKeep ==
    ASSUME ParametersOK, IInv, PageMoves
    PROVE  IInv'
<1>1. /\ client' \in Client /\ Sensible(client') /\ ~Closed /\ client'.rec # "gone"
      /\ client'.offset = client.offset /\ client'.fetch = client.fetch /\ Left(client') = Left(client)
      /\ client.recorded <= client'.recorded
      /\ client.queue # <<>> => client'.queue # <<>> /\ client'.queue[1] = client.queue[1]
      /\ client.rec # "on" => client'.rec # "on" /\ client'.recorded = client.recorded
                              /\ client'.queue = client.queue /\ client'.pc = client.pc
      /\ client'.finish = "confirming" <=> client.finish = "confirming"
      /\ net' = net /\ answer' = answer /\ file' = file /\ losses' = losses /\ torn' = torn
  BY DEF PageMoves
<1>2. TypeOK /\ Sensible(client) /\ FetchOK /\ OffsetOK /\ (\A s \in Requests : RequestOK(s)) /\ FileOK
  BY DEF IInv, PageOK
<1>3. TypeOK'  BY <1>1, <1>2 DEF TypeOK
<1>4. Slack' = Slack /\ ~Closed'  BY <1>1 DEF Slack, Closed
<1>5. FetchOK'
  <2>1. ASSUME NEW s \in Requests
        PROVE  /\ client'.fetch = s => /\ net[s].pc # "free"
                                       /\ net[s].chunk = (IF client'.finish = "confirming" THEN 0 ELSE client'.queue[1])
               /\ client'.fetch # s => net[s].pc \notin Replies
    <3>1. CASE client.finish = "confirming"  BY <1>1, <1>2, <3>1 DEF FetchOK
    <3>2. CASE client.finish # "confirming" /\ client.fetch = s
      <4>1. client.fetch # None  BY <3>2, Constants
      <4>2. client.queue # <<>>  BY <1>2, <3>2, <4>1 DEF Sensible
      <4>3. QED  BY <1>1, <1>2, <3>2, <4>2 DEF FetchOK
    <3>3. CASE client.fetch # s  BY <1>1, <1>2, <3>3 DEF FetchOK
    <3>4. QED  BY <3>1, <3>2, <3>3
  <2>2. QED  BY <1>1, <2>1 DEF FetchOK
<1>6. OffsetOK'  BY <1>1, <1>2, <1>4 DEF OffsetOK
<1>7. Over => Over'  BY <1>1 DEF Over, Closed
<1>8. ASSUME NEW s \in Requests PROVE RequestOK(s)'
  <2>0. /\ net[s].chunk \in Nat /\ client.recorded \in Nat /\ client'.recorded \in Nat
    <3>1. net[s].chunk \in Chunk \cup {0} /\ Chunks \in Nat  BY <1>2, RequestFields, Constants
    <3>2. QED  BY <1>1, <1>2, <3>1, ClientFields DEF TypeOK, Chunk
  <2>1. CarriesOK(s)'  BY <1>1, <1>2, <1>4, <2>0 DEF RequestOK, CarriesOK, Carries
  <2>2. CompletesOK(s)'
    <3>1. Over => client'.recorded = client.recorded  BY <1>1 DEF Over
    <3>2. QED  BY <1>1, <1>2, <1>4, <1>7, <3>1 DEF RequestOK, CompletesOK, Completes, Carries
  <2>3. RepliesOK(s)'  BY <1>1, <1>2, <1>4 DEF RequestOK, RepliesOK
  <2>4. QED  BY <2>1, <2>2, <2>3 DEF RequestOK
<1>9. FileOK'
  <2>1. client.recorded \in Nat /\ client'.recorded \in Nat
    <3>1. Chunks \in Nat  BY Constants
    <3>2. QED  BY <1>1, <1>2, <3>1, ClientFields DEF TypeOK
  <2>2. Size(client.recorded) <= Size(client'.recorded) /\ Size(client.recorded) \in Nat /\ Size(client'.recorded) \in Nat
    BY <1>1, <2>1, Sizing
  <2>3. Len(file') <= Size(client'.recorded) + Slack'
    <3>1. Len(file) <= Size(client.recorded) + Slack  BY <1>2 DEF FileOK
    <3>2. Slack \in Nat /\ Len(file) \in Nat  BY <1>2, Numbers
    <3>3. QED  BY <1>1, <1>4, <2>2, <3>1, <3>2
  <2>4. ~torn' => \E n \in 0 .. client'.recorded : file' = Whole(n)  BY <1>1, <1>2, <2>1 DEF FileOK
  <2>5. answer'.status = "uploaded" =>
           /\ Over'
           /\ \A s \in Requests : net'[s].pc = "loaded" /\ net'[s].chunk # 0 => net'[s].at < Len(file')
           /\ ~torn' => file' = Whole(client'.recorded)
    BY <1>1, <1>2, <1>7 DEF FileOK, Over
  <2>6. QED  BY <2>3, <2>4, <2>5 DEF FileOK
<1>10. QED  BY <1>1, <1>3, <1>5, <1>6, <1>8, <1>9 DEF IInv, PageOK

\* The page sends the first chunk of its queue, or the end of the recording.
Sends(s) ==
    /\ client' \in Client /\ Sensible(client') /\ ~Closed /\ client.fetch = None
    /\ client'.rec = client.rec /\ client'.recorded = client.recorded /\ client'.queue = client.queue
    /\ client'.offset = client.offset /\ client'.fetch = s
    /\ client.pc = "idle" => client'.pc = "idle"
    /\ net[s].pc = "free"
    /\ \E k \in Chunk \cup {0} :
          /\ net' = [net EXCEPT ![s] = [pc |-> "sent", chunk |-> k, at |-> client.offset]]
          /\ \/ /\ k # 0 /\ client.queue # <<>> /\ k = client.queue[1] /\ client.pc # "idle"
                /\ client'.finish # "confirming"
             \/ /\ k = 0 /\ client.queue = <<>> /\ client.pc = "idle" /\ client.rec # "on"
                /\ client'.finish = "confirming"
    /\ UNCHANGED <<answer, file, losses, torn>>

LEMMA Sending ==
    ASSUME ParametersOK, TypeOK, Sensible(client), NEW s \in Requests, uploadChunk(s) \/ completeAnswer(s)
    PROVE  Sends(s)
<1>0. client \in Client /\ client.queue \in Seq(Chunk) /\ s # None /\ client.attempt \in 0 .. MaxTries /\ MaxTries \in Nat
  BY ClientFields, Constants DEF TypeOK
<1>1. CASE uploadChunk(s)
  <2>1. client.pc = "send" /\ net[s].pc = "free" /\ client.attempt < MaxTries /\ client.rec # "gone"
        /\ client.queue # <<>>
    BY <1>1 DEF uploadChunk, Sensible
  <2>2. client.finish \notin {"complete", "confirming", "done"} /\ client.fetch = None
    BY <2>1 DEF Sensible
  <2> DEFINE n == client.attempt + 1
             d == [client EXCEPT !.pc = "wait", !.fetch = s, !.attempt = n]
  <2>3. n \in 0 .. MaxTries  BY <1>0, <2>1
  <2>4. client' = d  BY <1>1 DEF uploadChunk
  <2> HIDE DEF n
  <2>5. /\ d \in Client /\ d.pc = "wait" /\ d.fetch = s /\ d.rec = client.rec /\ d.recorded = client.recorded
        /\ d.queue = client.queue /\ d.offset = client.offset /\ d.finish = client.finish
    BY <1>0, <2>3 DEF Client
  <2> HIDE DEF d
  <2>6. Sensible(d)  BY <1>0, <2>1, <2>2, <2>5 DEF Sensible
  <2>7. Head(client.queue) = client.queue[1] /\ client.queue[1] \in Chunk  BY <1>0, <2>1, Queues
  <2>8. net' = [net EXCEPT ![s] = [pc |-> "sent", chunk |-> Head(client.queue), at |-> client.offset]]
        /\ UNCHANGED <<answer, file, losses, torn>>
    BY <1>1 DEF uploadChunk
  <2>9. client.queue[1] # 0  BY <2>7, Constants DEF Chunk
  <2>10. QED  BY <2>1, <2>2, <2>4, <2>5, <2>6, <2>7, <2>8, <2>9 DEF Sends, Closed
<1>2. CASE completeAnswer(s)
  <2>1. client.finish = "complete" /\ net[s].pc = "free"  BY <1>2 DEF completeAnswer
  <2>2. client.queue = <<>> /\ client.pc = "idle" /\ client.fetch = None /\ client.rec = "inactive"
    BY <2>1 DEF Sensible
  <2> DEFINE d == [client EXCEPT !.finish = "confirming", !.fetch = s]
  <2>3. client' = d  BY <1>2 DEF completeAnswer
  <2>4. /\ d \in Client /\ d.pc = client.pc /\ d.fetch = s /\ d.rec = client.rec /\ d.recorded = client.recorded
        /\ d.queue = client.queue /\ d.offset = client.offset /\ d.finish = "confirming" /\ d.attempt = client.attempt
    BY <1>0 DEF Client
  <2> HIDE DEF d
  <2>5. Sensible(d)  BY <1>0, <2>1, <2>2, <2>4 DEF Sensible
  <2>6. net' = [net EXCEPT ![s] = [pc |-> "sent", chunk |-> 0, at |-> client.offset]]
        /\ UNCHANGED <<answer, file, losses, torn>>
    BY <1>2 DEF completeAnswer
  <2>7. QED  BY <2>1, <2>2, <2>3, <2>4, <2>5, <2>6 DEF Sends, Closed
<1>3. QED  BY <1>1, <1>2

LEMMA SendsKeep ==
    ASSUME ParametersOK, IInv, NEW s \in Requests, Sends(s)
    PROVE  IInv'
<1>1. /\ client' \in Client /\ Sensible(client') /\ ~Closed /\ client.fetch = None
      /\ client'.rec = client.rec /\ client'.recorded = client.recorded /\ client'.queue = client.queue
      /\ client'.offset = client.offset /\ client'.fetch = s
      /\ client.pc = "idle" => client'.pc = "idle"
      /\ net[s].pc = "free"
      /\ answer' = answer /\ file' = file /\ losses' = losses /\ torn' = torn
  BY DEF Sends
<1>2. TypeOK /\ Sensible(client) /\ FetchOK /\ OffsetOK /\ (\A q \in Requests : RequestOK(q)) /\ FileOK
  BY DEF IInv, PageOK
<1>3. PICK k \in Chunk \cup {0} :
          /\ net' = [net EXCEPT ![s] = [pc |-> "sent", chunk |-> k, at |-> client.offset]]
          /\ \/ /\ k # 0 /\ client.queue # <<>> /\ k = client.queue[1] /\ client.pc # "idle"
                /\ client'.finish # "confirming"
             \/ /\ k = 0 /\ client.queue = <<>> /\ client.pc = "idle" /\ client.rec # "on"
                /\ client'.finish = "confirming"
  BY DEF Sends
<1>4. /\ net'[s].pc = "sent" /\ net'[s].chunk = k /\ net'[s].at = client.offset
      /\ \A q \in Requests \ {s} : net'[q] = net[q]
      /\ net' \in [Requests -> Request]
  <2> DEFINE r == [pc |-> "sent", chunk |-> k, at |-> client.offset]
  <2>1. r \in Request /\ r.pc = "sent" /\ r.chunk = k /\ r.at = client.offset  BY <1>2, Numbers DEF Request
  <2>2. net' = [net EXCEPT ![s] = r]  BY <1>3
  <2> HIDE DEF r
  <2>3. net \in [Requests -> Request]  BY <1>2 DEF TypeOK
  <2>4. QED  BY <2>1, <2>2, <2>3
<1>5. TypeOK'  BY <1>1, <1>2, <1>4 DEF TypeOK
<1>6. /\ Slack' = Slack /\ ~Closed' /\ (Over => Over') /\ Left(client') = Left(client)
      /\ client'.fetch # None /\ s # None
  BY <1>1, Constants DEF Slack, Closed, Over, Left
<1>7. FetchOK'
  <2>1. ASSUME NEW q \in Requests
        PROVE  /\ client'.fetch = q => /\ net'[q].pc # "free"
                                       /\ net'[q].chunk = (IF client'.finish = "confirming" THEN 0 ELSE client'.queue[1])
               /\ client'.fetch # q => net'[q].pc \notin Replies
    <3>1. CASE q = s  BY <1>1, <1>3, <1>4, <3>1
    <3>2. CASE q # s
      <4>1. client.fetch # q  BY <1>1, Constants
      <4>2. QED  BY <1>1, <1>2, <1>4, <3>2, <4>1 DEF FetchOK
    <3>3. QED  BY <3>1, <3>2
  <2>2. QED  BY <2>1 DEF FetchOK
<1>8. OffsetOK'  BY <1>1, <1>2, <1>6 DEF OffsetOK
<1>9. /\ Size(Left(client)) <= client.offset /\ client.offset <= Size(Left(client)) + Slack
      /\ client.offset <= Len(file)
  BY <1>1, <1>2 DEF OffsetOK
<1>10. /\ k # 0 => k - 1 = Left(client) /\ k <= client.recorded
       /\ k = 0 => Left(client) = client.recorded /\ Over
  <2>0. client.queue = <<>> <=> Left(client) = client.recorded  BY <1>2, Numbers
  <2>1. CASE k # 0
    <3>1. client.recorded \in Nat /\ Len(client.queue) \in Nat /\ client.queue # <<>> /\ Len(client.queue) <= client.recorded
      BY <1>2, <1>3, <2>1, Numbers DEF Sensible
    <3>2. Len(client.queue) # 0  BY <1>2, <3>1, Numbers, Queues
    <3>3. k = client.recorded - Len(client.queue) + 1
      <4>1. 1 \in 1 .. Len(client.queue)  BY <3>1, <3>2
      <4>2. QED  BY <1>2, <1>3, <2>1, <4>1 DEF Sensible
    <3>4. QED  BY <2>1, <3>1, <3>2, <3>3 DEF Left
  <2>2. CASE k = 0  BY <1>3, <2>0, <2>2 DEF Over
  <2>3. QED  BY <2>1, <2>2
<1>11. ASSUME NEW q \in Requests, q # s PROVE RequestOK(q)'
  <2>1. CarriesOK(q)  /\ CompletesOK(q) /\ RepliesOK(q) /\ net'[q] = net[q] /\ client.fetch # q /\ client'.fetch # q
    BY <1>1, <1>2, <1>4, <1>11, Constants DEF RequestOK
  <2>2. CarriesOK(q)'  BY <1>1, <1>6, <2>1 DEF CarriesOK, Carries
  <2>3. CompletesOK(q)'
    <3>1. ASSUME Completes(q) PROVE ~Carries(s)'
      <4>1. Over  BY <2>1, <3>1 DEF CompletesOK
      <4>2. k = 0  BY <1>1, <1>3, <4>1 DEF Over
      <4>3. QED  BY <1>4, <4>2 DEF Carries
    <3>2. Completes(q)' => Completes(q)  BY <2>1 DEF Completes
    <3>3. \A p \in Requests \ {s} : Carries(p)' => Carries(p) /\ net'[p].at = net[p].at  BY <1>4 DEF Carries
    <3>4. QED  BY <1>1, <1>6, <2>1, <3>1, <3>2, <3>3 DEF CompletesOK
  <2>4. RepliesOK(q)'  BY <1>1, <1>6, <2>1 DEF RepliesOK
  <2>5. QED  BY <2>2, <2>3, <2>4 DEF RequestOK
<1>12. RequestOK(s)'
  <2>1. CarriesOK(s)'
    <3>1. CASE k # 0
      <4>1. Size(net'[s].chunk - 1) = Size(Left(client))  BY <1>4, <1>10, <3>1
      <4>2. k <= client.recorded /\ client.queue # <<>> /\ k = client.queue[1]  BY <1>3, <1>10, <3>1
      <4>3. client.offset \in Nat /\ client.offset <= client.offset  BY <1>2, Numbers
      <4>4. QED  BY <1>1, <1>4, <1>6, <1>9, <4>1, <4>2, <4>3 DEF CarriesOK
    <3>2. CASE k = 0  BY <1>4, <3>2 DEF CarriesOK, Carries
    <3>3. QED  BY <3>1, <3>2
  <2>2. CompletesOK(s)'
    <3>1. CASE k # 0  BY <1>4, <3>1 DEF CompletesOK, Completes
    <3>2. CASE k = 0
      <4>1. ASSUME NEW q \in Requests, Carries(q)' PROVE net'[q].at < client.offset
        <5>1. q # s /\ net'[q] = net[q] /\ Carries(q)  BY <1>4, <3>2, <4>1 DEF Carries
        <5>2. CarriesOK(q) /\ client.queue = <<>>  BY <1>2, <1>3, <3>2 DEF RequestOK
        <5>3. net[q].at <= client.offset /\ net[q].at # client.offset  BY <1>1, <5>1, <5>2 DEF CarriesOK
        <5>4. net[q].at \in Nat /\ client.offset \in Nat  BY <1>2, Numbers
        <5>5. QED  BY <5>1, <5>3, <5>4
      <4>2. QED  BY <1>1, <1>4, <1>6, <1>9, <1>10, <3>2, <4>1 DEF CompletesOK
    <3>3. QED  BY <3>1, <3>2
  <2>3. RepliesOK(s)'  BY <1>4 DEF RepliesOK
  <2>4. QED  BY <2>1, <2>2, <2>3 DEF RequestOK
<1>13. FileOK'
  <2>1. \A q \in Requests : net'[q].pc = "loaded" => net'[q] = net[q]  BY <1>4
  <2>2. QED  BY <1>1, <1>2, <1>6, <2>1 DEF FileOK
<1>14. QED  BY <1>1, <1>5, <1>7, <1>8, <1>11, <1>12, <1>13 DEF IInv, PageOK

\* The page has the answer it waits for, or its request has failed: it knows that the chunk is
\* on the server, sends it again or gives up.
Wakes(s) ==
    /\ client.fetch = s /\ client' \in Client /\ Sensible(client') /\ client'.fetch = None
    /\ client'.rec = client.rec /\ client'.recorded = client.recorded /\ client'.finish # "confirming"
    /\ \/ /\ client.finish = "confirming" /\ client'.offset = client.offset
          /\ client'.queue = client.queue /\ client'.pc = client.pc
       \/ /\ client.pc = "wait" /\ net[s].pc \in {"ok", "conflict"} /\ net[s].at >= client.offset + ChunkSize
          /\ client'.offset = net[s].at /\ Left(client') = Left(client) + 1
       \/ /\ client.pc = "wait" /\ client'.queue = client.queue
          /\ \/ client'.offset = client.offset
             \/ /\ net[s].pc = "conflict" /\ net[s].at < client.offset + ChunkSize
                /\ client'.offset = net[s].at
    /\ \/ net' = [net EXCEPT ![s] = Free]
       \/ net' = net /\ net[s].pc \notin Replies
    /\ losses' \in 0 .. MaxLosses
    /\ UNCHANGED <<answer, file, torn>>

LEMMA Answering ==
    ASSUME ParametersOK, NEW c \in Client, Sensible(c), c.fetch # None, NEW code, NEW size \in Sizes, NEW reply,
           reply.pc = code, reply.at = size
    PROVE  LET d == Answered(c, reply) IN
           /\ d \in Client /\ Sensible(d) /\ d.fetch = None /\ d.rec = c.rec /\ d.recorded = c.recorded
           /\ d.finish # "confirming"
           /\ \/ c.finish = "confirming" /\ d.offset = c.offset /\ d.queue = c.queue /\ d.pc = c.pc
              \/ /\ c.pc = "wait" /\ code \in {"ok", "conflict"} /\ d.offset = size /\ Left(d) = Left(c) + 1
                 /\ code = "conflict" => size >= c.offset + ChunkSize
              \/ /\ c.pc = "wait" /\ d.queue = c.queue
                 /\ \/ d.offset = c.offset
                    \/ code = "conflict" /\ size < c.offset + ChunkSize /\ d.offset = size
<1> DEFINE awake == [c EXCEPT !.fetch = None]
           d == Answered(c, reply)
<1>0. c.fetch \in Requests \cup {None} /\ c.offset \in Sizes /\ c.offset \in Nat /\ size \in Nat /\ ChunkSize \in Nat
  <2>1. Sizes \subseteq Nat  BY Sizing
  <2>2. QED  BY <2>1, ClientFields, Constants
<1>1. CASE c.finish = "confirming"
  <2>1. c.queue = <<>> /\ c.pc = "idle" /\ c.rec = "inactive"  BY <1>1 DEF Sensible
  <2> DEFINE f == IF code = "ok" THEN "done" ELSE "thrown"
             e == [c EXCEPT !.fetch = None, !.finish = f]
  <2>2. f \in {"done", "thrown"}  OBVIOUS
  <2>3. d = e
    <3>1. d = [awake EXCEPT !.finish = f]  BY <1>1 DEF Answered
    <3> HIDE DEF d, f
    <3>2. QED  BY <3>1
  <2> HIDE DEF d, f
  <2>4. /\ e \in Client /\ e.fetch = None /\ e.finish = f /\ e.rec = c.rec /\ e.recorded = c.recorded
        /\ e.queue = c.queue /\ e.pc = c.pc /\ e.offset = c.offset /\ e.attempt = c.attempt
    BY <2>2 DEF Client
  <2> HIDE DEF e
  <2>5. Sensible(e)  BY <2>1, <2>2, <2>4 DEF Sensible
  <2>6. QED  BY <1>1, <2>2, <2>3, <2>4, <2>5 DEF d
<1>2. CASE c.finish # "confirming"
  <2>0. c.pc = "wait"  BY <1>2 DEF Sensible
  <2>1. CASE code = "ok"
    <3>1. d = Shifted(awake, size)  BY <1>2, <2>1 DEF Answered
    <3> HIDE DEF d
    <3>2. QED  BY <2>0, <2>1, <3>1, Shifting DEF d
  <2>2. CASE code = "conflict"
    <3>1. d = Synced(awake, size)  BY <1>2, <2>2 DEF Answered
    <3>2. awake.offset = c.offset  BY DEF Client
    <3>3. CASE size >= c.offset + ChunkSize
      <4>1. d = Shifted(awake, size)  BY <3>1, <3>2, <3>3 DEF Synced
      <4> HIDE DEF d
      <4>2. QED  BY <2>0, <2>2, <3>3, <4>1, Shifting DEF d
    <3>4. CASE ~(size >= c.offset + ChunkSize)
      <4>1. d = Retried([c EXCEPT !.fetch = None, !.offset = size])  BY <3>1, <3>2, <3>4 DEF Synced
      <4>2. size < c.offset + ChunkSize  BY <1>0, <3>4
      <4> HIDE DEF d
      <4>3. /\ d \in Client /\ Sensible(d) /\ d.offset = size /\ d.recorded = c.recorded /\ d.rec = c.rec
            /\ d.fetch = None /\ d.queue = c.queue /\ d.finish # "confirming"
        BY <2>0, <4>1, Retrying
      <4>4. QED  BY <2>0, <2>2, <4>2, <4>3 DEF d
    <3>5. QED  BY <3>3, <3>4
  <2>3. CASE code \notin {"ok", "conflict"}
    <3>1. d = Retried(awake)  BY <1>2, <2>3 DEF Answered
    <3>2. awake = [c EXCEPT !.fetch = None, !.offset = c.offset]  BY DEF Client
    <3>3. d = Retried([c EXCEPT !.fetch = None, !.offset = c.offset])  BY <3>1, <3>2
    <3> HIDE DEF d
    <3>4. /\ d \in Client /\ Sensible(d) /\ d.offset = c.offset /\ d.recorded = c.recorded /\ d.rec = c.rec
          /\ d.fetch = None /\ d.queue = c.queue /\ d.finish # "confirming"
      BY <1>0, <2>0, <3>3, Retrying
    <3>5. QED  BY <2>0, <3>4 DEF d
  <2>4. QED  BY <2>1, <2>2, <2>3
<1>3. QED  BY <1>1, <1>2

LEMMA Waking ==
    ASSUME ParametersOK, IInv, NEW s \in Requests, sendWithRetry(s) \/ RequestFails(s)
    PROVE  Wakes(s)
<1>1. TypeOK /\ Sensible(client) /\ client \in Client /\ net[s].at \in Sizes /\ s # None /\ client.offset \in Nat
      /\ RepliesOK(s) /\ FetchOK
  BY Constants, RequestFields, Numbers DEF IInv, PageOK, RequestOK
<1>2. client.fetch = s /\ client.fetch # None  BY <1>1 DEF sendWithRetry, RequestFails
<1>3. ASSUME client.pc = "wait"
      PROVE  net[s].pc = "ok" => net[s].at >= client.offset + ChunkSize
  <2>1. client.finish # "confirming" /\ client.queue # <<>>  BY <1>1, <1>3 DEF Sensible
  <2>2. net[s].chunk = client.queue[1]  BY <1>1, <1>2, <2>1 DEF FetchOK
  <2>3. client.queue \in Seq(Chunk)  BY <1>1, ClientFields
  <2>4. net[s].chunk # 0  BY <2>1, <2>2, <2>3, Queues, Constants DEF Chunk
  <2>5. net[s].at \in Nat /\ ChunkSize \in Nat  BY <1>1, Numbers
  <2>6. QED  BY <1>1, <2>4, <2>5 DEF RepliesOK
<1>4. CASE sendWithRetry(s)
  <2> DEFINE d == Answered(client, net[s])
  <2>1. /\ client' = d /\ net' = [net EXCEPT ![s] = Free] /\ UNCHANGED <<answer, file, losses, torn>>
    BY <1>4 DEF sendWithRetry
  <2> HIDE DEF d
  <2>2. /\ d \in Client /\ Sensible(d) /\ d.fetch = None /\ d.rec = client.rec /\ d.recorded = client.recorded
        /\ d.finish # "confirming"
        /\ \/ client.finish = "confirming" /\ d.offset = client.offset /\ d.queue = client.queue /\ d.pc = client.pc
           \/ /\ client.pc = "wait" /\ net[s].pc \in {"ok", "conflict"} /\ d.offset = net[s].at
              /\ Left(d) = Left(client) + 1
              /\ net[s].pc = "conflict" => net[s].at >= client.offset + ChunkSize
           \/ /\ client.pc = "wait" /\ d.queue = client.queue
              /\ \/ d.offset = client.offset
                 \/ net[s].pc = "conflict" /\ net[s].at < client.offset + ChunkSize /\ d.offset = net[s].at
    <3> DEFINE code == net[s].pc
               size == net[s].at
               reply == net[s]
    <3>1. size \in Sizes /\ reply.pc = code /\ reply.at = size /\ d = Answered(client, reply)  BY <1>1 DEF d
    <3> HIDE DEF code, size, reply
    <3>2. /\ d \in Client /\ Sensible(d) /\ d.fetch = None /\ d.rec = client.rec /\ d.recorded = client.recorded
          /\ d.finish # "confirming"
          /\ \/ client.finish = "confirming" /\ d.offset = client.offset /\ d.queue = client.queue /\ d.pc = client.pc
             \/ /\ client.pc = "wait" /\ code \in {"ok", "conflict"} /\ d.offset = size
                /\ Left(d) = Left(client) + 1
                /\ code = "conflict" => size >= client.offset + ChunkSize
             \/ /\ client.pc = "wait" /\ d.queue = client.queue
                /\ \/ d.offset = client.offset
                   \/ code = "conflict" /\ size < client.offset + ChunkSize /\ d.offset = size
      BY <1>1, <1>2, <3>1, Answering
    <3>3. QED  BY <3>2 DEF code, size
  <2>3. losses' \in 0 .. MaxLosses  BY <1>1, <2>1 DEF TypeOK
  <2>4. QED  BY <1>2, <1>3, <2>1, <2>2, <2>3 DEF Wakes
<1>5. CASE RequestFails(s)
  <2> DEFINE reply == [net[s] EXCEPT !.pc = "error"]
             d == Answered(client, reply)
             r == IF net[s].pc \in Replies THEN Free ELSE net[s]
  <2>1. /\ client' = d /\ net' = [net EXCEPT ![s] = r] /\ UNCHANGED <<answer, file, torn>>
        /\ losses < MaxLosses /\ losses' = losses + 1
    BY <1>5 DEF RequestFails
  <2>2. reply.pc = "error" /\ reply.at = net[s].at  BY <1>1, RequestFields DEF Request
  <2> HIDE DEF d, reply
  <2>3. /\ d \in Client /\ Sensible(d) /\ d.fetch = None /\ d.rec = client.rec /\ d.recorded = client.recorded
        /\ d.finish # "confirming"
        /\ \/ client.finish = "confirming" /\ d.offset = client.offset /\ d.queue = client.queue /\ d.pc = client.pc
           \/ client.pc = "wait" /\ d.queue = client.queue /\ d.offset = client.offset
    <3>1. "error" # "ok" /\ "error" # "conflict"  OBVIOUS
    <3> DEFINE code == "error"
    <3> HIDE DEF code
    <3>2. code \notin {"ok", "conflict"} /\ reply.pc = code  BY <2>2, <3>1 DEF code
    <3>3. QED  BY <1>1, <1>2, <2>2, <3>2, Answering, SMTT(20) DEF d
  <2>4. losses' \in 0 .. MaxLosses
    <3>1. losses \in 0 .. MaxLosses /\ MaxLosses \in Nat  BY <1>1, Constants DEF TypeOK
    <3>2. QED  BY <2>1, <3>1
  <2>5. \/ net' = [net EXCEPT ![s] = Free]
        \/ net' = net /\ net[s].pc \notin Replies
    <3>1. CASE net[s].pc \in Replies  BY <2>1, <3>1
    <3>2. CASE net[s].pc \notin Replies
      <4>1. net' = [net EXCEPT ![s] = net[s]]  BY <2>1, <3>2
      <4>2. net \in [Requests -> Request]  BY <1>1 DEF TypeOK
      <4>3. QED  BY <3>2, <4>1, <4>2
    <3>3. QED  BY <3>1, <3>2
  <2>6. QED  BY <1>2, <2>1, <2>3, <2>4, <2>5 DEF Wakes
<1>6. QED  BY <1>4, <1>5

LEMMA FreeIs ==
    ASSUME ParametersOK
    PROVE  Free \in Request /\ Free.pc = "free" /\ Free.chunk = 0 /\ Free.at = 0
<1>1. 0 \in Sizes
  <2>1. Size(Chunks) \in Nat /\ ChunkSize \in Nat  BY Constants, Sizing
  <2>2. QED  BY <2>1, Sizing
<1>2. QED  BY <1>1 DEF Free, Request

LEMMA WakesKeep ==
    ASSUME ParametersOK, IInv, NEW s \in Requests, Wakes(s)
    PROVE  IInv'
<1>1. /\ client.fetch = s /\ client' \in Client /\ Sensible(client') /\ client'.fetch = None
      /\ client'.rec = client.rec /\ client'.recorded = client.recorded /\ client'.finish # "confirming"
      /\ losses' \in 0 .. MaxLosses /\ answer' = answer /\ file' = file /\ torn' = torn
  BY DEF Wakes
<1>2. TypeOK /\ Sensible(client) /\ FetchOK /\ OffsetOK /\ (\A q \in Requests : RequestOK(q)) /\ FileOK
  BY DEF IInv, PageOK
<1>3. /\ net' \in [Requests -> Request]
      /\ \A q \in Requests : (net'[q] = net[q] /\ (q = s => net[s].pc \notin Replies)) \/ net'[q] = Free
  <2>1. net \in [Requests -> Request] /\ Free \in Request  BY <1>2, FreeIs DEF TypeOK
  <2>2. CASE net' = [net EXCEPT ![s] = Free]  BY <2>1, <2>2
  <2>3. CASE net' = net /\ net[s].pc \notin Replies  BY <2>1, <2>3
  <2>4. QED  BY <2>2, <2>3 DEF Wakes
<1>4. TypeOK'  BY <1>1, <1>2, <1>3 DEF TypeOK
<1>5. Slack' = Slack /\ Closed' = Closed  BY <1>1 DEF Slack, Closed
<1>6. \A q \in Requests : net'[q].pc \notin Replies  BY <1>1, <1>2, <1>3, FreeIs DEF FetchOK, Replies
<1>7. FetchOK'  BY <1>1, <1>6, Constants DEF FetchOK
<1>8. ~Closed /\ s # None  BY <1>1, <1>2, Constants DEF Sensible, Closed
<1>9. /\ Size(Left(client)) <= client.offset /\ client.offset <= Size(Left(client)) + Slack
      /\ client.offset <= Len(file) /\ Len(file) <= client.offset + ChunkSize
      /\ Len(file) < client.offset + ChunkSize => Len(file) <= Size(Left(client)) + Slack
  BY <1>2, <1>8 DEF OffsetOK
<1>10. /\ client.offset \in Nat /\ Left(client) \in Nat /\ Size(Left(client)) \in Nat /\ ChunkSize \in Nat \ {0}
       /\ Slack \in Nat /\ Len(file) \in Nat /\ \A q \in Requests : net[q].at \in Nat
       /\ Size(Left(client) + 1) = Size(Left(client)) + ChunkSize
  <2>1. Left(client) \in Nat  BY <1>2, Numbers
  <2>2. Size(Left(client) + 1) = Size(Left(client)) + ChunkSize  BY <2>1, Sizing
  <2>3. QED  BY <1>2, <2>1, <2>2, Numbers
<1>11. ASSUME client.pc = "wait"
       PROVE  /\ net[s].chunk # 0 /\ ~Over
              /\ net[s].pc = "ok" => net[s].at <= Len(file) /\ net[s].at = client.offset + ChunkSize
              /\ net[s].pc = "conflict" =>
                   /\ client.offset <= net[s].at /\ net[s].at <= Len(file)
                   /\ net[s].at > client.offset => net[s].at = Len(file)
                   /\ net[s].at < client.offset + ChunkSize => net[s].at <= Size(Left(client)) + Slack
  <2>1. client.finish # "confirming" /\ client.queue # <<>>  BY <1>2, <1>11 DEF Sensible
  <2>2. net[s].chunk = client.queue[1]  BY <1>1, <1>2, <2>1 DEF FetchOK
  <2>3. net[s].chunk # 0
    <3>1. client.queue \in Seq(Chunk)  BY <1>2, Numbers
    <3>2. QED  BY <2>1, <2>2, <3>1, Queues, Constants DEF Chunk
  <2>4. ~Over  BY <1>8, <1>11 DEF Over
  <2>5. RepliesOK(s)  BY <1>2 DEF RequestOK
  <2>6. QED  BY <2>3, <2>4, <2>5 DEF RepliesOK
<1>12. /\ client.offset <= client'.offset
       /\ client'.offset = client.offset => client'.queue = client.queue
       /\ Over => Over'
       /\ Size(Left(client')) <= client'.offset /\ client'.offset <= Size(Left(client')) + Slack
       /\ client'.offset <= Len(file) /\ Len(file) <= client'.offset + ChunkSize
       /\ Len(file) < client'.offset + ChunkSize => Len(file) <= Size(Left(client')) + Slack
  <2>1. CASE /\ client.finish = "confirming" /\ client'.offset = client.offset
             /\ client'.queue = client.queue /\ client'.pc = client.pc
    BY <1>1, <1>9, <1>10, <2>1 DEF Over, Left, Closed
  <2>2. CASE /\ client.pc = "wait" /\ net[s].pc \in {"ok", "conflict"} /\ net[s].at >= client.offset + ChunkSize
             /\ client'.offset = net[s].at /\ Left(client') = Left(client) + 1
    <3>1. net[s].at = client.offset + ChunkSize /\ net[s].at <= Len(file)  BY <1>9, <1>10, <1>11, <2>2, SMTT(20)
    <3>2. ~Over  BY <1>11, <2>2
    <3>3. Size(Left(client')) = Size(Left(client)) + ChunkSize  BY <1>10, <2>2
    <3>4. QED  BY <1>9, <1>10, <2>2, <3>1, <3>2, <3>3, SMTT(20)
  <2>3. CASE /\ client.pc = "wait" /\ client'.queue = client.queue
             /\ \/ client'.offset = client.offset
                \/ /\ net[s].pc = "conflict" /\ net[s].at < client.offset + ChunkSize
                   /\ client'.offset = net[s].at
    <3>1. ~Over  BY <1>11, <2>3
    <3>2. Left(client') = Left(client)  BY <1>1, <2>3 DEF Left
    <3>3. QED  BY <1>9, <1>10, <1>11, <2>3, <3>1, <3>2, SMTT(20)
  <2>4. QED  BY <2>1, <2>2, <2>3 DEF Wakes
<1>13. OffsetOK'  BY <1>1, <1>5, <1>12 DEF OffsetOK
<1>14. client'.offset \in Nat
  <2>1. client'.offset \in Sizes /\ Sizes = 0 .. Size(Chunks) + ChunkSize  BY <1>1, ClientFields, Sizing
  <2>2. QED  BY <1>2, <2>1, Numbers
<1>15. ASSUME NEW q \in Requests PROVE RequestOK(q)'
  <2>1. CarriesOK(q)'
    <3>1. CASE net'[q] = net[q]
      <4>1. CarriesOK(q)  BY <1>2 DEF RequestOK
      <4>2. net[q].at \in Nat /\ client'.fetch # q  BY <1>1, <1>10, Constants
      <4>3. QED  BY <1>1, <1>5, <1>8, <1>10, <1>12, <1>14, <3>1, <4>1, <4>2, SMTT(20) DEF CarriesOK, Carries
    <3>2. CASE net'[q] = Free  BY <3>2, FreeIs DEF CarriesOK, Carries
    <3>3. QED  BY <1>3, <3>1, <3>2
  <2>2. CompletesOK(q)'
    <3>1. CASE net'[q] = net[q]
      <4>1. CompletesOK(q)  BY <1>2 DEF RequestOK
      <4>2. \A p \in Requests : Carries(p)' => Carries(p) /\ net'[p].at = net[p].at
        BY <1>3, FreeIs DEF Carries
      <4>3. QED  BY <1>1, <1>5, <1>12, <3>1, <4>1, <4>2 DEF CompletesOK, Completes
    <3>2. CASE net'[q] = Free  BY <3>2, FreeIs DEF CompletesOK, Completes
    <3>3. QED  BY <1>3, <3>1, <3>2
  <2>3. RepliesOK(q)'
    <3>1. CASE net'[q] = net[q]
      <4>1. RepliesOK(q) /\ client'.fetch # q /\ net[q].pc \notin Replies  BY <1>1, <1>2, <1>6, <3>1, Constants DEF RequestOK
      <4>2. QED  BY <1>1, <3>1, <4>1 DEF RepliesOK, Replies
    <3>2. CASE net'[q] = Free  BY <3>2, FreeIs DEF RepliesOK
    <3>3. QED  BY <1>3, <3>1, <3>2
  <2>4. QED  BY <2>1, <2>2, <2>3 DEF RequestOK
<1>16. FileOK'
  <2>1. \A q \in Requests : net'[q].pc = "loaded" => net'[q] = net[q]  BY <1>3, FreeIs
  <2>2. QED  BY <1>1, <1>2, <1>5, <1>12, <2>1 DEF FileOK
<1>17. QED  BY <1>1, <1>4, <1>7, <1>13, <1>15, <1>16 DEF IInv, PageOK

LEMMA ReloadKeeps ==
    ASSUME ParametersOK, IInv, Reload
    PROVE  IInv'
<1> DEFINE d == [Started EXCEPT !.rec = "gone", !.recorded = client.recorded]
<1>1. /\ client' = d /\ net' = [s \in Requests |-> IF net[s].pc \in Replies THEN Free ELSE net[s]]
      /\ answer' = answer /\ file' = file /\ losses' = losses /\ torn' = torn
  BY DEF Reload
<1>2. TypeOK /\ Sensible(client) /\ FetchOK /\ OffsetOK /\ (\A q \in Requests : RequestOK(q)) /\ FileOK
  BY DEF IInv, PageOK
<1>3. /\ d \in Client /\ d.rec = "gone" /\ d.recorded = client.recorded /\ d.queue = <<>> /\ d.pc = "idle"
      /\ d.fetch = None /\ d.finish = "no"
  <2>1. client.recorded \in 0 .. Chunks /\ Size(Chunks) \in Nat /\ ChunkSize \in Nat
        /\ Sizes = 0 .. Size(Chunks) + ChunkSize /\ MaxTries \in Nat
    BY <1>2, Numbers, Constants
  <2>2. 0 \in Sizes /\ 0 \in 0 .. MaxTries /\ 0 \in 0 .. Chunks /\ <<>> \in Seq(Chunk)  BY <2>1, Constants
  <2>3. /\ Started \in Client /\ Started.queue = <<>> /\ Started.pc = "idle" /\ Started.fetch = None
        /\ Started.finish = "no"
    BY <2>2 DEF Started, Client
  <2>4. QED  BY <2>1, <2>3 DEF Client
<1> HIDE DEF d
<1>4. Sensible(d)
  <2>1. client.recorded \in Nat /\ Len(<<>>) = 0 /\ \A i \in 1 .. 0 : FALSE  BY <1>2, Numbers
  <2>2. QED  BY <1>3, <2>1 DEF Sensible
<1>5. /\ net' \in [Requests -> Request]
      /\ \A q \in Requests : (net'[q] = net[q] /\ net[q].pc \notin Replies) \/ net'[q] = Free
  <2>1. net \in [Requests -> Request] /\ Free \in Request  BY <1>2, FreeIs DEF TypeOK
  <2>2. QED  BY <1>1, <2>1
<1>6. TypeOK'  BY <1>1, <1>2, <1>3, <1>5 DEF TypeOK
<1>7. \A q \in Requests : net'[q].pc \notin Replies  BY <1>5, FreeIs DEF Replies
<1>8. Slack' = Slack /\ Closed' /\ Over' /\ client'.recorded = client.recorded  BY <1>1, <1>3 DEF Slack, Closed, Over
<1>9. FetchOK'  BY <1>1, <1>3, <1>7, Constants DEF FetchOK
<1>10. OffsetOK'  BY <1>8 DEF OffsetOK
<1>11. ASSUME NEW q \in Requests PROVE RequestOK(q)'
  <2>1. client'.fetch # q  BY <1>1, <1>3, Constants
  <2>2. CASE net'[q] = net[q] /\ net[q].pc \notin Replies
    <3>1. CarriesOK(q) /\ CompletesOK(q) /\ RepliesOK(q)  BY <1>2 DEF RequestOK
    <3>2. \A p \in Requests : Carries(p)' => Carries(p) /\ net'[p].at = net[p].at  BY <1>5, FreeIs DEF Carries
    <3>3. CarriesOK(q)'  BY <1>1, <1>8, <2>1, <2>2, <3>1 DEF CarriesOK, Carries
    <3>4. CompletesOK(q)'  BY <1>1, <1>8, <2>2, <3>1, <3>2 DEF CompletesOK, Completes
    <3>5. RepliesOK(q)'  BY <1>1, <2>1, <2>2, <3>1 DEF RepliesOK, Replies
    <3>6. QED  BY <3>3, <3>4, <3>5 DEF RequestOK
  <2>3. CASE net'[q] = Free
    BY <2>3, FreeIs DEF RequestOK, CarriesOK, Carries, CompletesOK, Completes, RepliesOK
  <2>4. QED  BY <1>5, <2>2, <2>3
<1>12. FileOK'
  <2>1. \A q \in Requests : net'[q].pc = "loaded" => net'[q] = net[q]  BY <1>5, FreeIs
  <2>2. QED  BY <1>1, <1>2, <1>8, <2>1 DEF FileOK
<1>13. QED  BY <1>1, <1>4, <1>3, <1>6, <1>9, <1>10, <1>11, <1>12 DEF IInv, PageOK
-----------------------------------------------------------------------------
(* Every step of the server keeps the invariant. *)

\* A handler moves its own request only, and the file only grows.
ServerMoves(s) ==
    /\ client' = client /\ losses' = losses /\ (torn => torn') /\ torn' \in BOOLEAN
    /\ net' \in [Requests -> Request] /\ \A q \in Requests \ {s} : net'[q] = net[q]
    /\ net'[s].pc \in {"sent", "loaded"} =>
          net[s].pc = "sent" /\ net'[s].chunk = net[s].chunk /\ net'[s].at = net[s].at
    /\ client.fetch = s => net'[s].pc # "free" /\ net'[s].chunk = net[s].chunk
    /\ client.fetch # s => net'[s].pc \notin Replies
    /\ file' \in Seq(Bytes) /\ Len(file) <= Len(file')

\* A page that has been answered with the size of the file has the last word on it.
NoNews ==
    \A q \in Requests :
        net[q].chunk # 0 /\ net[q].pc = "conflict" /\ net[q].at > client.offset => Len(file') = Len(file)

LEMMA ServerKeeps ==
    ASSUME ParametersOK, IInv, NEW s \in Requests, ServerMoves(s), NoNews
    PROVE  /\ PageOK' /\ (\A q \in Requests \ {s} : RequestOK(q)')
           /\ CarriesOK(s)' /\ CompletesOK(s)'
<1>1. /\ client' = client /\ \A q \in Requests \ {s} : net'[q] = net[q]
      /\ net'[s].pc \in {"sent", "loaded"} =>
            net[s].pc = "sent" /\ net'[s].chunk = net[s].chunk /\ net'[s].at = net[s].at
      /\ client.fetch = s => net'[s].pc # "free" /\ net'[s].chunk = net[s].chunk
      /\ client.fetch # s => net'[s].pc \notin Replies
      /\ Len(file) <= Len(file') /\ Len(file') \in Nat
  BY DEF ServerMoves
<1>2. TypeOK /\ Sensible(client) /\ FetchOK /\ (\A q \in Requests : RequestOK(q))
  BY DEF IInv, PageOK
<1>3. /\ Slack \in Nat /\ Slack' \in Nat /\ Slack <= Slack'
  <2>1. ChunkSize - 1 \in Nat  BY Constants
  <2>2. QED  BY <2>1 DEF Slack, ServerMoves
<1>4. Closed' = Closed /\ Over' = Over  BY <1>1 DEF Closed, Over
<1>5. PageOK'
  <2>1. FetchOK'  BY <1>1, <1>2 DEF FetchOK
  <2>2. QED  BY <1>1, <1>2, <2>1 DEF PageOK
<1>6. ASSUME NEW q \in Requests
      PROVE  /\ Carries(q)' => Carries(q) /\ net'[q].at = net[q].at /\ net'[q].chunk = net[q].chunk
             /\ Completes(q)' => Completes(q) /\ net'[q].at = net[q].at /\ net'[q].chunk = net[q].chunk
  BY <1>1 DEF Carries, Completes
<1>7. ASSUME NEW q \in Requests PROVE CarriesOK(q)' /\ CompletesOK(q)'
  <2>1. CarriesOK(q) /\ CompletesOK(q) /\ net[q].at \in Nat /\ net[q].chunk \in Chunk \cup {0} /\ Len(file) \in Nat
        /\ client.recorded \in Nat /\ Size(client.recorded) \in Nat
    BY <1>2, RequestFields, Numbers DEF RequestOK
  <2>2. CarriesOK(q)'
    <3>1. SUFFICES ASSUME Carries(q)' PROVE CarriesOK(q)'  BY DEF CarriesOK
    <3>2. Carries(q) /\ net'[q].at = net[q].at /\ net'[q].chunk = net[q].chunk  BY <1>6, <3>1
    <3>3. Size(net[q].chunk - 1) \in Nat
      <4>1. net[q].chunk - 1 \in Nat  BY <2>1, <3>2, Constants DEF Chunk, Carries
      <4>2. QED  BY <4>1, Sizing
    <3>4. net[q].at <= Size(net[q].chunk - 1) + Slack'  BY <1>3, <2>1, <3>2, <3>3 DEF CarriesOK
    <3>5. net[q].at <= Len(file')  BY <1>1, <2>1, <3>2 DEF CarriesOK
    <3>6. QED  BY <1>1, <1>4, <2>1, <3>2, <3>4, <3>5 DEF CarriesOK
  <2>3. CompletesOK(q)'
    <3>1. SUFFICES ASSUME Completes(q)' PROVE CompletesOK(q)'  BY DEF CompletesOK
    <3>2. Completes(q) /\ net'[q].at = net[q].at  BY <1>6, <3>1
    <3>3. net[q].at <= Size(client.recorded) + Slack'  BY <1>3, <2>1, <3>2 DEF CompletesOK
    <3>4. QED  BY <1>1, <1>4, <1>6, <2>1, <3>2, <3>3 DEF CompletesOK
  <2>4. QED  BY <2>2, <2>3
<1>8. ASSUME NEW q \in Requests \ {s} PROVE RepliesOK(q)'
  <2>1. RepliesOK(q) /\ net'[q] = net[q] /\ net[q].at \in Nat /\ Len(file) \in Nat  BY <1>1, <1>2, Numbers DEF RequestOK
  <2>2. net[q].at <= Len(file) => net[q].at <= Len(file')  BY <1>1, <2>1
  <2>3. net[q].chunk # 0 /\ net[q].pc = "conflict" /\ net[q].at > client.offset => Len(file') = Len(file)  BY DEF NoNews
  <2>4. \A x \in Nat : x <= Size(Left(client)) + Slack => x <= Size(Left(client)) + Slack'
    BY <1>2, <1>3, Numbers
  <2>5. QED  BY <1>1, <2>1, <2>2, <2>3, <2>4 DEF RepliesOK
<1>9. QED  BY <1>5, <1>7, <1>8 DEF RequestOK

\* Which answer the page gets: the one to the request it waits for.
LEMMA Replying ==
    ASSUME ParametersOK, TypeOK, NEW s \in Requests, NEW code \in Replies, NEW at \in Sizes, Reply(s, code, at)
    PROVE  /\ net' \in [Requests -> Request] /\ \A q \in Requests \ {s} : net'[q] = net[q]
           /\ client.fetch = s => net'[s].pc = code /\ net'[s].chunk = net[s].chunk /\ net'[s].at = at
           /\ client.fetch # s => net'[s] = Free
           /\ net'[s].pc \notin {"sent", "loaded", "appended"}
<1> DEFINE r == [net[s] EXCEPT !.pc = code, !.at = at]
           x == IF client.fetch = s THEN r ELSE Free
<1>1. net \in [Requests -> Request] /\ net[s] \in Request  BY DEF TypeOK
<1>2. net' = [net EXCEPT ![s] = x]  BY DEF Reply
<1>3. r \in Request /\ r.pc = code /\ r.chunk = net[s].chunk /\ r.at = at  BY <1>1 DEF Request, Replies
<1> HIDE DEF r
<1>4. x \in Request  BY <1>3, FreeIs
<1>5. /\ client.fetch = s => x = r
      /\ client.fetch # s => x = Free
  OBVIOUS
<1> HIDE DEF x
<1>6. net' \in [Requests -> Request] /\ (\A q \in Requests \ {s} : net'[q] = net[q]) /\ net'[s] = x  BY <1>1, <1>2, <1>4
<1>7. QED  BY <1>3, <1>5, <1>6, FreeIs DEF Replies

LEMMA Waiting ==
    ASSUME Sensible(client), client.fetch # None
    PROVE  ~Closed /\ (client.finish = "confirming" \/ (client.pc = "wait" /\ ~Over))
<1>1. client.pc = "wait" \/ client.finish = "confirming"  BY DEF Sensible
<1>2. client.pc = "wait" => client.rec # "gone" /\ client.pc # "idle"  BY DEF Sensible
<1>3. client.finish = "confirming" => client.rec # "gone"
  <2>1. client.finish = "confirming" => client.rec = "inactive"  BY DEF Sensible
  <2>2. QED  BY <2>1
<1>4. QED  BY <1>1, <1>2, <1>3 DEF Closed, Over

\* The handler answers, or has loaded the answer, and leaves the file as it is.
LEMMA AnswersKeep ==
    ASSUME ParametersOK, IInv, NEW s \in Requests, client' = client, file' = file, losses' = losses, torn' = torn,
           answer'.status = answer.status, TypeOK',
           \A q \in Requests \ {s} : net'[q] = net[q],
           net'[s].pc \in {"sent", "loaded"} =>
              net[s].pc = "sent" /\ net'[s].chunk = net[s].chunk /\ net'[s].at = net[s].at,
           client.fetch = s => net'[s].pc # "free" /\ net'[s].chunk = net[s].chunk,
           client.fetch # s => net'[s].pc \notin Replies,
           net'[s].pc = "loaded" => answer.status = "recording",
           RepliesOK(s)'
    PROVE  IInv'
<1>1. TypeOK /\ OffsetOK /\ FileOK /\ Sensible(client)  BY DEF IInv, PageOK
<1>2. file \in Seq(Bytes) /\ Len(file) <= Len(file) /\ torn \in BOOLEAN  BY <1>1, Numbers DEF TypeOK
<1>3. ServerMoves(s) /\ NoNews  BY <1>2 DEF ServerMoves, NoNews, TypeOK
<1>4. /\ PageOK' /\ (\A q \in Requests \ {s} : RequestOK(q)')
      /\ CarriesOK(s)' /\ CompletesOK(s)'
  BY <1>3, ServerKeeps
<1>5. Closed' = Closed /\ Over' = Over /\ Slack' = Slack  BY DEF Closed, Over, Slack
<1>6. OffsetOK'  BY <1>1, <1>5 DEF OffsetOK
<1>7. FileOK'
  <2>1. answer.status = "uploaded" => \A q \in Requests : net'[q].pc = "loaded" => net'[q] = net[q]
    OBVIOUS
  <2>2. QED  BY <1>1, <1>5, <2>1 DEF FileOK
<1>8. QED  BY <1>4, <1>6, <1>7 DEF IInv, RequestOK

\* What holds of a chunk the handler has loaded.
LEMMA LoadedChunk ==
    ASSUME ParametersOK, IInv, NEW s \in Requests, net[s].pc = "loaded", net[s].chunk # 0
    PROVE  /\ net[s].chunk \in Chunk /\ net[s].chunk \in Nat /\ net[s].chunk - 1 \in Nat
           /\ Size(net[s].chunk - 1) \in Nat /\ Size(net[s].chunk) = Size(net[s].chunk - 1) + ChunkSize
           /\ Size(net[s].chunk) <= Size(client.recorded) /\ net[s].chunk <= client.recorded
           /\ Size(net[s].chunk - 1) <= net[s].at /\ net[s].at <= Size(net[s].chunk - 1) + Slack
           /\ net[s].at <= Len(file) /\ (~Closed => net[s].at <= client.offset)
           /\ client.fetch = s => net[s].at = client.offset
           /\ answer.status = "uploaded" => net[s].at < Len(file)
<1>1. TypeOK /\ CarriesOK(s) /\ FileOK /\ client.recorded \in Nat  BY Numbers DEF IInv, PageOK, RequestOK
<1>2. net[s].chunk \in Chunk /\ net[s].chunk \in Nat /\ net[s].chunk - 1 \in Nat
  BY <1>1, RequestFields, Constants DEF Chunk
<1>3. Size(net[s].chunk - 1) \in Nat /\ Size(net[s].chunk) = Size(net[s].chunk - 1) + ChunkSize
  <2> DEFINE m == net[s].chunk - 1
  <2>1. m \in Nat /\ net[s].chunk = m + 1  BY <1>2
  <2> HIDE DEF m
  <2>2. Size(m) \in Nat /\ Size(m + 1) = Size(m) + ChunkSize  BY <2>1, Sizing
  <2>3. QED  BY <2>1, <2>2 DEF m
<1>4. Carries(s)  BY DEF Carries
<1>5. Size(net[s].chunk) <= Size(client.recorded)  BY <1>1, <1>2, <1>4, Sizing DEF CarriesOK
<1>6. answer.status = "uploaded" => net[s].at < Len(file)  BY <1>1 DEF FileOK
<1>7. QED  BY <1>1, <1>2, <1>3, <1>4, <1>5, <1>6 DEF CarriesOK

\* Bytes join the file at its end, and the page has nothing else to hear about it.
LEMMA Growing ==
    ASSUME ParametersOK, IInv, NEW s \in Requests, net[s].pc = "loaded", net[s].chunk # 0, OffsetMatches(net[s].at)
    PROVE  /\ NoNews /\ answer.status = "recording"
           /\ ~Closed => client.offset = Len(file)
<1>1. /\ TypeOK /\ FetchOK /\ Sensible(client) /\ OffsetOK
      /\ Len(file) \in Nat /\ client.offset \in Nat /\ \A q \in Requests : net[q].at \in Nat
  BY Numbers DEF IInv, PageOK
<1>2. net[s].at = Len(file) /\ (~Closed => net[s].at <= client.offset)  BY LoadedChunk DEF OffsetMatches
<1>3. ~Closed => client.offset = Len(file)  BY <1>1, <1>2 DEF OffsetOK
<1>4. answer.status = "recording"
  <2>1. answer.status # "uploaded"
    <3>1. ~(Len(file) < Len(file))  BY <1>1
    <3>2. QED  BY <1>2, <3>1, LoadedChunk
  <2>2. answer.status \in {"recording", "uploaded"}  BY <1>1 DEF TypeOK
  <2>3. QED  BY <2>1, <2>2
<1>5. NoNews
  <2>1. SUFFICES ASSUME NEW q \in Requests, net[q].chunk # 0, net[q].pc = "conflict", net[q].at > client.offset
                 PROVE  FALSE
    BY DEF NoNews
  <2>2. client.fetch = q  BY <1>1, <2>1 DEF FetchOK, Replies
  <2>3. ~Closed
    <3>1. client.fetch # None  BY <2>2, Constants
    <3>2. QED  BY <1>1, <3>1, Waiting
  <2>4. RepliesOK(q)  BY DEF IInv, RequestOK
  <2>5. net[q].at <= Len(file)  BY <2>1, <2>4 DEF RepliesOK
  <2>6. QED  BY <1>1, <1>3, <2>1, <2>3, <2>5
<1>6. QED  BY <1>3, <1>4, <1>5

LEMMA SizesKept ==
    ASSUME ParametersOK, IInv, NEW n \in Nat, n <= Size(client.recorded) + Slack
    PROVE  n \in Sizes
<1>1. /\ TypeOK /\ Sensible(client)
  BY DEF IInv, PageOK
<1>2. QED  BY <1>1, Numbers

LEMMA LoadKeeps ==
    ASSUME ParametersOK, IInv, NEW s \in Requests, Load(s)
    PROVE  IInv'
<1>1. /\ net[s].pc = "sent" /\ client' = client /\ file' = file /\ losses' = losses /\ torn' = torn
      /\ answer' = answer
  BY DEF Load
<1>2. TypeOK /\ FetchOK /\ Sensible(client) /\ FileOK  BY DEF IInv, PageOK
<1>3. CASE answer.status = "recording"
  <2>1. net' = [net EXCEPT ![s].pc = "loaded"]  BY <1>3 DEF Load
  <2>2. /\ net' \in [Requests -> Request] /\ \A q \in Requests \ {s} : net'[q] = net[q]
        /\ net'[s].pc = "loaded" /\ net'[s].chunk = net[s].chunk /\ net'[s].at = net[s].at
    <3> DEFINE r == [net[s] EXCEPT !.pc = "loaded"]
    <3>1. net \in [Requests -> Request] /\ net[s] \in Request  BY <1>2 DEF TypeOK
    <3>2. r \in Request /\ r.pc = "loaded" /\ r.chunk = net[s].chunk /\ r.at = net[s].at  BY <3>1 DEF Request
    <3>3. net' = [net EXCEPT ![s] = r]  BY <2>1
    <3> HIDE DEF r
    <3>4. QED  BY <3>1, <3>2, <3>3
  <2>3. TypeOK'  BY <1>1, <1>2, <2>2 DEF TypeOK
  <2>4. RepliesOK(s)'  BY <2>2 DEF RepliesOK
  <2>5. QED  BY <1>1, <1>3, <2>2, <2>3, <2>4, AnswersKeep DEF Replies
<1>4. CASE answer.status = "uploaded"
  <2> DEFINE code == IF net[s].chunk = 0 THEN "ok" ELSE "conflict"
  <2>1. Reply(s, code, 0)  BY <1>4 DEF Load
  <2>2. code \in Replies /\ 0 \in Sizes
    <3>1. Size(Chunks) \in Nat /\ ChunkSize \in Nat  BY Constants, Sizing
    <3>2. 0 \in Sizes  BY <3>1, Sizing
    <3>3. QED  BY <3>2 DEF Replies
  <2> HIDE DEF code
  <2>3. /\ net' \in [Requests -> Request] /\ \A q \in Requests \ {s} : net'[q] = net[q]
        /\ client.fetch = s => net'[s].pc = code /\ net'[s].chunk = net[s].chunk /\ net'[s].at = 0
        /\ client.fetch # s => net'[s] = Free
        /\ net'[s].pc \notin {"sent", "loaded", "appended"}
    BY <1>2, <2>1, <2>2, Replying
  <2>4. TypeOK'  BY <1>1, <1>2, <2>3 DEF TypeOK
  <2>5. client.fetch = s => net[s].chunk = 0
    <3>1. SUFFICES ASSUME client.fetch = s PROVE net[s].chunk = 0  OBVIOUS
    <3>2. client.finish = "confirming" \/ ~Over
      <4>1. client.fetch # None  BY <3>1, Constants
      <4>2. QED  BY <1>2, <4>1, Waiting
    <3>3. Over  BY <1>2, <1>4 DEF FileOK
    <3>4. QED  BY <1>2, <3>1, <3>2, <3>3 DEF FetchOK
  <2>6. RepliesOK(s)'  BY <2>3, <2>5, FreeIs DEF RepliesOK
  <2>7. /\ client.fetch = s => net'[s].pc # "free" /\ net'[s].chunk = net[s].chunk
        /\ client.fetch # s => net'[s].pc \notin Replies
    BY <2>2, <2>3, FreeIs DEF Replies
  <2>8. QED  BY <1>1, <2>3, <2>4, <2>6, <2>7, AnswersKeep
<1>5. QED  BY <1>2, <1>3, <1>4 DEF TypeOK

\* The handler of s answers: what it says of a chunk has to be true.
LEMMA RepliesKeep ==
    ASSUME ParametersOK, IInv, NEW s \in Requests, NEW code \in Replies, NEW at \in Sizes, Reply(s, code, at),
           client' = client, file' = file, losses' = losses, torn' = torn,
           answer'.status = answer.status, answer' \in [status: {"recording", "uploaded"}, media_size: Sizes],
           net[s].chunk # 0 /\ client.fetch = s /\ code = "ok" => at <= Len(file) /\ at = client.offset + ChunkSize,
           net[s].chunk # 0 /\ client.fetch = s /\ code = "conflict" => at = Len(file)
    PROVE  IInv'
<1>1. TypeOK /\ FetchOK /\ Sensible(client) /\ OffsetOK /\ Len(file) \in Nat  BY Numbers DEF IInv, PageOK
<1>2. /\ net' \in [Requests -> Request] /\ \A q \in Requests \ {s} : net'[q] = net[q]
      /\ client.fetch = s => net'[s].pc = code /\ net'[s].chunk = net[s].chunk /\ net'[s].at = at
      /\ client.fetch # s => net'[s] = Free
      /\ net'[s].pc \notin {"sent", "loaded", "appended"}
  BY <1>1, Replying
<1>3. TypeOK'  BY <1>1, <1>2 DEF TypeOK
<1>4. RepliesOK(s)'
  <2>1. CASE client.fetch # s  BY <1>2, <2>1, FreeIs DEF RepliesOK
  <2>2. CASE client.fetch = s
    <3>1. ~Closed
      <4>1. client.fetch # None  BY <2>2, Constants
      <4>2. QED  BY <1>1, <4>1, Waiting
    <3>2. Slack' = Slack  BY DEF Slack
    <3>3. /\ client.offset <= Len(file) /\ Len(file) <= Len(file)
          /\ Len(file) < client.offset + ChunkSize => Len(file) <= Size(Left(client)) + Slack
      BY <1>1, <3>1 DEF OffsetOK
    <3>4. QED  BY <1>2, <2>2, <3>2, <3>3 DEF RepliesOK
  <2>3. QED  BY <2>1, <2>2
<1>5. /\ client.fetch = s => net'[s].pc # "free" /\ net'[s].chunk = net[s].chunk
      /\ client.fetch # s => net'[s].pc \notin Replies
  BY <1>2, FreeIs DEF Replies
<1>6. QED  BY <1>2, <1>3, <1>4, <1>5, AnswersKeep

LEMMA AppendKeeps ==
    ASSUME ParametersOK, IInv, NEW s \in Requests, append(s)
    PROVE  IInv'
<1>1. /\ net[s].pc = "loaded" /\ net[s].chunk # 0
      /\ client' = client /\ answer' = answer /\ losses' = losses /\ torn' = torn
  BY DEF append
<1>2. /\ TypeOK /\ FetchOK /\ Sensible(client) /\ OffsetOK /\ FileOK /\ Len(file) \in Nat
      /\ client.recorded \in Nat /\ ChunkSize \in Nat \ {0} /\ Slack \in Nat /\ Slack' = Slack
      /\ Size(client.recorded) \in Nat /\ client.recorded \in 0 .. Chunks /\ Closed' = Closed
  BY <1>1, Numbers DEF IInv, PageOK, Slack, Closed
<1>3. CASE ~OffsetMatches(net[s].at)
  <2>1. Reply(s, "conflict", Len(file)) /\ file' = file  BY <1>3 DEF append
  <2>2. Len(file) \in Sizes  BY <1>2, SizesKept DEF FileOK
  <2>3. "conflict" \in Replies /\ "conflict" # "ok" /\ answer' \in [status: {"recording", "uploaded"}, media_size: Sizes]
    BY <1>1, <1>2 DEF Replies, TypeOK
  <2>4. QED  BY <1>1, <2>1, <2>2, <2>3, RepliesKeep
<1>4. CASE OffsetMatches(net[s].at)
  <2> DEFINE k == net[s].chunk
             r == [net[s] EXCEPT !.pc = "appended", !.at = Len(file')]
  <2>1. file' = file \o Body(k) /\ net' = [net EXCEPT ![s].pc = "appended", ![s].at = Len(file')]
    BY <1>4 DEF append
  <2>2. /\ k \in Chunk /\ k \in Nat /\ k - 1 \in Nat /\ Size(k - 1) \in Nat /\ Size(k) = Size(k - 1) + ChunkSize
        /\ Size(k) <= Size(client.recorded) /\ k <= client.recorded
        /\ Size(k - 1) <= Len(file) /\ Len(file) <= Size(k - 1) + Slack
        /\ client.fetch = s => Len(file) = client.offset
    BY <1>1, <1>4, LoadedChunk DEF OffsetMatches
  <2>3. NoNews /\ answer.status = "recording" /\ (~Closed => client.offset = Len(file))  BY <1>1, <1>4, Growing
  <2>4. file' \in Seq(Bytes) /\ Len(file') = Len(file) + ChunkSize
    <3>1. file \in Seq(Bytes) /\ Body(k) \in Seq(Bytes) /\ Len(Body(k)) = ChunkSize  BY <1>2, <2>2, Numbers, BodyIs
    <3> HIDE DEF k
    <3>2. QED  BY <2>1, <3>1, Joined
  <2>5. Len(file') <= Size(client.recorded) + Slack /\ Len(file) <= Len(file') /\ Len(file') \in Nat
    BY <1>2, <2>2, <2>4
  <2>6. Len(file') \in Sizes  BY <2>5, SizesKept
  <2>7. /\ net' \in [Requests -> Request] /\ \A q \in Requests \ {s} : net'[q] = net[q]
        /\ net'[s].pc = "appended" /\ net'[s].chunk = k /\ net'[s].at = Len(file')
    <3>1. net \in [Requests -> Request] /\ net[s] \in Request  BY <1>2 DEF TypeOK
    <3>2. r \in Request /\ r.pc = "appended" /\ r.chunk = k /\ r.at = Len(file')  BY <2>6, <3>1 DEF Request
    <3>3. net' = [net EXCEPT ![s] = r]  BY <2>1, <3>1
    <3> HIDE DEF r, k
    <3>4. QED  BY <3>1, <3>2, <3>3
  <2>8. TypeOK'  BY <1>1, <1>2, <2>4, <2>7 DEF TypeOK, Bytes
  <2>9. ServerMoves(s)  BY <1>1, <1>2, <2>4, <2>5, <2>7 DEF ServerMoves, Replies, TypeOK
  <2>10. /\ PageOK' /\ (\A q \in Requests \ {s} : RequestOK(q)')
         /\ CarriesOK(s)' /\ CompletesOK(s)'
    BY <2>3, <2>9, ServerKeeps
  <2>11. RepliesOK(s)'
    <3>1. Len(file') <= Len(file')  BY <2>5
    <3>2. QED  BY <1>1, <2>2, <2>4, <2>7, <3>1 DEF RepliesOK
  <2>12. OffsetOK'
    <3>1. SUFFICES ASSUME ~Closed
                   PROVE  /\ Size(Left(client)) <= client.offset /\ client.offset <= Size(Left(client)) + Slack
                          /\ client.offset <= Len(file') /\ Len(file') <= client.offset + ChunkSize
                          /\ ~(Len(file') < client.offset + ChunkSize)
      BY <1>1, <1>2 DEF OffsetOK
    <3>2. Size(Left(client)) <= client.offset /\ client.offset <= Size(Left(client)) + Slack /\ client.offset = Len(file)
      BY <1>2, <2>3, <3>1 DEF OffsetOK
    <3>3. QED  BY <1>2, <2>4, <3>2
  <2>13. FileOK'
    <3>1. ~torn => file' = Whole(k)
      <4>1. SUFFICES ASSUME ~torn PROVE file' = Whole(k)  OBVIOUS
      <4>2. Slack = 0  BY <4>1, Sizing
      <4>3. PICK n \in 0 .. client.recorded : file = Whole(n)  BY <1>2, <4>1 DEF FileOK
      <4>4. n \in 0 .. Chunks /\ n \in Nat /\ Size(n) \in Nat
        <5>1. n \in 0 .. Chunks /\ n \in Nat  BY <1>2, <4>3, Constants
        <5>2. QED  BY <5>1, Sizing
      <4>5. Len(file) = Size(n)  BY <4>3, <4>4, WholeIs
      <4>6. n = k - 1
        <5> DEFINE m == k - 1
        <5>1. m \in Nat /\ Size(m) = Size(n)  BY <1>2, <2>2, <4>2, <4>4, <4>5
        <5> HIDE DEF m
        <5>2. ~(m < n)
          <6>1. SUFFICES ASSUME m < n PROVE FALSE  OBVIOUS
          <6>2. Size(m) + ChunkSize <= Size(n)  BY <4>4, <5>1, <6>1, Sizing
          <6>3. QED  BY <1>2, <4>4, <5>1, <6>2
        <5>3. ~(n < m)
          <6>1. SUFFICES ASSUME n < m PROVE FALSE  OBVIOUS
          <6>2. Size(n) + ChunkSize <= Size(m)  BY <4>4, <5>1, <6>1, Sizing
          <6>3. QED  BY <1>2, <4>4, <5>1, <6>2
        <5>4. n = m  BY <4>4, <5>1, <5>2, <5>3
        <5>5. QED  BY <5>4 DEF m
      <4>7. file' = Whole(k - 1) \o Body(k)  BY <2>1, <4>3, <4>6
      <4>8. QED  BY <2>2, <4>7, NextChunk
    <3>2. k \in 0 .. client.recorded  BY <1>2, <2>2
    <3> HIDE DEF k
    <3>3. QED  BY <1>1, <1>2, <2>3, <2>5, <3>1, <3>2 DEF FileOK
  <2>14. QED  BY <2>8, <2>10, <2>11, <2>12, <2>13 DEF IInv, RequestOK
<1>5. QED  BY <1>3, <1>4

LEMMA ShortWriteKeeps ==
    ASSUME ParametersOK, IInv, NEW s \in Requests, ShortWrite(s)
    PROVE  IInv'
<1>1. /\ net[s].pc = "loaded" /\ net[s].chunk # 0 /\ OffsetMatches(net[s].at) /\ ~torn /\ torn'
      /\ torn' = TRUE /\ client' = client /\ answer' = answer /\ losses' = losses /\ Reply(s, "error", 0)
  BY DEF ShortWrite
<1>2. /\ TypeOK /\ FetchOK /\ Sensible(client) /\ OffsetOK /\ FileOK /\ Len(file) \in Nat
      /\ ChunkSize \in Nat \ {0} /\ Slack = 0 /\ Size(client.recorded) \in Nat
      /\ Size(Left(client)) \in Nat /\ client.offset \in Nat
  BY <1>1, Numbers DEF IInv, PageOK
<1>3. Slack' = ChunkSize - 1 /\ Closed' = Closed  BY <1>1 DEF Slack, Closed
<1>4. PICK n \in 1 .. ChunkSize - 1 : file' = file \o SubSeq(Body(net[s].chunk), 1, n)  BY DEF ShortWrite
<1>5. file' \in Seq(Bytes) /\ Len(file') = Len(file) + n
  <2> DEFINE t == SubSeq(Body(net[s].chunk), 1, n)
  <2>1. Body(net[s].chunk) \in Seq(Bytes) /\ Len(Body(net[s].chunk)) = ChunkSize  BY <1>1, LoadedChunk, BodyIs
  <2>2. t \in Seq(Bytes) /\ Len(t) = n  BY <1>2, <2>1
  <2>3. file' = file \o t /\ file \in Seq(Bytes)  BY <1>2, <1>4, Numbers
  <2> HIDE DEF t
  <2>4. QED  BY <2>2, <2>3, Joined
<1>6. NoNews /\ answer.status = "recording" /\ (~Closed => client.offset = Len(file))  BY <1>1, Growing
<1>7. 0 \in Sizes /\ "error" \in Replies  BY <1>2, Numbers DEF Replies
<1>8. /\ net' \in [Requests -> Request] /\ \A q \in Requests \ {s} : net'[q] = net[q]
      /\ client.fetch = s => net'[s].pc = "error" /\ net'[s].chunk = net[s].chunk /\ net'[s].at = 0
      /\ client.fetch # s => net'[s] = Free
      /\ net'[s].pc \notin {"sent", "loaded", "appended"}
  BY <1>1, <1>2, <1>7, Replying
<1>9. TypeOK'  BY <1>1, <1>2, <1>5, <1>8 DEF TypeOK, Bytes
<1>10. ServerMoves(s)
  <2>1. /\ client.fetch = s => net'[s].pc # "free" /\ net'[s].chunk = net[s].chunk
        /\ client.fetch # s => net'[s].pc \notin Replies
    BY <1>8, FreeIs DEF Replies
  <2>2. Len(file) <= Len(file')  BY <1>2, <1>5
  <2>3. QED  BY <1>1, <1>5, <1>8, <2>1, <2>2 DEF ServerMoves
<1>11. /\ PageOK' /\ (\A q \in Requests \ {s} : RequestOK(q)')
       /\ CarriesOK(s)' /\ CompletesOK(s)'
  BY <1>6, <1>10, ServerKeeps
<1>12. RepliesOK(s)'  BY <1>1, <1>8, FreeIs DEF RepliesOK
<1>13. OffsetOK'
  <2>1. SUFFICES ASSUME ~Closed
                 PROVE  /\ Size(Left(client)) <= client.offset /\ client.offset <= Size(Left(client)) + Slack'
                        /\ client.offset <= Len(file') /\ Len(file') <= client.offset + ChunkSize
                        /\ Len(file') <= Size(Left(client)) + Slack'
    BY <1>1, <1>3 DEF OffsetOK
  <2>2. client.offset = Len(file) /\ Size(Left(client)) <= client.offset /\ client.offset <= Size(Left(client)) + Slack
    BY <1>2, <1>6, <2>1 DEF OffsetOK
  <2>3. QED  BY <1>2, <1>3, <1>5, <2>2
<1>14. FileOK'
  <2>1. Len(file) <= Size(client.recorded) + Slack  BY <1>2 DEF FileOK
  <2>2. Len(file') <= Size(client.recorded) + Slack'  BY <1>2, <1>3, <1>5, <2>1
  <2>3. QED  BY <1>1, <1>6, <2>2 DEF FileOK
<1>15. QED  BY <1>9, <1>11, <1>12, <1>13, <1>14 DEF IInv, RequestOK

LEMMA CommitKeeps ==
    ASSUME ParametersOK, IInv, NEW s \in Requests, append_chunk(s)
    PROVE  IInv'
<1>1. /\ net[s].pc = "appended" /\ answer' = [answer EXCEPT !.media_size = net[s].at] /\ Reply(s, "ok", net[s].at)
      /\ client' = client /\ file' = file /\ losses' = losses /\ torn' = torn
  BY DEF append_chunk
<1>2. TypeOK /\ RepliesOK(s) /\ net[s].at \in Sizes  BY RequestFields DEF IInv, RequestOK
<1>3. answer'.status = answer.status /\ answer' \in [status: {"recording", "uploaded"}, media_size: Sizes]
  BY <1>1, <1>2 DEF TypeOK
<1>4. "ok" \in Replies /\ "ok" # "conflict"  BY DEF Replies
<1>5. net[s].at <= Len(file) /\ (client.fetch = s => net[s].at = client.offset + ChunkSize)  BY <1>1, <1>2 DEF RepliesOK
<1> DEFINE at == net[s].at
<1>6. at \in Sizes /\ Reply(s, "ok", at) /\ at <= Len(file) /\ (client.fetch = s => at = client.offset + ChunkSize)
  BY <1>1, <1>2, <1>5
<1> HIDE DEF at
<1>7. QED  BY <1>1, <1>3, <1>4, <1>6, RepliesKeep

LEMMA CompletionKeeps ==
    ASSUME ParametersOK, IInv, NEW s \in Requests, complete_answer(s)
    PROVE  IInv'
<1>1. /\ net[s].pc = "loaded" /\ net[s].chunk = 0
      /\ client' = client /\ file' = file /\ losses' = losses /\ torn' = torn
  BY DEF complete_answer
<1>2. /\ TypeOK /\ FetchOK /\ Sensible(client) /\ OffsetOK /\ FileOK /\ CompletesOK(s) /\ Len(file) \in Nat
      /\ client.recorded \in Nat /\ client.recorded \in 0 .. Chunks /\ Size(client.recorded) \in Nat
      /\ \A q \in Requests : net[q].at \in Nat
      /\ ChunkSize \in Nat \ {0}
  BY Numbers DEF IInv, PageOK, RequestOK
<1>3. 0 \in Sizes /\ Len(file) \in Sizes /\ {"ok", "error"} \subseteq Replies
  <2>1. Len(file) <= Size(client.recorded) + Slack  BY <1>2 DEF FileOK
  <2>2. Len(file) \in Sizes  BY <1>2, <2>1, SizesKept
  <2>3. QED  BY <1>2, <2>2, Numbers DEF Replies
<1>4. CASE ~(Len(file) > 0 /\ SizeMatches(net[s].at))
  <2>1. Reply(s, "error", 0) /\ answer' = answer  BY <1>4 DEF complete_answer
  <2>2. "error" # "ok" /\ "error" # "conflict" /\ answer' \in [status: {"recording", "uploaded"}, media_size: Sizes]
    BY <1>2, <2>1 DEF TypeOK
  <2>3. QED  BY <1>1, <1>3, <2>1, <2>2, RepliesKeep
<1>5. CASE Len(file) > 0 /\ SizeMatches(net[s].at)
  <2>1. answer' = [status |-> "uploaded", media_size |-> Len(file)] /\ Reply(s, "ok", Len(file))
    BY <1>5 DEF complete_answer
  <2>2. /\ net' \in [Requests -> Request] /\ \A q \in Requests \ {s} : net'[q] = net[q]
        /\ client.fetch = s => net'[s].pc = "ok" /\ net'[s].chunk = net[s].chunk /\ net'[s].at = Len(file)
        /\ client.fetch # s => net'[s] = Free
        /\ net'[s].pc \notin {"sent", "loaded", "appended"}
    BY <1>2, <1>3, <2>1, Replying
  <2>3. TypeOK'  BY <1>1, <1>2, <1>3, <2>1, <2>2 DEF TypeOK
  <2>4. ServerMoves(s) /\ NoNews
    <3>1. /\ client.fetch = s => net'[s].pc # "free" /\ net'[s].chunk = net[s].chunk
          /\ client.fetch # s => net'[s].pc \notin Replies
      BY <2>2, FreeIs DEF Replies
    <3>2. Len(file) <= Len(file') /\ file' \in Seq(Bytes) /\ torn' \in BOOLEAN  BY <1>1, <1>2, Numbers DEF TypeOK
    <3>3. QED  BY <1>1, <2>2, <3>1, <3>2 DEF ServerMoves, NoNews
  <2>5. /\ PageOK' /\ (\A q \in Requests \ {s} : RequestOK(q)')
        /\ CarriesOK(s)' /\ CompletesOK(s)'
    BY <2>4, ServerKeeps
  <2>6. RepliesOK(s)'  BY <1>1, <2>2, FreeIs DEF RepliesOK
  <2>7. Slack' = Slack /\ Closed' = Closed /\ Over' = Over  BY <1>1 DEF Slack, Closed, Over
  <2>8. OffsetOK'  BY <1>1, <1>2, <2>7 DEF OffsetOK
  <2>9. /\ Over /\ \A q \in Requests : Carries(q) => net[q].at < net[s].at
        /\ Size(client.recorded) <= net[s].at
    BY <1>1, <1>2 DEF CompletesOK, Completes
  <2>10. net[s].at = 0 \/ net[s].at = Len(file)  BY <1>5 DEF SizeMatches
  <2>11. \A q \in Requests : net'[q].pc = "loaded" /\ net'[q].chunk # 0 => net'[q].at < Len(file)
    <3>1. SUFFICES ASSUME NEW q \in Requests, net'[q].pc = "loaded", net'[q].chunk # 0 PROVE net'[q].at < Len(file)
      OBVIOUS
    <3>2. net'[q] = net[q]  BY <2>2, <3>1
    <3>3. net[q].at < net[s].at  BY <2>9, <3>1, <3>2 DEF Carries
    <3>4. QED  BY <1>2, <2>10, <3>2, <3>3
  <2>12. ~torn => file = Whole(client.recorded)
    <3>1. SUFFICES ASSUME ~torn PROVE file = Whole(client.recorded)  OBVIOUS
    <3>2. Slack = 0  BY <3>1, Sizing
    <3>3. PICK n \in 0 .. client.recorded : file = Whole(n)  BY <1>2, <3>1 DEF FileOK
    <3>4. n \in 0 .. Chunks /\ n \in Nat  BY <1>2, Constants, <3>3
    <3>5. Len(file) = Size(n) /\ Size(n) \in Nat  BY <3>3, <3>4, WholeIs, Sizing
    <3>6. Len(file) <= Size(client.recorded)  BY <1>2, <3>2 DEF FileOK
    <3>7. Size(client.recorded) <= Len(file)  BY <1>2, <1>5, <2>9, <2>10, <3>6
    <3>8. ~(n < client.recorded)
      <4>1. SUFFICES ASSUME n < client.recorded PROVE FALSE  OBVIOUS
      <4>2. Size(n) + ChunkSize <= Size(client.recorded)  BY <1>2, <3>4, <4>1, Sizing
      <4>3. QED  BY <1>2, <3>5, <3>7, <4>2
    <3>9. n = client.recorded  BY <1>2, <3>3, <3>4, <3>8
    <3>10. QED  BY <3>3, <3>9
  <2>13. FileOK'
    <3>1. FileOK  BY <1>2
    <3>2. QED  BY <1>1, <2>7, <2>9, <2>11, <2>12, <3>1 DEF FileOK
  <2>14. QED  BY <2>3, <2>5, <2>6, <2>8, <2>13 DEF IInv, RequestOK
<1>6. QED  BY <1>4, <1>5

LEMMA VanishKeeps ==
    ASSUME ParametersOK, IInv, NEW s \in Requests, Vanish(s)
    PROVE  IInv'
<1>1. /\ client.fetch # s /\ net' = [net EXCEPT ![s] = Free]
      /\ client' = client /\ answer' = answer /\ file' = file /\ losses' = losses /\ torn' = torn
  BY DEF Vanish
<1>2. TypeOK  BY DEF IInv
<1>3. /\ net' \in [Requests -> Request] /\ \A q \in Requests \ {s} : net'[q] = net[q]
      /\ net'[s] = Free
  <2>1. net \in [Requests -> Request] /\ Free \in Request  BY <1>2, FreeIs DEF TypeOK
  <2>2. QED  BY <1>1, <2>1
<1>4. TypeOK'  BY <1>1, <1>2, <1>3 DEF TypeOK
<1>5. RepliesOK(s)'  BY <1>3, FreeIs DEF RepliesOK
<1>6. QED  BY <1>1, <1>3, <1>4, <1>5, FreeIs, AnswersKeep DEF Replies
-----------------------------------------------------------------------------
(* The theorems. *)

LEMMA Start ==
    ASSUME ParametersOK, Init
    PROVE  IInv
<1>1. /\ client = Started /\ net = [s \in Requests |-> Free] /\ file = <<>> /\ losses = 0 /\ torn = FALSE
      /\ answer = [status |-> "recording", media_size |-> 0]
  BY DEF Init
<1>2. /\ Chunks \in Nat \ {0} /\ MaxTries \in Nat /\ MaxLosses \in Nat /\ ChunkSize \in Nat \ {0} /\ Size(Chunks) \in Nat
      /\ Sizes = 0 .. Size(Chunks) + ChunkSize /\ Size(0) = 0 /\ Slack = 0
  <2>1. Chunks \in Nat \ {0} /\ MaxTries \in Nat /\ MaxLosses \in Nat /\ ChunkSize \in Nat \ {0}  BY Constants
  <2>2. QED  BY <1>1, <2>1, Sizing
<1>3. 0 \in Sizes /\ 0 \in 0 .. MaxTries /\ 0 \in 0 .. Chunks /\ 0 \in 0 .. MaxLosses /\ <<>> \in Seq(Chunk) /\ 0 < Chunks
  BY <1>2
<1>4. /\ client \in Client /\ client.rec = "on" /\ client.recorded = 0 /\ client.queue = <<>> /\ client.pc = "idle"
      /\ client.fetch = None /\ client.offset = 0 /\ client.finish = "no"
  BY <1>1, <1>3 DEF Started, Client
<1>5. net \in [Requests -> Request] /\ \A s \in Requests : net[s] = Free  BY <1>1, FreeIs
<1>6. TypeOK
  <2>1. answer \in [status: {"recording", "uploaded"}, media_size: Sizes]  BY <1>1, <1>3
  <2>2. file \in Seq(Chunk \X (1 .. ChunkSize))  BY <1>1
  <2>3. losses \in 0 .. MaxLosses /\ torn \in BOOLEAN  BY <1>1, <1>3
  <2>4. QED  BY <1>4, <1>5, <2>1, <2>2, <2>3 DEF TypeOK
<1>7. Sensible(client)
  <2>1. Len(<<>>) = 0 /\ 0 <= 0 /\ \A i \in 1 .. 0 : FALSE  OBVIOUS
  <2>2. QED  BY <1>3, <1>4, <2>1 DEF Sensible
<1>8. FetchOK  BY <1>4, <1>5, FreeIs, Constants DEF FetchOK, Replies
<1>9. OffsetOK
  <2>1. Len(<<>>) = 0  OBVIOUS
  <2>2. Len(client.queue) = 0 /\ Len(file) = 0  BY <1>1, <1>4, <2>1
  <2>3. Left(client) = 0 - 0  BY <1>4, <2>2 DEF Left
  <2>4. Left(client) = 0  BY <2>3
  <2>5. QED  BY <1>2, <1>4, <2>2, <2>4 DEF OffsetOK
<1>10. \A s \in Requests : RequestOK(s)
  BY <1>5, FreeIs DEF RequestOK, CarriesOK, Carries, CompletesOK, Completes, RepliesOK
<1>11. FileOK
  <2>1. file = Whole(0)
    <3>1. 0 \in 0 .. Chunks  BY <1>3
    <3>2. Whole(0) \in Seq(Bytes) /\ Len(Whole(0)) = 0  BY <1>2, <3>1, WholeIs
    <3>3. QED  BY <1>1, <3>2
  <2>2. Len(file) = 0  BY <1>1
  <2>3. QED  BY <1>1, <1>2, <1>4, <2>1, <2>2 DEF FileOK
<1>12. QED  BY <1>6, <1>7, <1>8, <1>9, <1>10, <1>11 DEF IInv, PageOK

LEMMA Step ==
    ASSUME ParametersOK, IInv, [Next]_vars
    PROVE  IInv'
<1>1. Page  BY DEF IInv, PageOK, TypeOK, Page
<1>2. CASE Record \/ StreamEnds \/ finish  BY <1>1, <1>2, Recording, MovesKeep
<1>3. CASE Reload  BY <1>3, ReloadKeeps
<1>4. CASE Paged
  <2>1. PICK s \in Requests : uploadChunk(s) \/ completeAnswer(s) \/ sendWithRetry(s)  BY <1>4 DEF Paged
  <2>2. CASE uploadChunk(s) \/ completeAnswer(s)
    <3>1. TypeOK /\ Sensible(client)  BY DEF IInv, PageOK
    <3>2. QED  BY <2>2, <3>1, Sending, SendsKeep
  <2>3. CASE sendWithRetry(s)  BY <2>3, Waking, WakesKeep
  <2>4. QED  BY <2>1, <2>2, <2>3
<1>5. ASSUME NEW s \in Requests, Handled(s) \/ ShortWrite(s) \/ RequestFails(s) \/ Vanish(s)
      PROVE  IInv'
  <2>1. CASE Handled(s)
    BY <2>1, LoadKeeps, AppendKeeps, CommitKeeps, CompletionKeeps DEF Handled
  <2>2. CASE ShortWrite(s)  BY <2>2, ShortWriteKeeps
  <2>3. CASE RequestFails(s)  BY <2>3, Waking, WakesKeep
  <2>4. CASE Vanish(s)  BY <2>4, VanishKeeps
  <2>5. QED  BY <1>5, <2>1, <2>2, <2>3, <2>4
<1>6. CASE UNCHANGED vars
  BY <1>6 DEF vars, IInv, TypeOK, PageOK, Sensible, FetchOK, OffsetOK, RequestOK, CarriesOK, CompletesOK, RepliesOK,
              FileOK, Carries, Completes, Over, Closed, Slack, Left
<1>7. QED  BY <1>2, <1>3, <1>4, <1>5, <1>6 DEF Next

LEMMA Safe ==
    ASSUME ParametersOK, IInv
    PROVE  RecordingIsKept
<1>1. TypeOK /\ Sensible(client) /\ OffsetOK /\ FileOK  BY DEF IInv, PageOK
<1>2. FileIsPrefix
  <2>1. SUFFICES ASSUME ~torn PROVE IsPrefix(file, Whole(client.recorded))  BY DEF FileIsPrefix
  <2>2. PICK n \in 0 .. client.recorded : file = Whole(n)  BY <1>1, <2>1 DEF FileOK
  <2>3. client.recorded \in 0 .. Chunks  BY <1>1, Numbers
  <2>4. QED  BY <2>2, <2>3, PrefixOfWhole
<1>3. CompletedIsWhole  BY <1>1 DEF FileOK, CompletedIsWhole
<1>4. KeptUntilStored
  <2>1. ~Closed => Size(Left(client)) <= client.offset /\ client.offset <= Len(file)  BY <1>1 DEF OffsetOK
  <2>2. Size(Left(client)) \in Nat /\ client.offset \in Nat /\ Len(file) \in Nat  BY <1>1, Numbers
  <2>3. ~Closed => Len(file) >= Size(Left(client))  BY <2>1, <2>2
  <2>4. QED  BY <2>3 DEF KeptUntilStored, Closed, Size, Left
<1>5. QED  BY <1>1, <1>2, <1>3, <1>4 DEF RecordingIsKept, FileIsRecording

\* Whatever is lost, repeated, late or cut off: as long as no write ends half-way, the file is the beginning
\* of the recording and an uploaded answer the whole of it; and a chunk leaves the memory of an open page
\* only when the file has it.
THEOREM RecordingStaysKept ==
    ASSUME ParametersOK
    PROVE  Spec => []RecordingIsKept
<1>1. Init => IInv  BY Start
<1>2. IInv /\ [Next]_vars => IInv'  BY Step
<1>3. IInv => RecordingIsKept  BY Safe
<1>4. QED  BY <1>1, <1>2, <1>3, PTL DEF Spec

LEMMA FileFrozen ==
    ASSUME ParametersOK, IInv, Next, answer.status = "uploaded"
    PROVE  file' = file
<1>1. ASSUME NEW s \in Requests, append(s) \/ ShortWrite(s), net[s].pc = "loaded", net[s].chunk # 0 PROVE file' = file
  <2>1. "recording" # "uploaded"  OBVIOUS
  <2>2. ~OffsetMatches(net[s].at)  BY <1>1, <2>1, Growing
  <2>3. QED  BY <1>1, <2>2 DEF append, ShortWrite
<1>2. ASSUME NEW s \in Requests, Handled(s) \/ ShortWrite(s) \/ RequestFails(s) \/ Vanish(s) PROVE file' = file
  <2>1. CASE append(s) \/ ShortWrite(s)  BY <1>1, <2>1 DEF append, ShortWrite
  <2>2. CASE Load(s) \/ append_chunk(s) \/ complete_answer(s) \/ RequestFails(s) \/ Vanish(s)
    BY <2>2 DEF Load, append_chunk, complete_answer, RequestFails, Vanish
  <2>3. QED  BY <1>2, <2>1, <2>2 DEF Handled
<1>3. CASE Record \/ StreamEnds \/ finish \/ Reload \/ Paged
  BY <1>3 DEF Record, StreamEnds, finish, Reload, Paged, uploadChunk, completeAnswer, sendWithRetry
<1>4. QED  BY <1>2, <1>3 DEF Next

\* The file of a finished answer takes no byte more, though the status is read before the append waits
\* for its turn, and also when a write has ended half-way.
THEOREM UploadedStaysFrozen ==
    ASSUME ParametersOK
    PROVE  Spec => UploadedIsFrozen
<1> DEFINE Frozen == answer.status = "uploaded" => file' = file
<1>1. Init => IInv  BY Start
<1>2. IInv /\ [Next]_vars => IInv'  BY Step
<1>3. IInv /\ [Next]_vars => [Frozen]_vars  BY FileFrozen
<1>4. QED  BY <1>1, <1>2, <1>3, PTL DEF Spec, UploadedIsFrozen
-----------------------------------------------------------------------------
(* Counting. *)

LEMMA Fewer ==
    ASSUME NEW X, IsFiniteSet(X), NEW Y, NEW n
    PROVE  /\ Cardinality(X) \in Nat
           /\ Y \subseteq X =>
                IsFiniteSet(Y) /\ Cardinality(Y) \in Nat /\ Cardinality(Y) <= Cardinality(X)
           /\ Y \subseteq X \cup {n} =>
                IsFiniteSet(Y) /\ Cardinality(Y) \in Nat /\ Cardinality(Y) <= Cardinality(X) + 1
           /\ n \in X /\ Y \subseteq X \ {n} =>
                IsFiniteSet(Y) /\ Cardinality(Y) \in Nat /\ Cardinality(Y) + 1 <= Cardinality(X)
<1>1. Cardinality(X) \in Nat  BY FS_CardinalityType
<1>2. ASSUME Y \subseteq X
      PROVE  IsFiniteSet(Y) /\ Cardinality(Y) \in Nat /\ Cardinality(Y) <= Cardinality(X)
  BY <1>2, FS_Subset, FS_CardinalityType
<1>3. ASSUME Y \subseteq X \cup {n}
      PROVE  IsFiniteSet(Y) /\ Cardinality(Y) \in Nat /\ Cardinality(Y) <= Cardinality(X) + 1
  <2>1. /\ IsFiniteSet(X \cup {n})
        /\ Cardinality(X \cup {n}) = IF n \in X THEN Cardinality(X) ELSE Cardinality(X) + 1
    BY FS_AddElement
  <2>2. IsFiniteSet(Y) /\ Cardinality(Y) <= Cardinality(X \cup {n})  BY <1>3, <2>1, FS_Subset
  <2>3. Cardinality(Y) \in Nat  BY <2>2, FS_CardinalityType
  <2>4. QED  BY <1>1, <2>1, <2>2, <2>3
<1>4. ASSUME n \in X, Y \subseteq X \ {n}
      PROVE  IsFiniteSet(Y) /\ Cardinality(Y) \in Nat /\ Cardinality(Y) + 1 <= Cardinality(X)
  <2>1. IsFiniteSet(X \ {n}) /\ Cardinality(X \ {n}) = Cardinality(X) - 1  BY <1>4, FS_RemoveElement
  <2>2. IsFiniteSet(Y) /\ Cardinality(Y) <= Cardinality(X \ {n})  BY <1>4, <2>1, FS_Subset
  <2>3. Cardinality(Y) \in Nat  BY <2>2, FS_CardinalityType
  <2>4. QED  BY <1>1, <2>1, <2>2, <2>3
<1>5. QED  BY <1>1, <1>2, <1>3, <1>4
-----------------------------------------------------------------------------
(* The tokens of hh.ru: the part "connection" of MCOutside. *)

\* Tokens that are over and still wait to be replaced.
Due(h) == Cardinality(h.refresh \cap h.over)

\* Pairs are numbered as they are issued, a token that can still be refreshed opens or is over, and for
\* each that is over hh has a pair left.
Numbered(h) ==
    /\ h \in C!Hh
    /\ h.access \subseteq 1 .. h.issued /\ h.over \subseteq 1 .. h.issued /\ h.refresh \subseteq 1 .. h.issued
    /\ h.refresh \subseteq h.access \cup h.over
    /\ h.issued + Due(h) <= MaxPairs

\* The two tokens of the row are of one pair, and so are those of a client; a client only goes to hh for
\* a pair that is over, and has a call to make.
RowPaired(row, h) ==
    /\ row \in C!Connection
    /\ row.refresh \in {C!NoToken, row.access} /\ row.access <= h.issued
ClientPaired(k, h) ==
    /\ k \in C!Client
    /\ k.pc # "idle" => k.refresh \in {C!NoToken, k.access} /\ k.access <= h.issued
    /\ k.pc \notin {"idle", "done"} => k.left # 0
    /\ k.pc = "access" /\ k.rejected => k.access \notin h.access
    /\ k.pc = "refresh" /\ k.refresh \in h.refresh => k.refresh \in h.over

\* As long as nothing is disturbed: a token that works and that a client has is the row's, or the client
\* is about to save it; and then nobody else has one, the row neither.
Has(c) == caller[c].pc # "idle" /\ caller[c].refresh \in hh.refresh
Saves(c) == caller[c].pc = "persist"
OneChain ==
    /\ \A c \in Callers : Has(c) /\ ~Saves(c) => caller[c].refresh = connection.refresh
    /\ \A c \in Callers : Saves(c) => /\ Has(c) /\ connection.refresh \notin hh.refresh
                                      /\ \A d \in Callers : d # c => ~Has(d)
    /\ connection.refresh # C!NoToken => connection.refresh \in hh.refresh \/ \E c \in Callers : Saves(c)

PastOfTokens == [troubles : 0..MaxTroubles, disturbed : BOOLEAN, connects : 0..MaxConnects]
Tokens ==
    /\ Numbered(hh) /\ RowPaired(connection, hh) /\ past \in PastOfTokens
    /\ caller \in [Callers -> C!Client] /\ \A c \in Callers : ClientPaired(caller[c], hh)
    /\ ~past.disturbed => OneChain

LEMMA SubsetsAreFinite ==
    ASSUME NEW X \in SUBSET (1 .. MaxPairs)
    PROVE  IsFiniteSet(X) /\ Cardinality(X) \in Nat
<1>1. IsFiniteSet(1 .. MaxPairs)  BY SizesOK, FS_Interval
<1>2. IsFiniteSet(X)  BY <1>1, FS_Subset
<1>3. QED  BY <1>2, FS_CardinalityType

LEMMA FewerDue ==
    ASSUME NEW X \in SUBSET (1 .. MaxPairs), NEW Y \in SUBSET (1 .. MaxPairs), NEW n
    PROVE  /\ Y \subseteq X => Cardinality(Y) <= Cardinality(X)
           /\ Y \subseteq X \cup {n} => Cardinality(Y) <= Cardinality(X) + 1
           /\ n \in X /\ Y \subseteq X \ {n} => Cardinality(Y) + 1 <= Cardinality(X)
BY SubsetsAreFinite, Fewer

LEMMA PairFacts ==
    ASSUME NEW h, Numbered(h)
    PROVE  /\ h.access \in SUBSET C!Pairs /\ h.over \in SUBSET C!Pairs /\ h.refresh \in SUBSET C!Pairs
           /\ h.issued \in 0 .. MaxPairs /\ h.account \in [C!Pairs -> 0 .. MaxConnects]
           /\ h.refresh \cap h.over \in SUBSET (1 .. MaxPairs) /\ Due(h) \in Nat
           /\ h = [access |-> h.access, over |-> h.over, refresh |-> h.refresh,
                   issued |-> h.issued, account |-> h.account]
<1>1. h \in C!Hh  BY DEF Numbered
<1>2. /\ h.access \in SUBSET C!Pairs /\ h.over \in SUBSET C!Pairs /\ h.refresh \in SUBSET C!Pairs
      /\ h.issued \in 0 .. MaxPairs /\ h.account \in [C!Pairs -> 0 .. MaxConnects]
  BY <1>1 DEF C!Hh
<1>3. h.refresh \cap h.over \in SUBSET (1 .. MaxPairs)  BY <1>2 DEF C!Pairs
<1>4. Due(h) \in Nat  BY <1>3, SubsetsAreFinite DEF Due
<1>5. h = [access |-> h.access, over |-> h.over, refresh |-> h.refresh,
           issued |-> h.issued, account |-> h.account]
  BY <1>1 DEF C!Hh
<1>6. QED  BY <1>2, <1>3, <1>4, <1>5

\* The fields of what hh knows after it has issued a pair.
LEMMA IssuedIs ==
    ASSUME NEW h, Numbered(h), NEW old, NEW account
    PROVE  /\ C!Issued(h, old, account).access = (h.access \ {old}) \cup {h.issued + 1}
           /\ C!Issued(h, old, account).over = h.over
           /\ C!Issued(h, old, account).refresh = (h.refresh \ {old}) \cup {h.issued + 1}
           /\ C!Issued(h, old, account).issued = h.issued + 1
           /\ C!Issued(h, old, account).account = [h.account EXCEPT ![h.issued + 1] = account]
BY DEF C!Issued

LEMMA IssuedNumbered ==
    ASSUME NEW h, Numbered(h), NEW old, NEW account \in 0 .. MaxConnects,
           old \in h.refresh \cap h.over \/ h.issued + Due(h) < MaxPairs
    PROVE  Numbered(C!Issued(h, old, account))
<1> DEFINE now == C!Issued(h, old, account)
           n == h.issued + 1
<1>1. /\ now.access = (h.access \ {old}) \cup {n} /\ now.over = h.over
      /\ now.refresh = (h.refresh \ {old}) \cup {n} /\ now.issued = n
      /\ now.account = [h.account EXCEPT ![n] = account]
      /\ now = [access |-> now.access, over |-> now.over, refresh |-> now.refresh,
                issued |-> now.issued, account |-> now.account]
  BY IssuedIs DEF C!Issued
<1>2. /\ h.access \in SUBSET C!Pairs /\ h.over \in SUBSET C!Pairs /\ h.refresh \in SUBSET C!Pairs
      /\ h.issued \in 0 .. MaxPairs /\ h.account \in [C!Pairs -> 0 .. MaxConnects]
      /\ h.refresh \cap h.over \in SUBSET (1 .. MaxPairs) /\ Due(h) \in Nat
  BY PairFacts
<1>3. /\ h.access \subseteq 1 .. h.issued /\ h.over \subseteq 1 .. h.issued /\ h.refresh \subseteq 1 .. h.issued
      /\ h.refresh \subseteq h.access \cup h.over /\ h.issued + Due(h) <= MaxPairs
  BY DEF Numbered
<1> HIDE DEF now
<1>4. n \notin h.over  BY <1>2, <1>3
<1>5. now.refresh \cap now.over = (h.refresh \cap h.over) \ {old}  BY <1>1, <1>4
<1>6. now.refresh \cap now.over \in SUBSET (1 .. MaxPairs)  BY <1>2, <1>5
<1>7. Due(now) \in Nat  BY <1>6, SubsetsAreFinite DEF Due
<1>8. n + Due(now) <= MaxPairs
  <2>1. CASE old \in h.refresh \cap h.over
    <3>1. Due(now) + 1 <= Due(h)  BY <1>2, <1>5, <1>6, <2>1, FewerDue DEF Due
    <3>2. QED  BY <1>2, <1>3, <1>7, <3>1, SizesOK
  <2>2. CASE h.issued + Due(h) < MaxPairs
    <3>1. Due(now) <= Due(h)  BY <1>2, <1>5, <1>6, FewerDue DEF Due
    <3>2. QED  BY <1>2, <1>7, <2>2, <3>1, SizesOK
  <2>3. QED  BY <2>1, <2>2
<1>9. n \in 1 .. MaxPairs  BY <1>2, <1>7, <1>8, SizesOK
<1>10. now \in C!Hh
  <2>1. now.access \in SUBSET C!Pairs /\ now.refresh \in SUBSET C!Pairs /\ now.over \in SUBSET C!Pairs
    BY <1>1, <1>2, <1>9 DEF C!Pairs
  <2>2. now.issued \in 0 .. MaxPairs  BY <1>1, <1>9, SizesOK
  <2>3. now.account \in [C!Pairs -> 0 .. MaxConnects]  BY <1>1, <1>2
  <2>4. QED  BY <1>1, <2>1, <2>2, <2>3 DEF C!Hh
<1>11. /\ now.access \subseteq 1 .. n /\ now.over \subseteq 1 .. n /\ now.refresh \subseteq 1 .. n
  <2>1. 1 .. h.issued \subseteq 1 .. n /\ n \in 1 .. n  BY <1>2
  <2>2. QED  BY <1>1, <1>3, <2>1
<1>12. now.refresh \subseteq now.access \cup now.over
  <2>1. ASSUME NEW m \in now.refresh  PROVE m \in now.access \cup now.over
    <3>1. CASE m = n  BY <1>1, <3>1
    <3>2. CASE m \in h.refresh /\ m # old  BY <1>1, <1>3, <3>2
    <3>3. QED  BY <1>1, <2>1, <3>1, <3>2
  <2>2. QED  BY <2>1
<1>13. now.issued = n  BY <1>1
<1>14. Numbered(now)  BY <1>8, <1>10, <1>11, <1>12, <1>13 DEF Numbered
<1>15. QED  BY <1>14 DEF now

\* Time, and the employer.
LEMMA TakenNumbered ==
    ASSUME NEW h, Numbered(h), NEW n \in C!Pairs
    PROVE  /\ n \in h.access /\ h.issued + Due(h) < MaxPairs
              => Numbered([h EXCEPT !.access = h.access \ {n}, !.over = h.over \cup {n}])
           /\ Numbered([h EXCEPT !.access = h.access \ {n}, !.refresh = h.refresh \ {n}])
<1>1. /\ h.access \in SUBSET C!Pairs /\ h.over \in SUBSET C!Pairs /\ h.refresh \in SUBSET C!Pairs
      /\ h.issued \in 0 .. MaxPairs /\ h.account \in [C!Pairs -> 0 .. MaxConnects]
      /\ h.refresh \cap h.over \in SUBSET (1 .. MaxPairs) /\ Due(h) \in Nat
      /\ h = [access |-> h.access, over |-> h.over, refresh |-> h.refresh,
              issued |-> h.issued, account |-> h.account]
  BY PairFacts
<1>2. /\ h.access \subseteq 1 .. h.issued /\ h.over \subseteq 1 .. h.issued /\ h.refresh \subseteq 1 .. h.issued
      /\ h.refresh \subseteq h.access \cup h.over /\ h.issued + Due(h) <= MaxPairs /\ h \in C!Hh
  BY DEF Numbered
<1>3. ASSUME n \in h.access, h.issued + Due(h) < MaxPairs
      PROVE  Numbered([h EXCEPT !.access = h.access \ {n}, !.over = h.over \cup {n}])
  <2> DEFINE now == [h EXCEPT !.access = h.access \ {n}, !.over = h.over \cup {n}]
  <2>1. /\ now \in C!Hh /\ now.access = h.access \ {n} /\ now.over = h.over \cup {n}
        /\ now.refresh = h.refresh /\ now.issued = h.issued
    BY <1>1, <1>2 DEF C!Hh
  <2> HIDE DEF now
  <2>2. now.refresh \cap now.over \subseteq (h.refresh \cap h.over) \cup {n}  BY <2>1
  <2>3. now.refresh \cap now.over \in SUBSET (1 .. MaxPairs)  BY <1>1, <2>1 DEF C!Pairs
  <2>4. Due(now) \in Nat /\ Due(now) <= Due(h) + 1
    BY <1>1, <2>2, <2>3, SubsetsAreFinite, FewerDue DEF Due
  <2>5. now.issued + Due(now) <= MaxPairs  BY <1>1, <1>3, <2>1, <2>4, SizesOK
  <2>6. now.refresh \subseteq now.access \cup now.over  BY <1>2, <2>1
  <2>7. /\ now.access \subseteq 1 .. now.issued /\ now.over \subseteq 1 .. now.issued
        /\ now.refresh \subseteq 1 .. now.issued
    BY <1>2, <1>3, <2>1
  <2>8. Numbered(now)  BY <2>1, <2>5, <2>6, <2>7 DEF Numbered
  <2>9. QED  BY <2>8 DEF now
<1>4. Numbered([h EXCEPT !.access = h.access \ {n}, !.refresh = h.refresh \ {n}])
  <2> DEFINE now == [h EXCEPT !.access = h.access \ {n}, !.refresh = h.refresh \ {n}]
  <2>1. /\ now \in C!Hh /\ now.access = h.access \ {n} /\ now.over = h.over
        /\ now.refresh = h.refresh \ {n} /\ now.issued = h.issued
    BY <1>1, <1>2 DEF C!Hh
  <2> HIDE DEF now
  <2>2. now.refresh \cap now.over \subseteq h.refresh \cap h.over  BY <2>1
  <2>3. now.refresh \cap now.over \in SUBSET (1 .. MaxPairs)  BY <1>1, <2>1 DEF C!Pairs
  <2>4. Due(now) \in Nat /\ Due(now) <= Due(h)
    BY <1>1, <2>2, <2>3, SubsetsAreFinite, FewerDue DEF Due
  <2>5. now.issued + Due(now) <= MaxPairs  BY <1>1, <1>2, <2>1, <2>4, SizesOK
  <2>6. now.refresh \subseteq now.access \cup now.over  BY <1>2, <2>1
  <2>7. /\ now.access \subseteq 1 .. now.issued /\ now.over \subseteq 1 .. now.issued
        /\ now.refresh \subseteq 1 .. now.issued
    BY <1>2, <2>1
  <2>8. Numbered(now)  BY <2>1, <2>5, <2>6, <2>7 DEF Numbered
  <2>9. QED  BY <2>8 DEF now
<1>5. QED  BY <1>3, <1>4

\* What hh knows later: more pairs, and of those there were none opens or can be refreshed again.
Later(h, g) ==
    /\ h.issued <= g.issued /\ h.over \subseteq g.over
    /\ \A n \in 0 .. h.issued : (n \in g.access => n \in h.access) /\ (n \in g.refresh => n \in h.refresh)

LEMMA IssuedLater ==
    ASSUME NEW h, Numbered(h), NEW old, NEW account
    PROVE  Later(h, C!Issued(h, old, account))
<1>1. h.issued \in 0 .. MaxPairs  BY PairFacts
<1>2. h.issued <= h.issued + 1 /\ \A n \in 0 .. h.issued : n # h.issued + 1  BY <1>1, SizesOK
<1> DEFINE now == C!Issued(h, old, account)
<1>3. /\ now.access = (h.access \ {old}) \cup {h.issued + 1} /\ now.over = h.over
      /\ now.refresh = (h.refresh \ {old}) \cup {h.issued + 1} /\ now.issued = h.issued + 1
  BY DEF C!Issued
<1> HIDE DEF now
<1>4. Later(h, now)  BY <1>2, <1>3 DEF Later
<1>5. QED  BY <1>4 DEF now

LEMMA PairedLater ==
    ASSUME NEW h, NEW g, Numbered(h), Numbered(g), Later(h, g)
    PROVE  /\ \A k : ClientPaired(k, h) => ClientPaired(k, g)
           /\ \A row : RowPaired(row, h) => RowPaired(row, g)
<1>1. h.issued \in 0 .. MaxPairs /\ g.issued \in 0 .. MaxPairs /\ h.issued <= g.issued  BY PairFacts DEF Later
<1>2. ASSUME NEW k, ClientPaired(k, h)  PROVE ClientPaired(k, g)
  <2>1. k \in C!Client /\ k.access \in 0 .. MaxPairs /\ k.refresh \in 0 .. MaxPairs
    BY <1>2 DEF ClientPaired, C!Client
  <2>2. k.pc # "idle" => k.refresh \in {C!NoToken, k.access} /\ k.access <= g.issued
    BY <1>1, <1>2, <2>1, SizesOK DEF ClientPaired
  <2>3. k.pc # "idle" => k.access \in 0 .. h.issued /\ k.refresh \in 0 .. h.issued
    BY <1>1, <1>2, <2>1, SizesOK DEF ClientPaired, C!NoToken
  <2>4. k.pc = "access" /\ k.rejected => k.access \notin g.access
    BY <1>2, <2>3 DEF ClientPaired, Later
  <2>5. k.pc = "refresh" /\ k.refresh \in g.refresh => k.refresh \in g.over
    BY <1>2, <2>3 DEF ClientPaired, Later
  <2>6. QED  BY <1>2, <2>1, <2>2, <2>4, <2>5 DEF ClientPaired
<1>3. ASSUME NEW row, RowPaired(row, h)  PROVE RowPaired(row, g)
  <2>1. row.access \in 0 .. MaxPairs  BY <1>3 DEF RowPaired, C!Connection
  <2>2. row.access <= g.issued  BY <1>1, <1>3, <2>1, SizesOK DEF RowPaired
  <2>3. QED  BY <1>3, <2>2 DEF RowPaired
<1>4. QED  BY <1>2, <1>3

\* A step of one client at most.
LEMMA TokenStep ==
    ASSUME Tokens, NEW c \in Callers, NEW k, ClientPaired(k, hh'), caller' = [caller EXCEPT ![c] = k],
           Numbered(hh'), Later(hh, hh'), RowPaired(connection', hh'), past' \in PastOfTokens,
           ~past'.disturbed => OneChain'
    PROVE  Tokens'
<1>1. Numbered(hh) /\ caller \in [Callers -> C!Client] /\ \A d \in Callers : ClientPaired(caller[d], hh)
  BY DEF Tokens
<1>2. \A d \in Callers : ClientPaired(caller[d], hh')  BY <1>1, PairedLater
<1>3. k \in C!Client  BY DEF ClientPaired
<1>4. caller' \in [Callers -> C!Client]  BY <1>1, <1>3
<1>5. \A d \in Callers : ClientPaired(caller'[d], hh')  BY <1>1, <1>2
<1>6. QED  BY <1>4, <1>5 DEF Tokens

LEMMA StillPaired ==
    ASSUME Tokens, NEW c \in Callers
    PROVE  /\ Later(hh, hh) /\ Numbered(hh) /\ RowPaired(connection, hh) /\ ClientPaired(caller[c], hh)
           /\ caller \in [Callers -> C!Client] /\ caller[c] \in C!Client /\ past \in PastOfTokens
<1>1. hh.issued \in 0 .. MaxPairs  BY PairFacts DEF Tokens
<1>2. Later(hh, hh)  BY <1>1, SizesOK DEF Later
<1>3. QED  BY <1>2 DEF Tokens, ClientPaired

\* The chain is not touched: the client has the token it had, or that of the row.
LEMMA ChainKept ==
    ASSUME OneChain, caller \in [Callers -> C!Client], NEW c \in Callers, NEW k,
           caller' = [caller EXCEPT ![c] = k], UNCHANGED hh, connection'.refresh = connection.refresh,
           ~Saves(c), k.pc # "persist",
           k.pc # "idle" => \/ k.refresh = connection.refresh
                            \/ caller[c].pc # "idle" /\ k.refresh = caller[c].refresh
    PROVE  OneChain'
<1>1. caller'[c] = k /\ \A d \in Callers : d # c => caller'[d] = caller[d]  OBVIOUS
<1>2. \A d \in Callers : d # c => (Has(d)' <=> Has(d)) /\ (Saves(d)' <=> Saves(d))  BY <1>1 DEF Has, Saves
<1>3. ~Saves(c)' /\ (Has(c)' => k.refresh \in hh.refresh /\ k.pc # "idle")  BY <1>1 DEF Has, Saves
<1>4. Has(c)' => (Has(c) /\ k.refresh = caller[c].refresh) \/ k.refresh = connection.refresh
  BY <1>3 DEF Has
<1>5. \A d \in Callers : Has(d)' /\ ~Saves(d)' => caller'[d].refresh = connection'.refresh
  BY <1>1, <1>2, <1>3, <1>4 DEF OneChain
<1>6. ASSUME NEW d \in Callers, Saves(d)'
      PROVE  Has(d)' /\ connection'.refresh \notin hh'.refresh /\ \A e \in Callers : e # d => ~Has(e)'
  <2>1. d # c /\ Saves(d) /\ Has(d)' /\ connection.refresh \notin hh.refresh
    BY <1>2, <1>3, <1>6 DEF OneChain
  <2>2. \A e \in Callers : e # d => ~Has(e)  BY <2>1 DEF OneChain
  <2>3. ~Has(c)'  BY <1>3, <1>4, <2>1, <2>2
  <2>4. QED  BY <1>2, <2>1, <2>2, <2>3
<1>7. connection'.refresh # C!NoToken => connection'.refresh \in hh'.refresh \/ \E d \in Callers : Saves(d)'
  BY <1>2 DEF OneChain
<1>8. QED  BY <1>5, <1>6, <1>7 DEF OneChain

\* So is everything, when the client has not just got a pair.
LEMMA ClientStep ==
    ASSUME Tokens, NEW c \in Callers, NEW k, ClientPaired(k, hh), caller' = [caller EXCEPT ![c] = k],
           UNCHANGED hh, RowPaired(connection', hh), connection'.refresh = connection.refresh,
           past' \in PastOfTokens, ~past'.disturbed => ~past.disturbed /\ ~Saves(c), k.pc # "persist",
           k.pc # "idle" => \/ k.refresh = connection.refresh
                            \/ caller[c].pc # "idle" /\ k.refresh = caller[c].refresh
    PROVE  Tokens'
<1>1. Later(hh, hh) /\ Numbered(hh) /\ caller \in [Callers -> C!Client]  BY StillPaired
<1>2. ASSUME ~past'.disturbed  PROVE OneChain'
  <2>1. OneChain /\ ~Saves(c)  BY <1>2 DEF Tokens
  <2>2. QED  BY <1>1, <2>1, ChainKept
<1>3. QED  BY <1>1, <1>2, TokenStep

LEMMA TroubleIs ==
    ASSUME past \in PastOfTokens, NEW disturbing \in BOOLEAN, C!Trouble(disturbing)
    PROVE  past' \in PastOfTokens /\ (~past'.disturbed => ~past.disturbed /\ ~disturbing)
<1>1. /\ past.troubles < MaxTroubles
      /\ past' = [past EXCEPT !.troubles = past.troubles + 1, !.disturbed = past.disturbed \/ disturbing]
  BY DEF C!Trouble
<1>2. past.troubles \in 0 .. MaxTroubles /\ past.disturbed \in BOOLEAN  BY DEF PastOfTokens
<1>3. past.troubles + 1 \in 0 .. MaxTroubles  BY <1>1, <1>2, SizesOK
<1>4. QED  BY <1>1, <1>2, <1>3 DEF PastOfTokens

\* A client at another point of its call.
To(k, pc) == [k EXCEPT !.pc = pc]
LEMMA ToIs ==
    ASSUME NEW k \in C!Client, NEW pc \in {"access", "refresh", "persist", "send", "auth", "done"}
    PROVE  /\ To(k, pc) \in C!Client /\ To(k, pc).pc = pc /\ To(k, pc).rejected = k.rejected
           /\ To(k, pc).refresh = k.refresh /\ To(k, pc).access = k.access /\ To(k, pc).left = k.left
BY DEF To, C!Client

LEMMA IdleClient == C!Idle \in C!Client /\ C!Idle.pc = "idle" /\ \A h : ClientPaired(C!Idle, h)
<1>1. C!Idle \in C!Client /\ C!Idle.pc = "idle"  BY SizesOK DEF C!Idle, C!Client, C!NoToken, C!HhConnectionStatus
<1>2. QED  BY <1>1 DEF ClientPaired

LEMMA BuildClientKeeps == ASSUME Tokens, NEW c \in Callers, C!build_client(c)  PROVE Tokens'
<1>1. PICK calls \in 1 .. MaxRequests :
        caller' = [caller EXCEPT ![c] =
                      [C!Idle EXCEPT !.pc = "access", !.seen = connection.status, !.access = connection.access,
                                     !.refresh = connection.refresh, !.left = calls]]
  BY Zenon DEF C!build_client, C!Move
<1> DEFINE k == [C!Idle EXCEPT !.pc = "access", !.seen = connection.status, !.access = connection.access,
                               !.refresh = connection.refresh, !.left = calls]
<1>2. UNCHANGED <<hh, connection, past>> /\ caller[c].pc = "idle"  BY DEF C!build_client
<1>3. connection \in C!Connection /\ RowPaired(connection, hh)  BY StillPaired DEF RowPaired
<1>4. /\ k \in C!Client /\ k.pc = "access" /\ ~k.rejected
      /\ k.access = connection.access /\ k.refresh = connection.refresh /\ k.left # 0
  <2>1. calls \in 0 .. MaxRequests /\ calls # 0  BY SizesOK
  <2>2. QED  BY <1>3, <2>1 DEF C!Idle, C!Client, C!Connection
<1>5. caller' = [caller EXCEPT ![c] = k]  BY <1>1
<1> HIDE DEF k
<1>6. ClientPaired(k, hh)  BY <1>3, <1>4 DEF ClientPaired, RowPaired
<1>7. past' \in PastOfTokens /\ ~Saves(c)  BY <1>2, StillPaired DEF Saves
<1>8. QED  BY <1>2, <1>3, <1>4, <1>5, <1>6, <1>7, ClientStep

LEMMA AccessTokenKeeps == ASSUME Tokens, NEW c \in Callers, C!_access_token(c)  PROVE Tokens'
<1> DEFINE pc == IF ~caller[c].rejected /\ caller[c].access \notin hh.over THEN "send"
                 ELSE IF caller[c].refresh = C!NoToken THEN "auth" ELSE "refresh"
<1>1. /\ caller[c].pc = "access" /\ UNCHANGED <<hh, connection, past>>
      /\ caller' = [caller EXCEPT ![c] = To(caller[c], pc)]
  BY Zenon DEF C!_access_token, C!Move, To
<1>2. /\ caller[c] \in C!Client /\ ClientPaired(caller[c], hh) /\ RowPaired(connection, hh)
      /\ past' \in PastOfTokens /\ ~Saves(c) /\ Numbered(hh)
  BY <1>1, StillPaired DEF Saves
<1>3. pc \in {"send", "auth", "refresh"}  OBVIOUS
<1>4. pc = "refresh" /\ caller[c].refresh \in hh.refresh => caller[c].refresh \in hh.over
  <2>1. SUFFICES ASSUME pc = "refresh", caller[c].refresh \in hh.refresh
                 PROVE  caller[c].refresh \in hh.over
    OBVIOUS
  <2>2. caller[c].rejected \/ caller[c].access \in hh.over  BY <2>1
  <2>3. caller[c].refresh = caller[c].access  BY <1>1, <1>2, <2>1 DEF ClientPaired
  <2>4. caller[c].refresh \in hh.access \cup hh.over  BY <1>2, <2>1 DEF Numbered
  <2>5. QED  BY <1>1, <1>2, <2>2, <2>3, <2>4 DEF ClientPaired
<1> HIDE DEF pc
<1>5. /\ To(caller[c], pc) \in C!Client /\ To(caller[c], pc).pc = pc
      /\ To(caller[c], pc).refresh = caller[c].refresh /\ To(caller[c], pc).access = caller[c].access
      /\ To(caller[c], pc).left = caller[c].left
  BY <1>2, <1>3, ToIs
<1>6. ClientPaired(To(caller[c], pc), hh)
  BY <1>1, <1>2, <1>3, <1>4, <1>5 DEF ClientPaired
<1>7. QED  BY <1>1, <1>2, <1>3, <1>5, <1>6, ClientStep

\* A pair that hh issues to a client.
LEMMA NewPair ==
    ASSUME Tokens, NEW c \in Callers, caller[c].pc = "refresh", caller[c].refresh \in hh.refresh,
           hh' = C!Issued(hh, caller[c].refresh, hh.account[caller[c].refresh])
    PROVE  /\ Numbered(hh') /\ Later(hh, hh') /\ RowPaired(connection, hh')
           /\ hh'.issued = hh.issued + 1 /\ hh.issued + 1 \in 1 .. MaxPairs
           /\ hh'.refresh = (hh.refresh \ {caller[c].refresh}) \cup {hh.issued + 1}
           /\ hh'.access = (hh.access \ {caller[c].refresh}) \cup {hh.issued + 1}
<1>1. Numbered(hh) /\ ClientPaired(caller[c], hh) /\ RowPaired(connection, hh)  BY StillPaired
<1>2. /\ hh.refresh \in SUBSET C!Pairs /\ hh.account \in [C!Pairs -> 0 .. MaxConnects]
      /\ hh.issued \in 0 .. MaxPairs
  BY <1>1, PairFacts
<1>3. hh.account[caller[c].refresh] \in 0 .. MaxConnects  BY <1>2
<1>4. caller[c].refresh \in hh.refresh \cap hh.over  BY <1>1 DEF ClientPaired
<1>5. Numbered(hh')  BY <1>1, <1>3, <1>4, IssuedNumbered
<1>6. Later(hh, hh')  BY <1>1, IssuedLater
<1>7. RowPaired(connection, hh')  BY <1>1, <1>5, <1>6, PairedLater
<1>8. /\ hh'.issued = hh.issued + 1
      /\ hh'.refresh = (hh.refresh \ {caller[c].refresh}) \cup {hh.issued + 1}
      /\ hh'.access = (hh.access \ {caller[c].refresh}) \cup {hh.issued + 1}
  BY DEF C!Issued
<1>9. hh'.issued \in 0 .. MaxPairs  BY <1>5, PairFacts
<1>10. hh.issued + 1 \in 1 .. MaxPairs  BY <1>2, <1>8, <1>9, SizesOK
<1>11. QED  BY <1>5, <1>6, <1>7, <1>8, <1>10

LEMMA RefreshKeeps == ASSUME Tokens, NEW c \in Callers, C!refresh(c)  PROVE Tokens'
<1>1. /\ caller[c].pc = "refresh" /\ UNCHANGED <<connection, past>> /\ past' \in PastOfTokens /\ ~Saves(c)
      /\ caller[c] \in C!Client /\ ClientPaired(caller[c], hh) /\ RowPaired(connection, hh) /\ Numbered(hh)
      /\ caller \in [Callers -> C!Client]
  BY StillPaired DEF C!refresh, Saves
<1>2. CASE caller[c].refresh \in hh.refresh
  <2> DEFINE k == [caller[c] EXCEPT !.pc = "persist", !.access = hh'.issued, !.refresh = hh'.issued]
  <2>1. /\ hh' = C!Issued(hh, caller[c].refresh, hh.account[caller[c].refresh])
        /\ caller' = [caller EXCEPT ![c] = k]
    BY <1>2, Zenon DEF C!refresh, C!Move
  <2>2. /\ Numbered(hh') /\ Later(hh, hh') /\ RowPaired(connection, hh')
        /\ hh'.issued = hh.issued + 1 /\ hh.issued + 1 \in 1 .. MaxPairs
        /\ hh'.refresh = (hh.refresh \ {caller[c].refresh}) \cup {hh.issued + 1}
    BY <1>1, <1>2, <2>1, NewPair
  <2>3. /\ k \in C!Client /\ k.pc = "persist" /\ k.access = hh'.issued /\ k.refresh = hh'.issued
        /\ k.left = caller[c].left
    <3>1. hh'.issued \in 0 .. MaxPairs  BY <2>2, SizesOK
    <3>2. QED  BY <1>1, <3>1 DEF C!Client
  <2> HIDE DEF k
  <2>4. ClientPaired(k, hh')  BY <1>1, <2>2, <2>3, SizesOK DEF ClientPaired
  <2>5. ASSUME ~past'.disturbed  PROVE OneChain'
    <3>1. OneChain /\ Has(c)  BY <1>1, <1>2, <2>5 DEF Tokens, Has
    <3>2. caller'[c] = k /\ \A d \in Callers : d # c => caller'[d] = caller[d]  BY <1>1, <2>1
    <3>3. connection.refresh = caller[c].refresh  BY <1>1, <3>1 DEF OneChain
    <3>4. \A d \in Callers : ~Saves(d)  BY <1>1, <1>2, <3>1, <3>3 DEF OneChain
    <3>5. \A d \in Callers : caller[d].pc # "idle" => caller[d].refresh # hh.issued + 1
      <4>1. ASSUME NEW d \in Callers, caller[d].pc # "idle"  PROVE caller[d].refresh # hh.issued + 1
        <5>1. ClientPaired(caller[d], hh) /\ caller[d] \in C!Client  BY StillPaired
        <5>2. caller[d].refresh \in {0, caller[d].access} /\ caller[d].access <= hh.issued
              /\ caller[d].access \in 0 .. MaxPairs
          BY <4>1, <5>1 DEF ClientPaired, C!NoToken, C!Client
        <5>3. hh.issued \in 0 .. MaxPairs  BY <1>1, PairFacts
        <5>4. QED  BY <5>2, <5>3, SizesOK
      <4>2. QED  BY <4>1
    <3>6. connection.refresh # hh.issued + 1 /\ connection.refresh \notin hh'.refresh
      <4>1. caller[c].refresh # hh.issued + 1  BY <1>1, <3>5
      <4>2. QED  BY <2>2, <3>3, <4>1
    <3>7. \A d \in Callers : d # c => ~Has(d)'
      <4>1. ASSUME NEW d \in Callers, d # c, Has(d)'  PROVE FALSE
        <5>1. caller'[d] = caller[d] /\ caller[d].pc # "idle" /\ caller[d].refresh \in hh'.refresh
          BY <3>2, <4>1 DEF Has
        <5>2. caller[d].refresh \in hh.refresh /\ caller[d].refresh # caller[c].refresh
          BY <2>2, <3>5, <5>1
        <5>3. Has(d)  BY <5>1, <5>2 DEF Has
        <5>4. QED  BY <3>1, <3>3, <3>4, <5>2, <5>3 DEF OneChain
      <4>2. QED  BY <4>1
    <3>8. Has(c)' /\ Saves(c)'  BY <2>2, <2>3, <3>2 DEF Has, Saves
    <3>9. \A d \in Callers : d # c => ~Saves(d)'  BY <3>2, <3>4 DEF Saves
    <3>10. connection'.refresh \notin hh'.refresh  BY <1>1, <3>6
    <3>11. QED  BY <3>7, <3>8, <3>9, <3>10 DEF OneChain
  <2>6. RowPaired(connection', hh')  BY <1>1, <2>2
  <2>7. QED  BY <1>1, <2>1, <2>2, <2>4, <2>5, <2>6, TokenStep
<1>3. CASE caller[c].refresh \notin hh.refresh
  <2>1. caller' = [caller EXCEPT ![c] = To(caller[c], "auth")] /\ UNCHANGED hh
    BY <1>3, Zenon DEF C!refresh, C!Move, To
  <2>2. /\ To(caller[c], "auth") \in C!Client /\ To(caller[c], "auth").pc = "auth"
        /\ To(caller[c], "auth").refresh = caller[c].refresh /\ To(caller[c], "auth").access = caller[c].access
        /\ To(caller[c], "auth").left = caller[c].left
    BY <1>1, ToIs
  <2>3. ClientPaired(To(caller[c], "auth"), hh)  BY <1>1, <2>2 DEF ClientPaired
  <2>4. QED  BY <1>1, <2>1, <2>2, <2>3, ClientStep
<1>4. QED  BY <1>2, <1>3

LEMMA PersistKeeps == ASSUME Tokens, NEW c \in Callers, C!persist(c)  PROVE Tokens'
<1> DEFINE k == To(caller[c], "send")
           row == [connection EXCEPT !.access = caller[c].access, !.refresh = caller[c].refresh]
<1>1. /\ Saves(c) /\ UNCHANGED <<hh, past>> /\ connection' = row /\ caller' = [caller EXCEPT ![c] = k]
  BY Zenon DEF C!persist, C!store_tokens, C!Move, To, Saves
<1>2. /\ caller[c] \in C!Client /\ ClientPaired(caller[c], hh) /\ RowPaired(connection, hh) /\ Numbered(hh)
      /\ caller \in [Callers -> C!Client] /\ past \in PastOfTokens /\ Later(hh, hh)
  BY StillPaired
<1>3. /\ row \in C!Connection /\ row.access = caller[c].access /\ row.refresh = caller[c].refresh
  BY <1>2 DEF RowPaired, C!Connection, C!Client
<1>4. /\ k \in C!Client /\ k.pc = "send" /\ k.refresh = caller[c].refresh /\ k.access = caller[c].access
      /\ k.left = caller[c].left
  BY <1>2, ToIs
<1> HIDE DEF k, row
<1>5. RowPaired(connection', hh)  BY <1>1, <1>2, <1>3 DEF RowPaired, ClientPaired, Saves
<1>6. ClientPaired(k, hh)  BY <1>1, <1>2, <1>4 DEF ClientPaired, Saves
<1>7. ASSUME ~past'.disturbed  PROVE OneChain'
  <2>1. OneChain  BY <1>1, <1>7 DEF Tokens
  <2>2. Has(c) /\ \A d \in Callers : d # c => ~Has(d) /\ ~Saves(d)  BY <1>1, <2>1 DEF OneChain
  <2>3. caller'[c] = k /\ \A d \in Callers : d # c => caller'[d] = caller[d]  BY <1>1, <1>2
  <2>4. \A d \in Callers : d # c => ~Has(d)' /\ ~Saves(d)'  BY <1>1, <2>2, <2>3 DEF Has, Saves
  <2>5. ~Saves(c)' /\ caller'[c].refresh = connection'.refresh  BY <1>1, <1>3, <1>4, <2>3 DEF Saves
  <2>6. connection'.refresh \in hh'.refresh  BY <1>1, <1>3, <2>2 DEF Has
  <2>7. QED  BY <2>4, <2>5, <2>6 DEF OneChain
<1>8. QED  BY <1>1, <1>2, <1>5, <1>6, <1>7, TokenStep

LEMMA RequestKeeps == ASSUME Tokens, NEW c \in Callers, C!request(c)  PROVE Tokens'
<1>1. caller[c].pc = "send" /\ UNCHANGED <<hh, connection, past>>  BY DEF C!request
<1>2. /\ caller[c] \in C!Client /\ ClientPaired(caller[c], hh) /\ RowPaired(connection, hh)
      /\ past' \in PastOfTokens /\ ~Saves(c)
  BY <1>1, StillPaired DEF Saves
<1>3. ASSUME NEW k \in C!Client, caller' = [caller EXCEPT ![c] = k], k.pc \in {"access", "auth", "done"},
             k.refresh = caller[c].refresh, k.access = caller[c].access,
             k.pc = "access" /\ k.rejected => k.access \notin hh.access, k.pc # "done" => k.left # 0
      PROVE  Tokens'
  <2>1. ClientPaired(k, hh)  BY <1>1, <1>2, <1>3 DEF ClientPaired
  <2>2. QED  BY <1>1, <1>2, <1>3, <2>1, ClientStep
<1>4. caller[c].left \in 1 .. MaxRequests
  <2>1. caller[c].left \in 0 .. MaxRequests /\ caller[c].left # 0  BY <1>1, <1>2 DEF C!Client, ClientPaired
  <2>2. QED  BY <2>1, SizesOK
<1>5. CASE caller' = [caller EXCEPT ![c] = C!Answered(caller[c])]
  <2> DEFINE k == C!Answered(caller[c])
  <2>1. /\ k.pc = IF caller[c].left = 1 THEN "done" ELSE "access"
        /\ k.left = caller[c].left - 1 /\ ~k.rejected
        /\ k.refresh = caller[c].refresh /\ k.access = caller[c].access
    BY <1>2 DEF C!Answered, C!Client
  <2>2. caller[c].left - 1 \in 0 .. MaxRequests  BY <1>4, SizesOK
  <2>3. k \in C!Client  BY <1>2, <2>2 DEF C!Answered, C!Client
  <2>4. k.pc # "done" => k.left # 0  BY <1>4, <2>1, SizesOK
  <2>5. k.pc \in {"access", "auth", "done"}  BY <2>1
  <2> HIDE DEF k
  <2>6. caller' = [caller EXCEPT ![c] = k]  BY <1>5 DEF k
  <2>7. QED  BY <1>3, <2>1, <2>3, <2>4, <2>5, <2>6
<1>6. CASE caller[c].access \notin hh.access /\ caller' = [caller EXCEPT ![c] = [caller[c] EXCEPT !.pc = "access", !.rejected = TRUE]]
  <2> DEFINE k == [caller[c] EXCEPT !.pc = "access", !.rejected = TRUE]
  <2>1. /\ k \in C!Client /\ k.pc = "access" /\ k.left = caller[c].left
        /\ k.refresh = caller[c].refresh /\ k.access = caller[c].access
    BY <1>2 DEF C!Client
  <2>2. caller' = [caller EXCEPT ![c] = k]  BY <1>6
  <2> HIDE DEF k
  <2>3. k.left # 0  BY <1>4, <2>1, SizesOK
  <2>4. QED  BY <1>3, <1>6, <2>1, <2>2, <2>3
<1>7. CASE caller' = [caller EXCEPT ![c] = To(caller[c], "auth")]
  <2>1. /\ To(caller[c], "auth") \in C!Client /\ To(caller[c], "auth").pc = "auth"
        /\ To(caller[c], "auth").refresh = caller[c].refresh /\ To(caller[c], "auth").access = caller[c].access
        /\ To(caller[c], "auth").left = caller[c].left
    BY <1>2, ToIs
  <2>2. caller[c].left # 0  BY <1>4, SizesOK
  <2>3. QED  BY <1>3, <1>7, <2>1, <2>2
<1>8. QED  BY <1>5, <1>6, <1>7, Zenon DEF C!request, C!Move, To

\* A client that gives up.
LEMMA GivesUp ==
    ASSUME Tokens, NEW c \in Callers, caller' = [caller EXCEPT ![c] = C!Idle], UNCHANGED hh,
           RowPaired(connection', hh), connection'.refresh = connection.refresh,
           past' \in PastOfTokens, ~past'.disturbed => ~past.disturbed /\ ~Saves(c)
    PROVE  Tokens'
BY IdleClient, ClientStep

LEMMA RequestFailsKeeps == ASSUME Tokens, NEW c \in Callers, C!request_fails(c)  PROVE Tokens'
<1>1. /\ UNCHANGED connection /\ caller' = [caller EXCEPT ![c] = C!Idle]
      /\ C!Trouble(caller[c].pc = "refresh")
  BY Zenon DEF C!request_fails, C!Move
<1>2. /\ caller[c] \in C!Client /\ RowPaired(connection, hh) /\ past \in PastOfTokens
  BY StillPaired
<1>3. past' \in PastOfTokens /\ (~past'.disturbed => ~past.disturbed /\ caller[c].pc # "refresh")
  BY <1>1, <1>2, TroubleIs
<1>4. CASE UNCHANGED hh /\ caller[c].pc \in {"send", "refresh"}
  <2>1. ~Saves(c)  BY <1>4 DEF Saves
  <2>2. QED  BY <1>1, <1>2, <1>3, <1>4, <2>1, GivesUp
<1>5. CASE /\ caller[c].pc = "refresh" /\ caller[c].refresh \in hh.refresh
           /\ hh' = C!Issued(hh, caller[c].refresh, hh.account[caller[c].refresh])
  <2>1. Numbered(hh') /\ Later(hh, hh') /\ RowPaired(connection, hh')  BY <1>5, NewPair
  <2>2. past'.disturbed  BY <1>3, <1>5
  <2>3. ClientPaired(C!Idle, hh')  BY IdleClient
  <2>4. RowPaired(connection', hh')  BY <1>1, <2>1
  <2>5. QED  BY <1>1, <1>3, <2>1, <2>2, <2>3, <2>4, TokenStep
<1>6. QED  BY <1>4, <1>5, Zenon DEF C!request_fails

LEMMA RollBackKeeps == ASSUME Tokens, NEW c \in Callers, C!RollBack(c)  PROVE Tokens'
<1> DEFINE k == [caller[c] EXCEPT !.rolled_back = TRUE]
<1>1. /\ caller[c].pc = "access" /\ UNCHANGED <<hh, connection>> /\ caller' = [caller EXCEPT ![c] = k]
      /\ C!Trouble(FALSE)
  BY Zenon DEF C!RollBack, C!Move
<1>2. /\ caller[c] \in C!Client /\ ClientPaired(caller[c], hh) /\ RowPaired(connection, hh)
      /\ past \in PastOfTokens /\ ~Saves(c)
  BY <1>1, StillPaired DEF Saves
<1>3. /\ k \in C!Client /\ k.pc = "access" /\ k.refresh = caller[c].refresh /\ k.access = caller[c].access
      /\ k.left = caller[c].left /\ k.rejected = caller[c].rejected
  BY <1>1, <1>2 DEF C!Client
<1> HIDE DEF k
<1>4. ClientPaired(k, hh)  BY <1>1, <1>2, <1>3 DEF ClientPaired
<1>5. past' \in PastOfTokens /\ (~past'.disturbed => ~past.disturbed)  BY <1>1, <1>2, TroubleIs
<1>6. QED  BY <1>1, <1>2, <1>3, <1>4, <1>5, ClientStep

\* What a client writes to the row when it ends.
LEMMA StatusWritten ==
    ASSUME RowPaired(connection, hh), NEW k, NEW new \in {"error", "connected"}, C!Status(k, new)
    PROVE  RowPaired(connection', hh) /\ connection'.refresh = connection.refresh
<1>1. connection' = connection \/ connection' = [connection EXCEPT !.status = new]  BY Zenon DEF C!Status
<1>2. connection \in C!Connection  BY DEF RowPaired
<1>3. CASE connection' = connection  BY <1>3
<1>4. CASE connection' = [connection EXCEPT !.status = new]
  <2>1. /\ connection' \in C!Connection /\ connection'.refresh = connection.refresh
        /\ connection'.access = connection.access
    BY <1>2, <1>4 DEF C!Connection, C!HhConnectionStatus
  <2>2. QED  BY <2>1 DEF RowPaired
<1>5. QED  BY <1>1, <1>3, <1>4

LEMMA EndsKeep ==
    ASSUME Tokens, NEW c \in Callers, C!_mark_auth_error(c) \/ C!sync_organizations(c) \/ C!Die(c)
    PROVE  Tokens'
<1>1. RowPaired(connection, hh) /\ past \in PastOfTokens  BY StillPaired
<1>2. UNCHANGED hh /\ caller' = [caller EXCEPT ![c] = C!Idle]
  BY Zenon DEF C!_mark_auth_error, C!sync_organizations, C!Die, C!Move
<1>3. CASE C!_mark_auth_error(c)
  <2>1. C!Status(caller[c], "error") /\ UNCHANGED past /\ ~Saves(c)  BY <1>3 DEF C!_mark_auth_error, Saves
  <2>2. RowPaired(connection', hh) /\ connection'.refresh = connection.refresh  BY <1>1, <2>1, StatusWritten
  <2>3. QED  BY <1>1, <1>2, <2>1, <2>2, GivesUp
<1>4. CASE C!sync_organizations(c)
  <2>1. /\ C!Status(caller[c], "connected") \/ UNCHANGED connection
        /\ UNCHANGED past /\ ~Saves(c)
    BY <1>4 DEF C!sync_organizations, Saves
  <2>2. RowPaired(connection', hh) /\ connection'.refresh = connection.refresh  BY <1>1, <2>1, StatusWritten
  <2>3. QED  BY <1>1, <1>2, <2>1, <2>2, GivesUp
<1>5. CASE C!Die(c)
  <2>1. C!Trouble(caller[c].pc = "persist") /\ UNCHANGED connection  BY <1>5 DEF C!Die
  <2>2. past' \in PastOfTokens /\ (~past'.disturbed => ~past.disturbed /\ ~Saves(c))
    BY <1>1, <2>1, TroubleIs DEF Saves
  <2>3. QED  BY <1>1, <1>2, <2>1, <2>2, GivesUp
<1>6. QED  BY <1>3, <1>4, <1>5

\* A step that no client takes.
LEMMA NobodyStep ==
    ASSUME Tokens, UNCHANGED caller, Numbered(hh'), Later(hh, hh'), RowPaired(connection', hh'),
           past' \in PastOfTokens, ~past'.disturbed => OneChain'
    PROVE  Tokens'
<1>1. /\ Numbered(hh) /\ caller \in [Callers -> C!Client]
      /\ \A d \in Callers : ClientPaired(caller[d], hh)
  BY DEF Tokens
<1>2. \A d \in Callers : ClientPaired(caller[d], hh')  BY <1>1, PairedLater
<1>3. QED  BY <1>1, <1>2 DEF Tokens

LEMMA SpareIs == ASSUME C!Spare  PROVE hh.issued + Due(hh) < MaxPairs
<1>1. \A S : C!Cardinality(S) = Cardinality(S)  BY Zenon DEF C!Cardinality, Cardinality
<1>2. QED  BY <1>1 DEF C!Spare, Due

LEMMA ConnectKeeps == ASSUME Tokens, C!oauth_callback \/ C!connect_with_token  PROVE Tokens'
<1> DEFINE account == past.connects + 1
           after == [past EXCEPT !.connects = past.connects + 1, !.disturbed = past.disturbed \/ C!AtWork]
<1>1. PICK new \in {hh.issued + 1, C!NoToken} :
        /\ past.connects < MaxConnects /\ C!Spare /\ UNCHANGED caller
        /\ hh' = C!Issued(hh, C!NoToken, account)
        /\ connection' = [status |-> "connected", access |-> hh.issued + 1, refresh |-> new, account |-> account]
        /\ past' = after
  BY Zenon DEF C!oauth_callback, C!connect_with_token, C!Connect, C!_upsert_connection
<1>2. Numbered(hh) /\ RowPaired(connection, hh) /\ past \in PastOfTokens  BY DEF Tokens
<1>3. /\ past.connects \in 0 .. MaxConnects /\ past.disturbed \in BOOLEAN /\ account \in 0 .. MaxConnects
      /\ hh.issued + Due(hh) < MaxPairs /\ hh.issued \in 0 .. MaxPairs /\ Due(hh) \in Nat
  <2>1. past.connects \in 0 .. MaxConnects /\ past.disturbed \in BOOLEAN  BY <1>2 DEF PastOfTokens
  <2>2. account \in 0 .. MaxConnects  BY <1>1, <2>1, SizesOK
  <2>3. hh.issued + Due(hh) < MaxPairs  BY <1>1, SpareIs
  <2>4. QED  BY <1>2, <2>1, <2>2, <2>3, PairFacts
<1>4. after \in PastOfTokens /\ after.disturbed = (past.disturbed \/ C!AtWork)
  BY <1>2, <1>3 DEF PastOfTokens
<1> HIDE DEF account, after
<1>5. Numbered(hh') /\ Later(hh, hh')  BY <1>1, <1>2, <1>3, IssuedNumbered, IssuedLater
<1>6. /\ hh'.issued = hh.issued + 1 /\ hh.issued + 1 \in hh'.refresh /\ hh.issued + 1 \in 0 .. MaxPairs
  <2>1. hh'.issued = hh.issued + 1 /\ hh.issued + 1 \in hh'.refresh  BY <1>1 DEF C!Issued
  <2>2. hh'.issued \in 0 .. MaxPairs  BY <1>5, PairFacts
  <2>3. QED  BY <2>1, <2>2
<1>7. new \in 0 .. MaxPairs  BY <1>6, SizesOK DEF C!NoToken
<1>8. RowPaired(connection', hh')
  <2>1. connection' \in C!Connection /\ connection'.access = hh.issued + 1 /\ connection'.refresh = new
    BY <1>1, <1>3, <1>6, <1>7 DEF C!Connection, C!HhConnectionStatus
  <2>2. hh.issued + 1 <= hh'.issued  BY <1>3, <1>6
  <2>3. QED  BY <2>1, <2>2 DEF RowPaired
<1>9. ASSUME ~past'.disturbed  PROVE OneChain'
  <2>1. \A d \in Callers : ~Has(d)' /\ ~Saves(d)'  BY <1>1, <1>4, <1>9 DEF C!AtWork, Has, Saves
  <2>2. connection'.refresh # C!NoToken => connection'.refresh \in hh'.refresh  BY <1>1, <1>6
  <2>3. QED  BY <2>1, <2>2 DEF OneChain
<1>10. QED  BY <1>1, <1>4, <1>5, <1>8, <1>9, NobodyStep

LEMMA DisconnectTokens == ASSUME Tokens, C!disconnect  PROVE Tokens'
<1>1. /\ UNCHANGED <<hh, caller>> /\ C!Trouble(C!AtWork)
      /\ connection' = [connection EXCEPT !.status = "disconnected", !.access = 0, !.refresh = 0]
  BY Zenon DEF C!disconnect, C!NoToken
<1>2. /\ Numbered(hh) /\ RowPaired(connection, hh) /\ past \in PastOfTokens /\ hh.issued \in 0 .. MaxPairs
  BY PairFacts DEF Tokens
<1>3. past' \in PastOfTokens /\ (~past'.disturbed => ~past.disturbed /\ ~C!AtWork)
  BY <1>1, <1>2, TroubleIs DEF C!AtWork
<1>4. connection' \in C!Connection /\ connection'.refresh = 0 /\ connection'.access = 0
  <2>1. 0 \in 0 .. MaxPairs /\ connection \in C!Connection  BY <1>2, SizesOK DEF RowPaired
  <2>2. QED  BY <1>1, <2>1 DEF C!Connection, C!HhConnectionStatus
<1>5. RowPaired(connection', hh')  BY <1>1, <1>2, <1>4, SizesOK DEF RowPaired
<1>6. Later(hh, hh')  BY <1>1, <1>2, SizesOK DEF Later
<1>7. ASSUME ~past'.disturbed  PROVE OneChain'
  <2>1. \A d \in Callers : ~Has(d)' /\ ~Saves(d)'  BY <1>1, <1>3, <1>7 DEF C!AtWork, Has, Saves
  <2>2. QED  BY <1>4, <2>1 DEF OneChain, C!NoToken
<1>8. Numbered(hh')  BY <1>1, <1>2
<1>9. QED  BY <1>1, <1>3, <1>5, <1>6, <1>7, <1>8, NobodyStep

LEMMA ExpireKeeps == ASSUME Tokens, NEW n \in C!Pairs, C!Expire(n)  PROVE Tokens'
<1> DEFINE now == [hh EXCEPT !.access = hh.access \ {n}, !.over = hh.over \cup {n}]
<1>1. /\ n \in hh.access /\ hh.issued + Due(hh) < MaxPairs /\ hh' = now
      /\ UNCHANGED <<connection, caller, past>>
  BY SpareIs DEF C!Expire
<1>2. Numbered(hh) /\ RowPaired(connection, hh) /\ past \in PastOfTokens /\ hh.issued \in 0 .. MaxPairs
  BY PairFacts DEF Tokens
<1>3. Numbered(now)  BY <1>1, <1>2, TakenNumbered
<1>4. now.issued = hh.issued /\ now.access = hh.access \ {n} /\ now.refresh = hh.refresh /\ now.over = hh.over \cup {n}
  BY <1>2 DEF Numbered, C!Hh
<1> HIDE DEF now
<1>5. Later(hh, now)  BY <1>2, <1>4, SizesOK DEF Later
<1>6. RowPaired(connection, now)  BY <1>2, <1>3, <1>5, PairedLater
<1>7. ASSUME ~past'.disturbed  PROVE OneChain'
  <2>1. OneChain  BY <1>1, <1>7 DEF Tokens
  <2>2. hh'.refresh = hh.refresh  BY <1>1, <1>4
  <2>3. QED  BY <1>1, <2>1, <2>2 DEF OneChain, Has, Saves
<1>8. Numbered(hh') /\ Later(hh, hh') /\ RowPaired(connection', hh') /\ past' \in PastOfTokens
  BY <1>1, <1>2, <1>3, <1>5, <1>6
<1>9. QED  BY <1>1, <1>7, <1>8, NobodyStep

LEMMA RevokeKeeps == ASSUME Tokens, NEW n \in C!Pairs, C!Revoke(n)  PROVE Tokens'
<1> DEFINE now == [hh EXCEPT !.access = hh.access \ {n}, !.refresh = hh.refresh \ {n}]
<1>1. hh' = now /\ UNCHANGED <<connection, caller>> /\ C!Trouble(TRUE)  BY DEF C!Revoke
<1>2. Numbered(hh) /\ RowPaired(connection, hh) /\ past \in PastOfTokens /\ hh.issued \in 0 .. MaxPairs
  BY PairFacts DEF Tokens
<1>3. Numbered(now)  BY <1>2, TakenNumbered
<1>4. now.issued = hh.issued /\ now.access = hh.access \ {n} /\ now.refresh = hh.refresh \ {n} /\ now.over = hh.over
  BY <1>2 DEF Numbered, C!Hh
<1> HIDE DEF now
<1>5. Later(hh, now)  BY <1>2, <1>4, SizesOK DEF Later
<1>6. RowPaired(connection, now)  BY <1>2, <1>3, <1>5, PairedLater
<1>7. past' \in PastOfTokens /\ past'.disturbed  BY <1>1, <1>2, TroubleIs
<1>8. Numbered(hh') /\ Later(hh, hh') /\ RowPaired(connection', hh')  BY <1>1, <1>3, <1>5, <1>6
<1>9. QED  BY <1>1, <1>7, <1>8, NobodyStep

LEMMA TokensNext == ASSUME Tokens, C!Next  PROVE Tokens'
<1>1. CASE C!oauth_callback \/ C!connect_with_token  BY <1>1, ConnectKeeps
<1>2. CASE C!disconnect  BY <1>2, DisconnectTokens
<1>3. ASSUME NEW n \in C!Pairs, C!Expire(n) \/ C!Revoke(n)  PROVE Tokens'
  BY <1>3, ExpireKeeps, RevokeKeeps
<1>4. ASSUME NEW c \in Callers, C!build_client(c) \/ C!Call(c) \/ C!request_fails(c) \/ C!RollBack(c) \/ C!Die(c)
      PROVE  Tokens'
  <2>1. CASE C!build_client(c)  BY <2>1, BuildClientKeeps
  <2>2. CASE C!_access_token(c)  BY <2>2, AccessTokenKeeps
  <2>3. CASE C!refresh(c)  BY <2>3, RefreshKeeps
  <2>4. CASE C!persist(c)  BY <2>4, PersistKeeps
  <2>5. CASE C!request(c)  BY <2>5, RequestKeeps
  <2>6. CASE C!request_fails(c)  BY <2>6, RequestFailsKeeps
  <2>7. CASE C!RollBack(c)  BY <2>7, RollBackKeeps
  <2>8. CASE C!_mark_auth_error(c) \/ C!sync_organizations(c) \/ C!Die(c)  BY <2>8, EndsKeep
  <2>9. QED  BY <1>4, <2>1, <2>2, <2>3, <2>4, <2>5, <2>6, <2>7, <2>8, Zenon DEF C!Call
<1>5. QED  BY <1>1, <1>2, <1>3, <1>4, Zenon DEF C!Next

LEMMA TokensRest == ASSUME Tokens, UNCHANGED OfConnection, UNCHANGED past  PROVE Tokens'
<1>1. UNCHANGED hh /\ UNCHANGED connection /\ UNCHANGED caller /\ UNCHANGED past  BY DEF OfConnection
<1>2. OneChain => OneChain'  BY <1>1 DEF OneChain, Has, Saves
<1>3. QED  BY <1>1, <1>2 DEF Tokens

LEMMA TokensInit == ASSUME C!Init  PROVE Tokens
<1>1. {MaxPairs, MaxConnects, MaxTroubles} \subseteq Nat  BY SizesOK
<1>2. /\ hh.access = {} /\ hh.over = {} /\ hh.refresh = {} /\ hh.issued = 0 /\ hh \in C!Hh
  BY <1>1 DEF C!Init, C!Hh
<1>3. Cardinality({}) = 0  BY FS_EmptySet
<1>4. hh.refresh \cap hh.over = {}  BY <1>2
<1>5. Numbered(hh)  BY <1>1, <1>2, <1>3, <1>4 DEF Numbered, Due
<1>6. connection \in C!Connection /\ connection.refresh = 0 /\ connection.access = 0
  BY <1>1 DEF C!Init, C!Connection, C!NoToken, C!HhConnectionStatus
<1>7. RowPaired(connection, hh)  BY <1>2, <1>6 DEF RowPaired
<1>8. past \in PastOfTokens  BY <1>1 DEF C!Init, PastOfTokens
<1>9. caller \in [Callers -> C!Client] /\ \A c \in Callers : caller[c] = C!Idle  BY IdleClient DEF C!Init
<1>10. \A c \in Callers : ClientPaired(caller[c], hh)  BY <1>9, IdleClient
<1>11. OneChain  BY <1>6, <1>9, IdleClient DEF OneChain, Has, Saves, C!NoToken
<1>12. QED  BY <1>5, <1>7, <1>8, <1>9, <1>10, <1>11 DEF Tokens

LEMMA TokensHold == ASSUME Tokens  PROVE C!TokensAreKept
<1>1. C!TypeOK  BY DEF Tokens, Numbered, RowPaired, PastOfTokens, C!TypeOK
<1>2. ASSUME ~past.disturbed, connection.refresh # C!NoToken
      PROVE  \/ connection.refresh \in hh.refresh
             \/ \E c \in Callers : caller[c].pc = "persist" /\ caller[c].refresh \in hh.refresh
  <2>1. OneChain  BY <1>2 DEF Tokens
  <2>2. ASSUME NEW c \in Callers, Saves(c)
        PROVE  caller[c].pc = "persist" /\ caller[c].refresh \in hh.refresh
    BY <2>1, <2>2 DEF OneChain, Has, Saves
  <2>3. QED  BY <1>2, <2>1, <2>2 DEF OneChain
<1>3. QED  BY <1>1, <1>2 DEF C!TokensAreKept
-----------------------------------------------------------------------------
(* What is found at hh.ru: the part "discovery" of MCOutside. *)

\* The application is for a vacancy that is linked.
Linked(a) == VacancyOf[a] \in HhVacancies /\ links[VacancyOf[a]] # "none"

\* A pass visits links that are there; what it has listed is for them, and what it has written has a candidate.
PassFollows(p) ==
    /\ p \in D!Pass
    /\ \A h \in p.todo : links[h] # "none"
    /\ \A a \in p.infos \cup p.found : Linked(a)
    /\ \A a \in p.found : EmailOf[a] \in p.people

Discovered ==
    /\ links \in [HhVacancies -> {"none", D!Own, D!Imported}] /\ drafts \in [HhVacancies -> Nat]
    /\ arrived \subseteq Applications /\ negotiations \subseteq Applications
    /\ candidates \subseteq D!Emails /\ page \in [Pages -> D!Page]
    /\ periodic \in [0 .. (sync_attempts - 1) -> 0 .. MaxJobs] /\ requested \in 0 .. sync_attempts
    /\ troubles \in 0 .. MaxTroubles
    /\ PassFollows(pass)
    /\ \A h \in HhVacancies : drafts[h] <= 1 /\ (links[h] = "none" => drafts[h] = 0)
    /\ \A a \in negotiations : EmailOf[a] \in candidates /\ Linked(a)

LEMMA DiscoveredHolds == ASSUME Discovered  PROVE D!DiscoveryIsSound
BY DEF Discovered, PassFollows, Linked, D!DiscoveryIsSound, D!TypeOK

LEMMA NoPassIs == D!NoPass \in D!Pass /\ PassFollows(D!NoPass)
<1>1. 0 \in 0 .. sync_attempts  BY SizesOK
<1>2. QED  BY <1>1 DEF D!NoPass, D!Pass, PassFollows

LEMMA DiscoveredInit == ASSUME D!Init  PROVE Discovered
<1>1. MaxTroubles \in Nat /\ MaxJobs \in Nat /\ sync_attempts \in Nat  BY SizesOK
<1>2. /\ links \in [HhVacancies -> {"none", D!Own, D!Imported}] /\ drafts \in [HhVacancies -> Nat]
      /\ \A h \in HhVacancies : drafts[h] = 0
  BY DEF D!Init
<1>3. /\ arrived = {} /\ negotiations = {} /\ candidates = {} /\ page \in [Pages -> D!Page]
      /\ pass = D!NoPass
  BY DEF D!Init, D!Page
<1>4. periodic \in [0 .. (sync_attempts - 1) -> 0 .. MaxJobs] /\ requested \in 0 .. sync_attempts
  BY <1>1 DEF D!Init, D!NoRequest
<1>5. troubles \in 0 .. MaxTroubles  BY <1>1 DEF D!Init
<1>6. QED  BY <1>2, <1>3, <1>4, <1>5, NoPassIs DEF Discovered

\* Steps that leave the links, the pass and what was found alone.
LEMMA PeopleStep ==
    ASSUME Discovered, UNCHANGED <<links, drafts, negotiations, pass>>,
           arrived' \subseteq Applications, candidates \subseteq candidates', candidates' \subseteq D!Emails,
           page' \in [Pages -> D!Page],
           periodic' \in [0 .. (sync_attempts - 1) -> 0 .. MaxJobs], requested' \in 0 .. sync_attempts,
           troubles' \in 0 .. MaxTroubles
    PROVE  Discovered'
<1>1. PassFollows(pass)'  BY DEF Discovered, PassFollows, Linked
<1>2. \A a \in negotiations' : EmailOf[a] \in candidates' /\ Linked(a)'  BY DEF Discovered, Linked
<1>3. QED  BY <1>1, <1>2 DEF Discovered

LEMMA PeopleKeep ==
    ASSUME Discovered, \/ \E a \in Applications : D!Arrive(a)
                       \/ \E e \in D!Emails : D!RecruiterWrites(e)
                       \/ \E h \in HhVacancies, p \in Pages : D!Ask(p, h)
                       \/ D!enqueue_org_sync \/ D!ensure_periodic_sync
    PROVE  Discovered'
<1>1. /\ arrived \subseteq Applications /\ candidates \subseteq D!Emails /\ page \in [Pages -> D!Page]
      /\ periodic \in [0 .. (sync_attempts - 1) -> 0 .. MaxJobs] /\ requested \in 0 .. sync_attempts
      /\ troubles \in 0 .. MaxTroubles
  BY DEF Discovered
<1>2. ASSUME NEW a \in Applications, D!Arrive(a)  PROVE Discovered'
  <2>1. arrived' = arrived \cup {a}
        /\ UNCHANGED <<links, drafts, negotiations, candidates, page, periodic, requested, pass, troubles>>
    BY <1>2 DEF D!Arrive
  <2>2. QED  BY <1>1, <2>1, PeopleStep
<1>3. ASSUME NEW e \in D!Emails, D!RecruiterWrites(e)  PROVE Discovered'
  <2>1. candidates' = candidates \cup {e}
        /\ UNCHANGED <<links, drafts, arrived, negotiations, page, periodic, requested, pass, troubles>>
    BY <1>3 DEF D!RecruiterWrites
  <2>2. QED  BY <1>1, <2>1, PeopleStep
<1>4. ASSUME NEW h \in HhVacancies, NEW p \in Pages, D!Ask(p, h)  PROVE Discovered'
  <2>1. page' = [page EXCEPT ![p] = h]
        /\ UNCHANGED <<links, drafts, arrived, negotiations, candidates, periodic, requested, pass, troubles>>
    BY <1>4 DEF D!Ask
  <2>2. page' \in [Pages -> D!Page]  BY <1>1, <2>1 DEF D!Page
  <2>3. QED  BY <1>1, <2>1, <2>2, PeopleStep
<1>5. ASSUME D!enqueue_org_sync  PROVE Discovered'
  <2>1. requested' = 0
        /\ UNCHANGED <<links, drafts, arrived, negotiations, candidates, page, periodic, pass, troubles>>
    BY <1>5 DEF D!enqueue_org_sync
  <2>2. requested' \in 0 .. sync_attempts  BY <2>1, SizesOK
  <2>3. QED  BY <1>1, <2>1, <2>2, PeopleStep
<1>6. ASSUME D!ensure_periodic_sync  PROVE Discovered'
  <2>1. periodic' = [periodic EXCEPT ![0] = 1]
        /\ UNCHANGED <<links, drafts, arrived, negotiations, candidates, page, requested, pass, troubles>>
    BY <1>6 DEF D!ensure_periodic_sync
  <2>2. 1 \in 0 .. MaxJobs  BY SizesOK
  <2>3. periodic' \in [0 .. (sync_attempts - 1) -> 0 .. MaxJobs]  BY <1>1, <2>1, <2>2
  <2>4. QED  BY <1>1, <2>1, <2>3, PeopleStep
<1>7. QED  BY <1>2, <1>3, <1>4, <1>5, <1>6

\* A link, once made, stays.
LEMMA LinkStep ==
    ASSUME Discovered, UNCHANGED <<arrived, negotiations, candidates, periodic, requested, pass, troubles>>,
           page' \in [Pages -> D!Page],
           NEW h \in HhVacancies, NEW to \in {D!Own, D!Imported}, links' = [links EXCEPT ![h] = to],
           drafts' = drafts \/ (links[h] = "none" /\ drafts' = [drafts EXCEPT ![h] = @ + 1])
    PROVE  Discovered'
<1>1. /\ links \in [HhVacancies -> {"none", D!Own, D!Imported}] /\ drafts \in [HhVacancies -> Nat]
      /\ \A g \in HhVacancies : drafts[g] <= 1 /\ (links[g] = "none" => drafts[g] = 0)
  BY DEF Discovered
<1>2. /\ links' \in [HhVacancies -> {"none", D!Own, D!Imported}]
      /\ links'[h] # "none" /\ \A g \in HhVacancies : g # h => links'[g] = links[g]
  BY <1>1 DEF D!Own, D!Imported
<1>3. \A g \in HhVacancies : links[g] # "none" => links'[g] # "none"  BY <1>2
<1>4. \A a : Linked(a) => Linked(a)'  BY <1>3 DEF Linked
<1>5. pass.todo \subseteq HhVacancies  BY DEF Discovered, PassFollows, D!Pass
<1>6. PassFollows(pass)'  BY <1>3, <1>4, <1>5 DEF Discovered, PassFollows
<1>7. /\ drafts' \in [HhVacancies -> Nat]
      /\ \A g \in HhVacancies : drafts'[g] <= 1 /\ (links'[g] = "none" => drafts'[g] = 0)
  <2>1. CASE drafts' = drafts  BY <1>1, <1>2, <2>1
  <2>2. CASE links[h] = "none" /\ drafts' = [drafts EXCEPT ![h] = @ + 1]
    <3>1. drafts[h] = 0  BY <1>1, <2>2
    <3>2. drafts' \in [HhVacancies -> Nat] /\ drafts'[h] = 1
          /\ \A g \in HhVacancies : g # h => drafts'[g] = drafts[g]
      BY <1>1, <2>2, <3>1
    <3>3. QED  BY <1>1, <1>2, <3>2
  <2>3. QED  BY <2>1, <2>2
<1>8. \A a \in negotiations' : EmailOf[a] \in candidates' /\ Linked(a)'  BY <1>4 DEF Discovered
<1>9. QED  BY <1>2, <1>6, <1>7, <1>8 DEF Discovered

LEMMA LinksKeep ==
    ASSUME Discovered, \/ \E h \in HhVacancies : D!link_vacancy(h)
                       \/ \E p \in Pages : D!import_vacancy(p)
    PROVE  Discovered'
<1>1. page \in [Pages -> D!Page]  BY DEF Discovered
<1>2. ASSUME NEW h \in HhVacancies, D!link_vacancy(h)  PROVE Discovered'
  <2>1. links' = [links EXCEPT ![h] = D!Own]
        /\ UNCHANGED <<drafts, arrived, negotiations, candidates, page, periodic, requested, pass, troubles>>
    BY <1>2 DEF D!link_vacancy
  <2>2. QED  BY <1>1, <2>1, LinkStep
<1>3. ASSUME NEW p \in Pages, D!import_vacancy(p)  PROVE Discovered'
  <2> DEFINE h == page[p]
  <2>1. /\ h # "idle" /\ page' = [page EXCEPT ![p] = "idle"]
        /\ UNCHANGED <<arrived, negotiations, candidates, periodic, requested, pass, troubles>>
    BY <1>3 DEF D!import_vacancy
  <2>2. h \in HhVacancies /\ page' \in [Pages -> D!Page]  BY <1>1, <2>1 DEF D!Page
  <2>3. CASE links[h] = "none" /\ links' = [links EXCEPT ![h] = D!Imported] /\ drafts' = [drafts EXCEPT ![h] = @ + 1]
    BY <2>1, <2>2, <2>3, LinkStep
  <2>4. CASE UNCHANGED <<links, drafts>>
    <3>1. /\ arrived' \subseteq Applications /\ candidates' \subseteq D!Emails
          /\ candidates \subseteq candidates' /\ troubles' \in 0 .. MaxTroubles
          /\ periodic' \in [0 .. (sync_attempts - 1) -> 0 .. MaxJobs] /\ requested' \in 0 .. sync_attempts
      BY <2>1 DEF Discovered
    <3>2. QED  BY <2>1, <2>2, <2>4, <3>1, PeopleStep
  <2>5. QED  BY <1>3, <2>3, <2>4, Zenon DEF D!import_vacancy, D!Free
<1>4. QED  BY <1>2, <1>3

\* Steps of the worker: what is found has a candidate and a link, and so has what the pass knows.
LEMMA PassStep ==
    ASSUME Discovered, UNCHANGED <<links, drafts, arrived, page>>, PassFollows(pass'),
           periodic' \in [0 .. (sync_attempts - 1) -> 0 .. MaxJobs], requested' \in 0 .. sync_attempts,
           troubles' \in 0 .. MaxTroubles,
           \/ UNCHANGED <<negotiations, candidates>>
           \/ negotiations' = negotiations \cup pass.found /\ candidates' = candidates \cup pass.people
    PROVE  Discovered'
<1>1. PassFollows(pass)'  BY DEF PassFollows, Linked
<1>2. PassFollows(pass) /\ negotiations \subseteq Applications /\ candidates \subseteq D!Emails  BY DEF Discovered
<1>3. negotiations' \subseteq Applications /\ candidates' \subseteq D!Emails  BY <1>2 DEF PassFollows, D!Pass
<1>4. \A a : Linked(a) <=> Linked(a)'  BY DEF Linked
<1>5. \A a \in negotiations' : EmailOf[a] \in candidates' /\ Linked(a)'  BY <1>2, <1>4 DEF Discovered, PassFollows
<1>6. QED  BY <1>1, <1>3, <1>5 DEF Discovered

LEMMA DiscoveredTypes ==
    ASSUME Discovered
    PROVE  /\ pass \in D!Pass /\ PassFollows(pass) /\ arrived \subseteq Applications
           /\ periodic \in [0 .. (sync_attempts - 1) -> 0 .. MaxJobs] /\ requested \in 0 .. sync_attempts
           /\ troubles \in 0 .. MaxTroubles /\ negotiations \subseteq Applications
           /\ sync_attempts \in Nat \ {0} /\ MaxJobs \in Nat \ {0} /\ MaxTroubles \in Nat
BY SizesOK DEF Discovered, PassFollows

\* One job more, or one less.
LEMMA JobsCounted ==
    ASSUME NEW waiting \in [0 .. (sync_attempts - 1) -> 0 .. MaxJobs], NEW n \in 0 .. (sync_attempts - 1)
    PROVE  /\ [waiting EXCEPT ![n] = IF @ < MaxJobs THEN @ + 1 ELSE @] \in [0 .. (sync_attempts - 1) -> 0 .. MaxJobs]
           /\ waiting[n] > 0 => [waiting EXCEPT ![n] = @ - 1] \in [0 .. (sync_attempts - 1) -> 0 .. MaxJobs]
<1>1. MaxJobs \in Nat /\ waiting[n] \in 0 .. MaxJobs  BY SizesOK
<1>2. (IF waiting[n] < MaxJobs THEN waiting[n] + 1 ELSE waiting[n]) \in 0 .. MaxJobs  BY <1>1
<1>3. waiting[n] > 0 => waiting[n] - 1 \in 0 .. MaxJobs  BY <1>1
<1>4. QED  BY <1>2, <1>3

LEMMA BeginFollows ==
    ASSUME Discovered, NEW job_ \in {"periodic", "org"}, NEW attempt \in 0 .. (sync_attempts - 1), D!Begin(job_, attempt)
    PROVE  PassFollows(pass')
<1> DEFINE visited == {h \in HhVacancies : links[h] # "none"}
           p == [D!NoPass EXCEPT !.job = job_, !.attempt = attempt + 1, !.pc = "next", !.todo = visited, !.known = negotiations]
<1>1. pass' = p  BY DEF D!Begin
<1>2. attempt + 1 \in 0 .. sync_attempts /\ negotiations \subseteq Applications  BY DiscoveredTypes
<1>3. visited \subseteq HhVacancies /\ \A h \in visited : links[h] # "none"  OBVIOUS
<1> HIDE DEF visited
<1>4. p \in D!Pass /\ p.todo = visited /\ p.infos = {} /\ p.found = {}
  BY <1>2, <1>3, NoPassIs DEF D!NoPass, D!Pass
<1> HIDE DEF p
<1>5. PassFollows(p)  BY <1>3, <1>4 DEF PassFollows
<1>6. QED  BY <1>1, <1>5

LEMMA JobKeeps == ASSUME Discovered, D!hh_sync_job  PROVE Discovered'
<1>1. UNCHANGED <<links, drafts, arrived, negotiations, candidates, page, troubles>>  BY DEF D!hh_sync_job
<1>2. /\ periodic \in [0 .. (sync_attempts - 1) -> 0 .. MaxJobs] /\ requested \in 0 .. sync_attempts
      /\ troubles' \in 0 .. MaxTroubles /\ sync_attempts \in Nat \ {0}
  BY <1>1, DiscoveredTypes
<1>3. ASSUME NEW n \in DOMAIN periodic, periodic[n] > 0, D!Begin("periodic", n),
             periodic' = D!Scheduled([periodic EXCEPT ![n] = @ - 1]), UNCHANGED requested
      PROVE  Discovered'
  <2> DEFINE waiting == [periodic EXCEPT ![n] = @ - 1]
  <2>1. n \in 0 .. (sync_attempts - 1) /\ 0 \in 0 .. (sync_attempts - 1)  BY <1>2, <1>3
  <2>2. waiting \in [0 .. (sync_attempts - 1) -> 0 .. MaxJobs]  BY <1>2, <1>3, <2>1, JobsCounted
  <2>3. periodic' = [waiting EXCEPT ![0] = IF @ < MaxJobs THEN @ + 1 ELSE @]  BY <1>3 DEF D!Scheduled
  <2> HIDE DEF waiting
  <2>4. periodic' \in [0 .. (sync_attempts - 1) -> 0 .. MaxJobs]  BY <2>1, <2>2, <2>3, JobsCounted
  <2>5. PassFollows(pass')  BY <1>3, <2>1, BeginFollows
  <2>6. QED  BY <1>1, <1>2, <1>3, <2>4, <2>5, PassStep
<1>4. CASE requested # D!NoRequest /\ D!Begin("org", requested) /\ requested' = D!NoRequest /\ UNCHANGED periodic
  <2>1. requested \in 0 .. (sync_attempts - 1) /\ requested' \in 0 .. sync_attempts
    BY <1>2, <1>4 DEF D!NoRequest
  <2>2. PassFollows(pass')  BY <1>4, <2>1, BeginFollows
  <2>3. QED  BY <1>1, <1>2, <1>4, <2>1, <2>2, PassStep
<1>5. QED  BY <1>3, <1>4, Zenon DEF D!hh_sync_job

LEMMA TroubleCounted == ASSUME troubles \in 0 .. MaxTroubles, D!Trouble  PROVE troubles' \in 0 .. MaxTroubles
BY SizesOK DEF D!Trouble

LEMMA DieDiscovers == ASSUME Discovered, D!Die  PROVE Discovered'
<1>1. UNCHANGED <<links, drafts, arrived, negotiations, candidates, page>> /\ pass' = D!NoPass /\ D!Trouble
  BY DEF D!Die, D!Retried
<1>2. /\ pass \in D!Pass /\ periodic \in [0 .. (sync_attempts - 1) -> 0 .. MaxJobs]
      /\ requested \in 0 .. sync_attempts /\ troubles' \in 0 .. MaxTroubles /\ sync_attempts \in Nat \ {0}
  BY <1>1, DiscoveredTypes, TroubleCounted
<1>3. pass.attempt \in 0 .. sync_attempts  BY <1>2 DEF D!Pass
<1>4. requested' \in 0 .. sync_attempts  BY <1>2, <1>3 DEF D!Die, D!Retried
<1>5. periodic' \in [0 .. (sync_attempts - 1) -> 0 .. MaxJobs]
  <2>1. CASE UNCHANGED periodic  BY <1>2, <2>1
  <2>2. CASE pass.attempt # sync_attempts /\ periodic' = [periodic EXCEPT ![pass.attempt] = IF @ < MaxJobs THEN @ + 1 ELSE @]
    <3>1. pass.attempt \in 0 .. (sync_attempts - 1)  BY <1>2, <1>3, <2>2
    <3>2. QED  BY <1>2, <2>2, <3>1, JobsCounted
  <2>3. QED  BY <2>1, <2>2, Zenon DEF D!Die, D!Retried
<1>6. PassFollows(pass')  BY <1>1, NoPassIs
<1>7. QED  BY <1>1, <1>2, <1>4, <1>5, <1>6, PassStep

\* The steps of a pass.
LEMMA ListKeeps == ASSUME Discovered, NEW h \in HhVacancies, D!List(h)  PROVE Discovered'
<1> DEFINE p == [pass EXCEPT !.pc = "resume", !.todo = pass.todo \ {h}, !.infos = D!Unknown(h)]
<1>1. /\ h \in pass.todo /\ pass' = p
      /\ UNCHANGED <<links, drafts, arrived, negotiations, candidates, page, periodic, requested, troubles>>
  BY DEF D!List
<1>2. /\ pass \in D!Pass /\ PassFollows(pass) /\ arrived \subseteq Applications
      /\ periodic' \in [0 .. (sync_attempts - 1) -> 0 .. MaxJobs] /\ requested' \in 0 .. sync_attempts
      /\ troubles' \in 0 .. MaxTroubles
  BY <1>1, DiscoveredTypes
<1>3. D!Unknown(h) \subseteq Applications /\ \A a \in D!Unknown(h) : Linked(a)
  BY <1>1, <1>2 DEF D!Unknown, Linked, PassFollows
<1>4. p \in D!Pass /\ p.todo = pass.todo \ {h} /\ p.infos = D!Unknown(h) /\ p.found = pass.found /\ p.people = pass.people
  BY <1>2, <1>3 DEF D!Pass
<1> HIDE DEF p
<1>5. PassFollows(p)  BY <1>2, <1>3, <1>4 DEF PassFollows
<1>6. PassFollows(pass')  BY <1>1, <1>5
<1>7. QED  BY <1>1, <1>2, <1>6, PassStep

LEMMA ResumeKeeps == ASSUME Discovered, NEW a \in Applications, D!Resume(a)  PROVE Discovered'
<1> DEFINE p == [pass EXCEPT !.infos = pass.infos \ {a}, !.found = pass.found \cup {a},
                             !.people = pass.people \cup {EmailOf[a]}, !.known = pass.known \cup {a}]
<1>1. /\ a \in pass.infos /\ pass' = p
      /\ UNCHANGED <<links, drafts, arrived, negotiations, candidates, page, periodic, requested, troubles>>
  BY DEF D!Resume
<1>2. /\ pass \in D!Pass /\ PassFollows(pass)
      /\ periodic' \in [0 .. (sync_attempts - 1) -> 0 .. MaxJobs] /\ requested' \in 0 .. sync_attempts
      /\ troubles' \in 0 .. MaxTroubles
  BY <1>1, DiscoveredTypes
<1>3. EmailOf[a] \in D!Emails  BY DEF D!Emails
<1>4. /\ p \in D!Pass /\ p.todo = pass.todo /\ p.infos = pass.infos \ {a} /\ p.found = pass.found \cup {a}
      /\ p.people = pass.people \cup {EmailOf[a]}
  BY <1>2, <1>3 DEF D!Pass
<1> HIDE DEF p
<1>5. PassFollows(p)  BY <1>1, <1>2, <1>4 DEF PassFollows
<1>6. PassFollows(pass')  BY <1>1, <1>5
<1>7. QED  BY <1>1, <1>2, <1>6, PassStep

LEMMA PassEnds == ASSUME Discovered, D!LinkIsDone \/ D!PassIsDone \/ D!HhFails  PROVE Discovered'
<1>1. /\ UNCHANGED <<links, drafts, arrived, page, periodic, requested>>
      /\ UNCHANGED <<negotiations, candidates>>
         \/ (negotiations' = negotiations \cup pass.found /\ candidates' = candidates \cup pass.people)
  BY DEF D!LinkIsDone, D!PassIsDone, D!HhFails, D!Commit
<1>2. /\ pass \in D!Pass /\ PassFollows(pass)
      /\ periodic' \in [0 .. (sync_attempts - 1) -> 0 .. MaxJobs] /\ requested' \in 0 .. sync_attempts
      /\ troubles \in 0 .. MaxTroubles
  BY <1>1, DiscoveredTypes
<1>3. troubles' \in 0 .. MaxTroubles
  BY <1>2, TroubleCounted DEF D!LinkIsDone, D!PassIsDone, D!HhFails
<1>4. PassFollows(pass')
  <2> DEFINE p == [pass EXCEPT !.pc = "next", !.found = {}, !.people = {}]
  <2>1. p \in D!Pass /\ p.todo = pass.todo /\ p.infos = pass.infos /\ p.found = {}  BY <1>2 DEF D!Pass
  <2>2. pass' = p \/ pass' = D!NoPass  BY DEF D!LinkIsDone, D!PassIsDone, D!HhFails
  <2> HIDE DEF p
  <2>3. PassFollows(p)  BY <1>2, <2>1 DEF PassFollows
  <2>4. QED  BY <2>2, <2>3, NoPassIs
<1>5. QED  BY <1>1, <1>2, <1>3, <1>4, PassStep

LEMMA DiscoveredNext == ASSUME Discovered, D!Next  PROVE Discovered'
<1>1. CASE \/ \E a \in Applications : D!Arrive(a)
           \/ \E e \in D!Emails : D!RecruiterWrites(e)
           \/ \E h \in HhVacancies, p \in Pages : D!Ask(p, h)
           \/ D!enqueue_org_sync \/ D!ensure_periodic_sync
  BY <1>1, PeopleKeep
<1>2. CASE (\E h \in HhVacancies : D!link_vacancy(h)) \/ \E p \in Pages : D!import_vacancy(p)
  BY <1>2, LinksKeep
<1>3. CASE D!hh_sync_job  BY <1>3, JobKeeps
<1>4. CASE D!Die  BY <1>4, DieDiscovers
<1>5. CASE \E h \in HhVacancies : D!List(h)  BY <1>5, ListKeeps
<1>6. CASE \E a \in Applications : D!Resume(a)  BY <1>6, ResumeKeeps
<1>7. CASE D!LinkIsDone \/ D!PassIsDone \/ D!HhFails  BY <1>7, PassEnds
<1>8. QED  BY <1>1, <1>2, <1>3, <1>4, <1>5, <1>6, <1>7, Zenon DEF D!Next, D!sync_connection

LEMMA DiscoveredRest == ASSUME Discovered, UNCHANGED OfDiscovery  PROVE Discovered'
<1>1. /\ UNCHANGED <<links, drafts, arrived, negotiations, candidates, page>>
      /\ UNCHANGED <<periodic, requested, pass, troubles>>
  BY DEF OfDiscovery
<1>2. PassFollows(pass)'  BY <1>1 DEF Discovered, PassFollows, Linked
<1>3. \A a \in negotiations' : EmailOf[a] \in candidates' /\ Linked(a)'  BY <1>1 DEF Discovered, Linked
<1>4. QED  BY <1>1, <1>2, <1>3 DEF Discovered

\* The chain of refresh tokens of the organization does not break (hh/service.py store_tokens,
\* hh/client.py), however many clients find the token over at once, as long as nothing is disturbed; and a
\* vacancy of hh is imported once, and what was found there has a candidate and a link (sync_connection),
\* wherever a pass breaks off.
THEOREM HhStaysKept == MCSpec => []HhIsKept
<1> DEFINE Inv == (part = "connection" => Tokens) /\ (part = "discovery" => Discovered)
<1>1. ASSUME MCInit  PROVE Inv
  BY <1>1, TokensInit, DiscoveredInit DEF MCInit
<1>2. ASSUME Inv, [MCNext]_all_vars  PROVE Inv'
  <2>1. CASE part = "connection" /\ (NextConnection \/ UNCHANGED all_vars)
    <3>1. part' = "connection" /\ Tokens  BY <1>2, <2>1 DEF NextConnection, KeptByConnection, all_vars
    <3>2. CASE NextConnection  BY <3>1, <3>2, TokensNext DEF NextConnection
    <3>3. CASE UNCHANGED all_vars
      <4>1. UNCHANGED OfConnection /\ UNCHANGED past  BY <3>3 DEF all_vars, OfOthers
      <4>2. QED  BY <3>1, <4>1, TokensRest
    <3>4. QED  BY <2>1, <3>2, <3>3
  <2>2. CASE part = "discovery" /\ (NextDiscovery \/ UNCHANGED all_vars)
    <3>1. part' = "discovery" /\ Discovered  BY <1>2, <2>2 DEF NextDiscovery, KeptByDiscovery, all_vars
    <3>2. CASE NextDiscovery  BY <3>1, <3>2, DiscoveredNext DEF NextDiscovery
    <3>3. CASE UNCHANGED all_vars
      <4>1. UNCHANGED OfDiscovery  BY <3>3 DEF all_vars, OfOthers
      <4>2. QED  BY <3>1, <4>1, DiscoveredRest
    <3>4. QED  BY <2>2, <3>2, <3>3
  <2>3. CASE part \notin {"connection", "discovery"}
    <3>1. part' = part
      BY <1>2, <2>3 DEF MCNext, NextUpload, NextOutbox, NextReminders, NextFeedback, NextConnection, NextDiscovery,
                        KeptByOutbox, KeptByReminders, KeptByFeedback, all_vars
    <3>2. QED  BY <2>3, <3>1
  <2>4. part = "connection" => NextConnection \/ UNCHANGED all_vars
    BY <1>2 DEF MCNext, NextUpload, NextOutbox, NextReminders, NextFeedback, NextDiscovery
  <2>5. part = "discovery" => NextDiscovery \/ UNCHANGED all_vars
    BY <1>2 DEF MCNext, NextUpload, NextOutbox, NextReminders, NextFeedback, NextConnection
  <2>6. QED  BY <2>1, <2>2, <2>3, <2>4, <2>5
<1>3. Inv => HhIsKept  BY TokensHold, DiscoveredHolds DEF HhIsKept
<1>4. QED  BY <1>1, <1>2, <1>3, PTL DEF MCSpec
-----------------------------------------------------------------------------
(* A letter: the part "outbox" of MCOutside. *)

Postmen == {e \in Executions : exec[e].pc \in {"claimed", "send"}}

\* Every attempt that may still send, and every letter delivered, has been paid for by an attempt of the
\* job; and what an execution is about to record as sent has been delivered.
Posted ==
    /\ message \in O!EmailStatus /\ job \in O!Job /\ exec \in [Executions -> O!Exec]
    /\ delivered \in Nat /\ delivered + Cardinality(Postmen) <= job.attempts
    /\ message = "sent" => delivered > 0
    /\ \A e \in Executions : exec[e].pc = "record" /\ exec[e].outcome = "sent" => delivered > 0

\* Until a lease is lost one execution is at work; it sends only what is not recorded as sent, and ends a
\* job well only when the letter is.
OnePostman ==
    /\ \A e, f \in Executions : exec[e].pc # "idle" /\ exec[f].pc # "idle" => e = f
    /\ \A e \in Executions :
         /\ exec[e].pc = "send" => message # "sent"
         /\ exec[e].pc = "record" /\ exec[e].outcome = "failed" => message # "sent"
         /\ exec[e].pc = "end" /\ exec[e].outcome = "sent" => message = "sent"
         /\ exec[e].pc # "idle" => job.status # "succeeded"
    /\ job.status = "succeeded" => message = "sent"
Post == Posted /\ (~job.lost => OnePostman)

LEMMA PostTypes ==
    ASSUME Posted
    PROVE  /\ message \in O!EmailStatus /\ job \in O!Job /\ exec \in [Executions -> O!Exec]
           /\ delivered \in Nat /\ job.attempts \in 0 .. email_attempts /\ email_attempts \in Nat
           /\ IsFiniteSet(Postmen) /\ Cardinality(Postmen) \in Nat
<1>1. IsFiniteSet(Postmen) /\ Cardinality(Postmen) \in Nat
  BY SizesOK, Fewer DEF Postmen
<1>2. QED  BY <1>1, SizesOK DEF Posted, O!Job

LEMMA PostHolds == ASSUME Post  PROVE O!StatusIsTrue
<1>1. Posted  BY DEF Post
<1>2. delivered <= job.attempts /\ delivered \in 0 .. email_attempts  BY <1>1, PostTypes DEF Posted
<1>3. O!TypeOK  BY <1>1, <1>2 DEF Posted, O!TypeOK
<1>4. O!SentIsDelivered /\ O!OncePerAttempt  BY <1>1, <1>2 DEF Posted, O!SentIsDelivered, O!OncePerAttempt
<1>5. O!SucceededIsSent  BY DEF Post, OnePostman, O!SucceededIsSent
<1>6. QED  BY <1>3, <1>4, <1>5 DEF O!StatusIsTrue

LEMMA PostInit == ASSUME O!Init  PROVE Post
<1>1. exec = [e \in Executions |-> O!Idle] /\ O!Idle \in O!Exec /\ O!Idle.pc = "idle"
  BY DEF O!Init, O!Idle, O!Exec, O!Outcomes
<1>2. \A e \in Executions : exec[e].pc = "idle"  BY <1>1
<1>3. Postmen = {}  BY <1>2 DEF Postmen
<1>4. Cardinality(Postmen) = 0  BY <1>3, FS_EmptySet
<1>5. /\ message = "queued" /\ delivered = 0 /\ job \in O!Job /\ job.attempts = 0 /\ job.status = "queued"
  BY SizesOK DEF O!Init, O!Job
<1>6. Posted  BY <1>1, <1>2, <1>4, <1>5 DEF Posted, O!EmailStatus
<1>7. OnePostman  BY <1>2, <1>5 DEF OnePostman
<1>8. QED  BY <1>6, <1>7 DEF Post

\* One execution moves. It spends what it may still send when it has sent.
LEMMA PostmanMoves ==
    ASSUME Post, NEW e \in Executions, NEW x \in O!Exec, exec' = [exec EXCEPT ![e] = x],
           exec[e].pc # "idle", message' \in O!EmailStatus, UNCHANGED job,
           delivered' \in {delivered, delivered + 1}, delivered' > delivered => exec[e].pc = "send",
           x.pc \in {"claimed", "send"} => exec[e].pc = "claimed" /\ delivered' = delivered,
           exec[e].pc = "send" => x.pc \notin {"claimed", "send"},
           message' = "sent" => message = "sent" \/ delivered' > 0,
           x.pc = "record" /\ x.outcome = "sent" => delivered' > 0,
           ~job.lost => /\ x.pc = "send" => message' # "sent"
                        /\ x.pc = "record" /\ x.outcome = "failed" => message' # "sent"
                        /\ x.pc = "end" /\ x.outcome = "sent" => message' = "sent"
                        /\ message = "sent" => message' = "sent"
    PROVE  Post'
<1>1. /\ Posted /\ exec \in [Executions -> O!Exec] /\ IsFiniteSet(Postmen) /\ Cardinality(Postmen) \in Nat
      /\ delivered \in Nat /\ job.attempts \in Nat
  BY PostTypes DEF Post
<1>2. exec' \in [Executions -> O!Exec] /\ exec'[e] = x /\ \A f \in Executions : f # e => exec'[f] = exec[f]
  BY <1>1
<1>3. delivered' + Cardinality(Postmen') <= job.attempts
  <2>1. Postmen' \subseteq Postmen  BY <1>2 DEF Postmen
  <2>2. Cardinality(Postmen') \in Nat /\ Cardinality(Postmen') <= Cardinality(Postmen)
    BY <1>1, <2>1, Fewer
  <2>3. CASE delivered' = delivered  BY <1>1, <2>2, <2>3 DEF Posted
  <2>4. CASE exec[e].pc = "send"
    <3>1. e \in Postmen /\ Postmen' \subseteq Postmen \ {e}  BY <1>2, <2>1, <2>4 DEF Postmen
    <3>2. Cardinality(Postmen') + 1 <= Cardinality(Postmen)  BY <1>1, <3>1, Fewer
    <3>3. QED  BY <1>1, <2>2, <3>2 DEF Posted
  <2>5. QED  BY <1>1, <2>3, <2>4
<1>4. delivered' \in Nat /\ (delivered > 0 => delivered' > 0)  BY <1>1
<1>5. Posted'
  <2>1. message' = "sent" => delivered' > 0  BY <1>1, <1>4 DEF Posted
  <2>2. \A f \in Executions : exec'[f].pc = "record" /\ exec'[f].outcome = "sent" => delivered' > 0
    BY <1>1, <1>2, <1>4 DEF Posted
  <2>3. QED  BY <1>1, <1>2, <1>3, <1>4, <2>1, <2>2 DEF Posted
<1>6. ASSUME ~job.lost  PROVE OnePostman'
  <2>1. OnePostman  BY <1>6 DEF Post
  <2>2. \A f \in Executions : exec'[f].pc # "idle" => f = e  BY <1>2, <2>1 DEF OnePostman
  <2>3. job'.status # "succeeded"  BY <2>1 DEF OnePostman
  <2>4. QED  BY <1>2, <1>6, <2>2, <2>3 DEF OnePostman
<1>7. QED  BY <1>5, <1>6 DEF Post

LEMMA PostmanKeeps ==
    ASSUME Post, NEW e \in Executions, O!Load(e) \/ O!Accepted(e) \/ O!Refused(e) \/ O!Record(e)
    PROVE  Post'
<1>1. /\ Posted /\ exec[e] \in O!Exec /\ exec[e] = [pc |-> exec[e].pc, outcome |-> exec[e].outcome]
      /\ delivered \in Nat /\ message \in O!EmailStatus
  BY PostTypes DEF Post, O!Exec
<1>2. CASE O!Load(e)
  <2> DEFINE x == IF O!Done(message) THEN [pc |-> "end", outcome |-> "sent"]
                                     ELSE [pc |-> "send", outcome |-> "failed"]
  <2>1. /\ exec' = [exec EXCEPT ![e] = x] /\ UNCHANGED <<message, delivered, job>> /\ exec[e].pc = "claimed"
    BY <1>2 DEF O!Load
  <2>2. /\ x \in O!Exec /\ x.pc \in {"end", "send"} /\ (x.pc = "end" => message = "sent")
        /\ (x.pc = "send" => message # "sent")
    BY DEF O!Exec, O!Outcomes, O!Done
  <2> HIDE DEF x
  <2>3. message' = message /\ delivered' = delivered /\ job' = job /\ ~(delivered' > delivered)  BY <1>1, <2>1
  <2>4. QED  BY <1>1, <2>1, <2>2, <2>3, PostmanMoves
<1>3. CASE O!Accepted(e)
  <2> DEFINE x == [pc |-> "record", outcome |-> "sent"]
  <2>1. /\ exec' = [exec EXCEPT ![e] = x] /\ UNCHANGED <<message, job>> /\ exec[e].pc = "send"
        /\ delivered' = delivered + 1
    BY <1>3 DEF O!Accepted
  <2>2. x \in O!Exec /\ x.pc = "record" /\ x.outcome = "sent"  BY DEF O!Exec, O!Outcomes
  <2> HIDE DEF x
  <2>3. message' = message /\ job' = job /\ delivered' > 0  BY <1>1, <2>1
  <2>4. QED  BY <1>1, <2>1, <2>2, <2>3, PostmanMoves
<1>4. CASE O!Refused(e)
  <2> DEFINE x == [pc |-> "record", outcome |-> "failed"]
  <2>1. /\ exec' = [exec EXCEPT ![e] = x] /\ UNCHANGED <<message, job>> /\ exec[e].pc = "send"
        /\ delivered' \in {delivered, delivered + 1}
    BY <1>4 DEF O!Refused
  <2>2. x \in O!Exec /\ x.pc = "record" /\ x.outcome = "failed"  BY DEF O!Exec, O!Outcomes
  <2> HIDE DEF x
  <2>3. ~job.lost => message # "sent"  BY <2>1 DEF Post, OnePostman
  <2>4. QED  BY <1>1, <2>1, <2>2, <2>3, PostmanMoves
<1>5. CASE O!Record(e)
  <2> DEFINE x == [exec[e] EXCEPT !.pc = "end"]
  <2>1. /\ exec' = [exec EXCEPT ![e] = x] /\ UNCHANGED <<delivered, job>> /\ exec[e].pc = "record"
        /\ message' = exec[e].outcome
    BY <1>5 DEF O!Record, O!Recorded
  <2>2. x \in O!Exec /\ x.pc = "end" /\ x.outcome = exec[e].outcome /\ exec[e].outcome \in {"sent", "failed"}
    BY <1>1 DEF O!Exec, O!Outcomes
  <2> HIDE DEF x
  <2>3. ~job.lost => (exec[e].outcome = "failed" => message # "sent")  BY <2>1 DEF Post, OnePostman
  <2>4. exec[e].outcome = "sent" => delivered > 0  BY <1>1, <2>1 DEF Posted
  <2>5. message' \in O!EmailStatus  BY <2>1, <2>2 DEF O!EmailStatus
  <2>6. delivered' = delivered /\ job' = job /\ ~(delivered' > delivered)  BY <1>1, <2>1
  <2>7. QED  BY <1>1, <2>1, <2>2, <2>3, <2>4, <2>5, <2>6, PostmanMoves
<1>6. QED  BY <1>2, <1>3, <1>4, <1>5

\* The rows and the mail server are left alone but for the job, and executions only become idle.
LEMMA PostmanGoes ==
    ASSUME Post, UNCHANGED <<message, delivered>>, job' \in O!Job, job'.attempts = job.attempts,
           job'.lost = job.lost, exec' \in [Executions -> O!Exec],
           \A f \in Executions : exec'[f] = exec[f] \/ exec'[f].pc = "idle",
           job'.status = "succeeded" =>
              job.status = "succeeded" \/ (~job.lost => message = "sent" /\ \A f \in Executions : exec'[f].pc = "idle")
    PROVE  Post'
<1>1. Posted /\ IsFiniteSet(Postmen) /\ Cardinality(Postmen) \in Nat /\ delivered \in Nat /\ job.attempts \in Nat
  BY PostTypes DEF Post
<1>2. Postmen' \subseteq Postmen  BY DEF Postmen
<1>3. Cardinality(Postmen') \in Nat /\ Cardinality(Postmen') <= Cardinality(Postmen)  BY <1>1, <1>2, Fewer
<1>4. Posted'  BY <1>1, <1>3 DEF Posted
<1>5. ASSUME ~job.lost  PROVE OnePostman'
  <2>1. OnePostman  BY <1>5 DEF Post
  <2>2. QED  BY <1>5, <2>1 DEF OnePostman
<1>6. QED  BY <1>4, <1>5 DEF Post

LEMMA EndPosts == ASSUME Post, NEW e \in Executions, O!End(e)  PROVE Post'
<1> DEFINE ended == IF exec[e].outcome = "sent" THEN "succeeded"
                    ELSE IF O!AttemptsLeft THEN "queued" ELSE "failed"
           after == [job EXCEPT !.status = ended, !.owner = 0]
<1>1. Posted /\ job \in O!Job /\ exec \in [Executions -> O!Exec]  BY PostTypes DEF Post
<1>2. /\ exec[e].pc = "end" /\ UNCHANGED <<message, delivered>> /\ exec' = [exec EXCEPT ![e] = O!Idle]
      /\ job' = IF job.status = "running" /\ job.owner = e THEN after ELSE job
  BY Zenon DEF O!End
<1>3. ended \in {"succeeded", "queued", "failed"} /\ (ended = "succeeded" => exec[e].outcome = "sent")  OBVIOUS
<1> HIDE DEF ended
<1>4. after \in O!Job /\ after.status = ended /\ after.attempts = job.attempts /\ after.lost = job.lost
  BY <1>1, <1>3 DEF O!Job
<1> HIDE DEF after
<1>5. job' \in O!Job /\ job'.attempts = job.attempts /\ job'.lost = job.lost /\ (job' = job \/ job'.status = ended)
  BY <1>1, <1>2, <1>4
<1>6. O!Idle \in O!Exec /\ O!Idle.pc = "idle"  BY DEF O!Idle, O!Exec, O!Outcomes
<1>7. /\ exec' \in [Executions -> O!Exec] /\ exec'[e].pc = "idle"
      /\ \A f \in Executions : f # e => exec'[f] = exec[f]
  BY <1>1, <1>2, <1>6
<1>8. ASSUME ~job.lost, ended = "succeeded"
      PROVE  message = "sent" /\ \A f \in Executions : exec'[f].pc = "idle"
  <2>1. OnePostman  BY <1>8 DEF Post
  <2>2. QED  BY <1>2, <1>3, <1>7, <1>8, <2>1 DEF OnePostman
<1>9. QED  BY <1>2, <1>5, <1>7, <1>8, PostmanGoes

LEMMA DiePosts == ASSUME Post, O!Die  PROVE Post'
<1>1. Posted /\ job \in O!Job /\ job.deaths < MaxDeaths  BY PostTypes DEF Post, O!Die
<1>2. /\ UNCHANGED <<message, delivered>> /\ exec' = [e \in Executions |-> O!Idle]
      /\ job' = [job EXCEPT !.deaths = @ + 1]
  BY DEF O!Die
<1>3. job' \in O!Job /\ job'.status = job.status /\ job'.attempts = job.attempts /\ job'.lost = job.lost
  BY <1>1, <1>2, SizesOK DEF O!Job
<1>4. O!Idle \in O!Exec /\ O!Idle.pc = "idle"  BY DEF O!Idle, O!Exec, O!Outcomes
<1>5. exec' \in [Executions -> O!Exec] /\ \A f \in Executions : exec'[f].pc = "idle"  BY <1>2, <1>4
<1>6. QED  BY <1>2, <1>3, <1>5, PostmanGoes

LEMMA ClaimPosts == ASSUME Post, NEW e \in Executions, O!Claim(e)  PROVE Post'
<1>1. /\ Posted /\ job \in O!Job /\ exec \in [Executions -> O!Exec] /\ delivered \in Nat
      /\ IsFiniteSet(Postmen) /\ Cardinality(Postmen) \in Nat /\ job.attempts \in 0 .. email_attempts
      /\ email_attempts \in Nat
  BY PostTypes DEF Post
<1>2. exec[e].pc = "idle" /\ O!Claimable /\ UNCHANGED <<message, delivered>>  BY Zenon DEF O!Claim
<1>3. CASE O!AttemptsLeft
  <2> DEFINE after == [job EXCEPT !.status = "running", !.attempts = O!Attempt, !.owner = e,
                                  !.lost = @ \/ O!Running # {}]
  <2>1. job' = after /\ exec' = [exec EXCEPT ![e].pc = "claimed"]  BY <1>3, Zenon DEF O!Claim
  <2>2. job.attempts + 1 \in 0 .. email_attempts  BY <1>1, <1>3 DEF O!AttemptsLeft
  <2>3. /\ after \in O!Job /\ after.status = "running" /\ after.attempts = job.attempts + 1
        /\ after.lost = (job.lost \/ O!Running # {})
    BY <1>1, <2>2 DEF O!Job, O!Attempt
  <2> HIDE DEF after
  <2>4. /\ exec' \in [Executions -> O!Exec] /\ exec'[e].pc = "claimed"
        /\ \A f \in Executions : f # e => exec'[f] = exec[f]
    BY <1>1, <2>1 DEF O!Exec
  <2>5. Postmen' \subseteq Postmen \cup {e}  BY <2>4 DEF Postmen
  <2>6. Cardinality(Postmen') \in Nat /\ Cardinality(Postmen') <= Cardinality(Postmen) + 1  BY <1>1, <2>5, Fewer
  <2>7. delivered' + Cardinality(Postmen') <= job'.attempts  BY <1>1, <1>2, <2>1, <2>3, <2>6 DEF Posted
  <2>8. Posted'  BY <1>1, <1>2, <2>1, <2>3, <2>4, <2>7 DEF Posted
  <2>9. ASSUME ~job'.lost  PROVE OnePostman'
    <3>1. \A f \in Executions : exec[f].pc = "idle"  BY <2>1, <2>3, <2>9 DEF O!Running
    <3>2. \A f \in Executions : f # e => exec'[f].pc = "idle"  BY <2>4, <3>1
    <3>3. QED  BY <2>1, <2>3, <2>4, <3>2 DEF OnePostman
  <2>10. QED  BY <2>8, <2>9 DEF Post
<1>4. CASE ~O!AttemptsLeft
  <2>1. job' = [job EXCEPT !.status = "failed", !.owner = 0] /\ UNCHANGED exec  BY <1>4, Zenon DEF O!Claim
  <2>2. /\ job' \in O!Job /\ job'.status = "failed" /\ job'.attempts = job.attempts /\ job'.lost = job.lost
    BY <1>1, <2>1 DEF O!Job
  <2>3. QED  BY <1>1, <1>2, <2>1, <2>2, PostmanGoes
<1>5. QED  BY <1>3, <1>4

LEMMA PostNext == ASSUME Post, O!Next  PROVE Post'
<1>1. CASE \E e \in Executions : O!Load(e) \/ O!Accepted(e) \/ O!Refused(e) \/ O!Record(e)
  BY <1>1, PostmanKeeps
<1>2. CASE \E e \in Executions : O!Claim(e)  BY <1>2, ClaimPosts
<1>3. CASE \E e \in Executions : O!End(e)  BY <1>3, EndPosts
<1>4. CASE O!Die  BY <1>4, DiePosts
<1>5. QED  BY <1>1, <1>2, <1>3, <1>4, Zenon DEF O!Next

LEMMA PostRest == ASSUME Post, UNCHANGED <<message, delivered, job, exec>>  PROVE Post'
<1>1. Posted /\ job \in O!Job /\ exec \in [Executions -> O!Exec]  BY PostTypes DEF Post
<1>2. QED  BY <1>1, PostmanGoes

\* Of a letter that is sent the mail server had not taken a copy that is recorded.
LEMMA SentOnce == ASSUME Post, O!Next  PROVE O!NotSentAgain
<1>1. ASSUME delivered' > delivered, ~job.lost  PROVE message # "sent"
  <2>1. OnePostman /\ delivered \in Nat  BY <1>1, PostTypes DEF Post
  <2>2. \E e \in Executions : exec[e].pc = "send"
    <3>1. \/ delivered' = delivered \/ \E e \in Executions : O!Accepted(e) \/ O!Refused(e)
      BY Zenon DEF O!Next, O!Claim, O!Load, O!Record, O!End, O!Die
    <3>2. QED  BY <1>1, <2>1, <3>1 DEF O!Accepted, O!Refused
  <2>3. QED  BY <2>1, <2>2 DEF OnePostman
<1>2. QED  BY <1>1 DEF O!NotSentAgain

-----------------------------------------------------------------------------
(* A reminder: the part "reminders" of MCOutside. *)

Composer(e) == exec[e].pc = "compose"
Composers == {e \in Executions : Composer(e)}
Reminding == R!Letters("reminder")
Inviting == R!Letters("invitation")

\* Letters are bounded: of reminders there are no more than executions that wrote one or will, and none
\* without the mark. What an execution has seen of an interview from hh is so still, and a link is stored
\* when somebody was sent one by the recruiter.
Written ==
    /\ interview \in R!Interview /\ left \in R!Times /\ job \in R!Job /\ exec \in [Executions -> R!Exec]
    /\ recruiter \in [pc : {"idle", "resend"}, seen : R!Interview]
    /\ past \in [twice : BOOLEAN, raced : BOOLEAN] /\ outbox \in Seq(R!Letter)
    /\ Cardinality(Reminding) + Cardinality(Composers) <= Cardinality(Executions)
    /\ ~interview.reminded => Reminding = {}
    /\ Cardinality(Inviting) + (IF recruiter.pc = "resend" THEN 1 ELSE 0) <= MaxLetters
    /\ \A e \in Executions : Composer(e) => exec[e].seen.hh = interview.hh
    /\ Inviting # {} => interview.stored
    /\ R!ChatLinkKept

\* Until two executions overlap one is at work, and it composes the first reminder.
OneComposer ==
    /\ \A e, f \in Executions : exec[e].pc # "idle" /\ exec[f].pc # "idle" => e = f
    /\ \A e \in Executions : Composer(e) => ~interview.reminded
    /\ interview.reminded => Cardinality(Reminding) = 1

\* Until the recruiter acts while a reminder is composed, the link an execution has seen is the one of the
\* row, unless all of them have seen none and one has stored a new one.
SeesLink(e) ==
    LET seen == exec[e].seen
    IN /\ ~interview.reminded \/ seen.hh => seen.stored = interview.stored
       /\ seen.stored => interview.stored /\ seen.token = interview.token
LinksSeen ==
    /\ recruiter.pc = "resend" => Composers = {}
    /\ \A e \in Executions : Composer(e) => SeesLink(e)
    /\ \A e, f \in Executions : Composer(e) /\ Composer(f) => exec[e].seen.stored = exec[f].seen.stored
Remind ==
    /\ Written
    /\ ~past.twice => OneComposer
    /\ ~past.raced => LinksSeen /\ R!NewestLinkWorks /\ R!ReminderHasLink

LEMMA TokensAre ==
    /\ Cardinality(Executions) \in Nat /\ MaxLetters \in Nat /\ IsFiniteSet(Executions)
    /\ \A S : R!Cardinality(S) = Cardinality(S)
    /\ R!Tokens = 1 .. (MaxLetters + Cardinality(Executions) + 1) /\ 1 \in R!Tokens /\ 0 \notin R!Tokens
<1>1. \A S : R!Cardinality(S) = Cardinality(S)  BY Zenon DEF R!Cardinality, Cardinality
<1>2. Cardinality(Executions) \in Nat /\ MaxLetters \in Nat /\ IsFiniteSet(Executions)
  BY SizesOK, FS_CardinalityType
<1>3. R!Tokens = 1 .. (MaxLetters + Cardinality(Executions) + 1)  BY <1>1, Zenon DEF R!Tokens
<1>4. QED  BY <1>1, <1>2, <1>3

LEMMA LettersCount ==
    ASSUME Written
    PROVE  /\ IsFiniteSet(Reminding) /\ Cardinality(Reminding) \in Nat
           /\ IsFiniteSet(Inviting) /\ Cardinality(Inviting) \in Nat
           /\ IsFiniteSet(Composers) /\ Cardinality(Composers) \in Nat
           /\ Len(outbox) \in Nat /\ Len(outbox) = Cardinality(Reminding) + Cardinality(Inviting)
<1>1. outbox \in Seq(R!Letter) /\ Len(outbox) \in Nat /\ \A k \in 1 .. Len(outbox) : outbox[k] \in R!Letter
  BY DEF Written
<1>2. IsFiniteSet(1 .. Len(outbox)) /\ Cardinality(1 .. Len(outbox)) = Len(outbox)
  <2>1. \A n \in Nat : IsFiniteSet(1 .. n) /\ Cardinality(1 .. n) = n  BY FS_Interval
  <2>2. QED  BY <1>1, <2>1
<1>3. /\ Reminding \subseteq 1 .. Len(outbox) /\ Inviting \subseteq 1 .. Len(outbox)
      /\ Reminding \cup Inviting = 1 .. Len(outbox) /\ Reminding \cap Inviting = {}
  BY <1>1 DEF Reminding, Inviting, R!Letters, R!Letter
<1>4. /\ IsFiniteSet(Reminding) /\ Cardinality(Reminding) \in Nat
      /\ IsFiniteSet(Inviting) /\ Cardinality(Inviting) \in Nat
  BY <1>2, <1>3, Fewer
<1>5. IsFiniteSet(Composers) /\ Cardinality(Composers) \in Nat  BY TokensAre, Fewer DEF Composers
<1>6. Len(outbox) = Cardinality(Reminding) + Cardinality(Inviting)
  <2>1. Cardinality(Reminding \cap Inviting) = 0  BY <1>3, FS_EmptySet
  <2>2. Cardinality(Reminding \cup Inviting)
          = Cardinality(Reminding) + Cardinality(Inviting) - Cardinality(Reminding \cap Inviting)
    BY <1>4, FS_Union
  <2>3. Cardinality(Reminding \cup Inviting) = Len(outbox)  BY <1>2, <1>3, Zenon
  <2>4. QED  BY <1>1, <1>4, <2>1, <2>2, <2>3
<1>7. QED  BY <1>1, <1>4, <1>5, <1>6

LEMMA RemindHolds == ASSUME Remind  PROVE R!RemindedOnce /\ R!LinksWork
<1>1. Written  BY DEF Remind
<1>2. R!TypeOK
  <2>1. Len(outbox) <= MaxLetters + R!Cardinality(Executions)
    <3>1. /\ Cardinality(Reminding) + Cardinality(Composers) <= Cardinality(Executions)
          /\ Cardinality(Inviting) <= MaxLetters
      BY <1>1, LettersCount, TokensAre DEF Written
    <3>2. QED  BY <1>1, <3>1, LettersCount, TokensAre
  <2>2. QED  BY <1>1, <2>1 DEF Written, R!TypeOK
<1>3. R!RemindedOnce
  <2>1. R!Cardinality(R!Letters("reminder")) = Cardinality(Reminding)  BY TokensAre DEF Reminding
  <2>2. ~interview.reminded => Cardinality(Reminding) = 0  BY <1>1, FS_EmptySet DEF Written
  <2>3. ~past.twice => (interview.reminded => Cardinality(Reminding) = 1)  BY DEF Remind, OneComposer
  <2>4. QED  BY <2>1, <2>2, <2>3 DEF R!RemindedOnce
<1>4. R!NewestLinkWorks /\ R!ReminderHasLink
  BY DEF Remind, R!NewestLinkWorks, R!ReminderHasLink
<1>5. QED  BY <1>1, <1>2, <1>3, <1>4 DEF R!LinksWork, Written

LEMMA RemindInit == ASSUME R!Init  PROVE Remind
<1>1. R!Idle \in R!Exec /\ R!Idle \in [pc : {"idle", "resend"}, seen : R!Interview] /\ R!Idle.pc = "idle"
  BY TokensAre DEF R!Idle, R!Exec, R!Unknown, R!Interview
<1>2. /\ interview \in R!Interview /\ interview.token = 1 /\ interview.reminded = FALSE
      /\ interview.status = "unfinished"
  <2>1. PICK s, h \in BOOLEAN : interview = [R!Unknown EXCEPT !.stored = s, !.hh = h]  BY Zenon DEF R!Init
  <2>2. QED  BY <2>1, TokensAre DEF R!Unknown, R!Interview
<1>3. /\ left \in R!Times /\ job \in R!Job /\ outbox = <<>>
      /\ past \in [twice : BOOLEAN, raced : BOOLEAN]
  <2>1. /\ left = "more" /\ job = [status |-> "none", attempts |-> 0, owner |-> 0]
        /\ outbox = <<>> /\ past = [twice |-> FALSE, raced |-> FALSE]
    BY DEF R!Init
  <2>2. 0 \in 0 .. reminder_attempts  BY SizesOK
  <2>3. QED  BY <2>1, <2>2 DEF R!Times, R!Job
<1>4. exec \in [Executions -> R!Exec] /\ \A e \in Executions : exec[e].pc = "idle"  BY <1>1 DEF R!Init
<1>5. recruiter \in [pc : {"idle", "resend"}, seen : R!Interview] /\ recruiter.pc = "idle"
  <2>1. recruiter = R!Idle  BY DEF R!Init, R!Idle
  <2>2. QED  BY <1>1, <2>1
<1>6. Reminding = {} /\ Inviting = {} /\ Composers = {}
  BY <1>3, <1>4 DEF Reminding, Inviting, Composers, Composer, R!Letters
<1>7. Cardinality(Reminding) = 0 /\ Cardinality(Inviting) = 0 /\ Cardinality(Composers) = 0
  BY <1>6, FS_EmptySet
<1>8. Written
  <2>1. outbox \in Seq(R!Letter)  BY <1>3
  <2>2. R!ChatLinkKept  BY <1>2 DEF R!ChatLinkKept
  <2>3. \A e \in Executions : ~Composer(e)  BY <1>4 DEF Composer
  <2>4. Cardinality(Reminding) + Cardinality(Composers) <= Cardinality(Executions)  BY <1>7, TokensAre
  <2>5. Cardinality(Inviting) + (IF recruiter.pc = "resend" THEN 1 ELSE 0) <= MaxLetters
    BY <1>5, <1>7, TokensAre
  <2>6. QED  BY <1>2, <1>3, <1>4, <1>5, <1>6, <2>1, <2>2, <2>3, <2>4, <2>5 DEF Written
<1>9. OneComposer  BY <1>2, <1>4 DEF OneComposer, Composer
<1>10. LinksSeen  BY <1>4, <1>6 DEF LinksSeen, Composer
<1>11. R!NewestLinkWorks /\ R!ReminderHasLink  BY <1>3 DEF R!NewestLinkWorks, R!ReminderHasLink
<1>12. QED  BY <1>8, <1>9, <1>10, <1>11 DEF Remind

\* Steps that write no letter and let nobody begin to compose: what the row says of the link, and whether a
\* reminder has gone, stays.
LEMMA NoLetter ==
    ASSUME Remind, UNCHANGED outbox, interview' \in R!Interview,
           interview'.token = interview.token, interview'.stored = interview.stored,
           interview'.hh = interview.hh, interview'.reminded = interview.reminded,
           left' \in R!Times, job' \in R!Job, exec' \in [Executions -> R!Exec],
           \A f \in Executions : exec'[f].pc = "compose" => exec'[f] = exec[f],
           past' \in [twice : BOOLEAN, raced : BOOLEAN],
           ~past'.twice =>
              ~past.twice /\ \A e, f \in Executions : exec'[e].pc # "idle" /\ exec'[f].pc # "idle" => e = f,
           ~past'.raced => ~past.raced /\ (recruiter'.pc = "resend" => Composers' = {}),
           recruiter' \in [pc : {"idle", "resend"}, seen : R!Interview],
           recruiter'.pc = "resend" => Cardinality(Inviting) + 1 <= MaxLetters
    PROVE  Remind'
<1>1. Written  BY DEF Remind
<1>2. Reminding' = Reminding /\ Inviting' = Inviting  BY DEF Reminding, Inviting, R!Letters
<1>3. Composers' \subseteq Composers  BY DEF Composers, Composer
<1>4. \A f \in Executions : Composer(f)' => Composer(f) /\ exec'[f] = exec[f]  BY DEF Composer
<1>5. Written'
  <2>1. Cardinality(Composers') \in Nat /\ Cardinality(Composers') <= Cardinality(Composers)
    BY <1>1, <1>3, LettersCount, Fewer
  <2>2. Cardinality(Reminding') + Cardinality(Composers') <= Cardinality(Executions)
    BY <1>1, <1>2, <2>1, LettersCount, TokensAre DEF Written
  <2>3. Cardinality(Inviting') + (IF recruiter'.pc = "resend" THEN 1 ELSE 0) <= MaxLetters
    <3>1. Cardinality(Inviting) <= MaxLetters  BY <1>1, LettersCount, TokensAre DEF Written
    <3>2. QED  BY <1>1, <1>2, <3>1, LettersCount, TokensAre
  <2>4. R!ChatLinkKept'  BY <1>1 DEF Written, R!ChatLinkKept
  <2>5. \A f \in Executions : Composer(f)' => exec'[f].seen.hh = interview'.hh  BY <1>1, <1>4 DEF Written
  <2>6. outbox' \in Seq(R!Letter) /\ (~interview'.reminded => Reminding' = {})
        /\ (Inviting' # {} => interview'.stored)
    BY <1>1, <1>2 DEF Written
  <2>7. QED  BY <2>2, <2>3, <2>4, <2>5, <2>6 DEF Written
<1>6. ASSUME ~past'.twice  PROVE OneComposer'
  <2>1. OneComposer  BY <1>6 DEF Remind
  <2>2. QED  BY <1>2, <1>4, <1>6, <2>1 DEF OneComposer
<1>7. ASSUME ~past'.raced  PROVE LinksSeen' /\ R!NewestLinkWorks' /\ R!ReminderHasLink'
  <2>1. LinksSeen /\ R!NewestLinkWorks /\ R!ReminderHasLink /\ ~past.raced  BY <1>7 DEF Remind
  <2>2. \A f \in Executions : Composer(f)' => SeesLink(f)'  BY <1>4, <2>1 DEF LinksSeen, SeesLink
  <2>3. LinksSeen'  BY <1>4, <1>7, <2>1, <2>2 DEF LinksSeen
  <2>4. R!NewestLinkWorks'  BY <2>1 DEF R!NewestLinkWorks
  <2>5. R!ReminderHasLink'  BY <2>1 DEF R!ReminderHasLink
  <2>6. QED  BY <2>3, <2>4, <2>5
<1>8. QED  BY <1>5, <1>6, <1>7 DEF Remind

LEMMA RemindTypes ==
    ASSUME Remind
    PROVE  /\ interview \in R!Interview /\ left \in R!Times /\ job \in R!Job /\ exec \in [Executions -> R!Exec]
           /\ recruiter \in [pc : {"idle", "resend"}, seen : R!Interview]
           /\ past \in [twice : BOOLEAN, raced : BOOLEAN] /\ outbox \in Seq(R!Letter)
           /\ R!Idle \in R!Exec /\ R!Idle.pc = "idle" /\ R!Idle = [pc |-> "idle", seen |-> R!Unknown]
           /\ R!Unknown \in R!Interview
           /\ recruiter.pc = "resend" => Cardinality(Inviting) + 1 <= MaxLetters
           /\ ~past.twice => \A e, f \in Executions : exec[e].pc # "idle" /\ exec[f].pc # "idle" => e = f
           /\ ~past.raced => (recruiter.pc = "resend" => Composers = {})
           /\ reminder_attempts \in Nat
BY TokensAre, SizesOK DEF Remind, Written, OneComposer, LinksSeen, R!Idle, R!Exec, R!Unknown, R!Interview

\* Time, the candidate and the schedule.
LEMMA TimeReminds ==
    ASSUME Remind, R!Tick \/ R!Expire \/ R!Finish \/ R!schedule_reminders
    PROVE  Remind'
<1>1. UNCHANGED <<exec, recruiter, outbox, past>>  BY DEF R!Tick, R!Expire, R!Finish, R!schedule_reminders
<1>2. left' \in R!Times
  BY RemindTypes DEF R!Tick, R!Expire, R!Finish, R!schedule_reminders, R!Times
<1>3. job' \in R!Job
  BY RemindTypes DEF R!Tick, R!Expire, R!Finish, R!schedule_reminders, R!Job
<1>4. /\ interview' \in R!Interview /\ interview'.token = interview.token
      /\ interview'.stored = interview.stored /\ interview'.hh = interview.hh
      /\ interview'.reminded = interview.reminded
  BY RemindTypes DEF R!Tick, R!Expire, R!Finish, R!schedule_reminders, R!Interview
<1>5. Composers' = Composers  BY <1>1 DEF Composers, Composer
<1>6. QED  BY <1>1, <1>2, <1>3, <1>4, <1>5, RemindTypes, NoLetter

LEMMA BeginReminds == ASSUME Remind, R!BeginResend  PROVE Remind'
<1>1. UNCHANGED <<interview, left, job, exec, outbox>>  BY DEF R!BeginResend
<1>2. R!Cardinality(R!Letters("invitation")) < MaxLetters  BY Zenon DEF R!BeginResend
<1>3. Cardinality(Inviting) + 1 <= MaxLetters
  <2>1. Cardinality(Inviting) \in Nat /\ Cardinality(Inviting) < MaxLetters
    BY <1>2, LettersCount, TokensAre DEF Inviting, Remind
  <2>2. QED  BY <2>1, TokensAre
<1>4. recruiter' \in [pc : {"idle", "resend"}, seen : R!Interview]
  <2>1. recruiter' = [pc |-> "resend", seen |-> interview]  BY DEF R!BeginResend
  <2>2. QED  BY <2>1, RemindTypes
<1>5. /\ past' \in [twice : BOOLEAN, raced : BOOLEAN] /\ past'.twice = past.twice
      /\ ~past'.raced => ~past.raced /\ Composers' = {}
  <2>1. past' = [past EXCEPT !.raced = @ \/ R!Composing # {}]  BY DEF R!BeginResend
  <2>2. Composers' = R!Composing  BY <1>1 DEF Composers, Composer, R!Composing
  <2>3. QED  BY <2>1, <2>2, RemindTypes
<1>6. QED  BY <1>1, <1>3, <1>4, <1>5, RemindTypes, NoLetter

LEMMA ClaimReminds == ASSUME Remind, NEW e \in Executions, R!Claim(e)  PROVE Remind'
<1>1. UNCHANGED <<interview, left, recruiter, outbox>> /\ exec[e].pc = "idle"  BY Zenon DEF R!Claim
<1>2. job.attempts \in 0 .. reminder_attempts /\ reminder_attempts \in Nat  BY RemindTypes DEF R!Job
<1>3. CASE R!AttemptsLeft
  <2> DEFINE x == [exec[e] EXCEPT !.pc = "claimed"]
  <2>1. /\ job' = [status |-> "running", attempts |-> job.attempts + 1, owner |-> e]
        /\ exec' = [exec EXCEPT ![e] = x] /\ past' = [past EXCEPT !.twice = @ \/ R!Running # {}]
    BY <1>3 DEF R!Claim
  <2>2. x \in R!Exec /\ x.pc = "claimed"  BY RemindTypes DEF R!Exec
  <2> HIDE DEF x
  <2>3. /\ exec' \in [Executions -> R!Exec] /\ exec'[e].pc = "claimed"
        /\ \A f \in Executions : f # e => exec'[f] = exec[f]
    BY <2>1, <2>2, RemindTypes
  <2>4. job' \in R!Job  BY <1>2, <1>3, <2>1 DEF R!Job, R!AttemptsLeft
  <2>5. /\ past' \in [twice : BOOLEAN, raced : BOOLEAN] /\ past'.raced = past.raced
        /\ ~past'.twice => ~past.twice /\ R!Running = {}
    BY <2>1, RemindTypes
  <2>6. ~past'.twice => \A f \in Executions : f # e => exec'[f].pc = "idle"  BY <2>3, <2>5 DEF R!Running
  <2>7. Composers' = Composers  BY <1>1, <2>3 DEF Composers, Composer
  <2>8. \A f \in Executions : exec'[f].pc = "compose" => exec'[f] = exec[f]  BY <2>3
  <2>9. QED  BY <1>1, <2>3, <2>4, <2>5, <2>6, <2>7, <2>8, RemindTypes, NoLetter
<1>4. CASE ~R!AttemptsLeft
  <2>1. job' = [job EXCEPT !.status = "ended", !.owner = 0] /\ UNCHANGED <<exec, past>>
    BY <1>4, Zenon DEF R!Claim
  <2>2. job' \in R!Job  BY <2>1, RemindTypes DEF R!Job
  <2>3. Composers' = Composers  BY <2>1 DEF Composers, Composer
  <2>4. QED  BY <1>1, <2>1, <2>2, <2>3, RemindTypes, NoLetter
<1>5. QED  BY <1>3, <1>4

\* An execution stops, or finds that no reminder is wanted.
LEMMA StopReminds ==
    ASSUME Remind, NEW e \in Executions, NEW x \in R!Exec, x.pc \in {"idle", "end"}, exec[e].pc # "idle",
           exec' = [exec EXCEPT ![e] = x], UNCHANGED <<interview, left, recruiter, outbox>>, job' \in R!Job,
           past' \in [twice : BOOLEAN, raced : BOOLEAN], past'.twice = past.twice, ~past'.raced => ~past.raced
    PROVE  Remind'
<1>1. /\ exec' \in [Executions -> R!Exec] /\ exec'[e] = x /\ \A f \in Executions : f # e => exec'[f] = exec[f]
  BY RemindTypes
<1>2. Composers' \subseteq Composers  BY <1>1 DEF Composers, Composer
<1>3. \A f \in Executions : exec'[f].pc = "compose" => exec'[f] = exec[f]  BY <1>1
<1>4. \A f \in Executions : exec'[f].pc # "idle" => exec[f].pc # "idle"  BY <1>1
<1>5. recruiter'.pc = "resend" => Cardinality(Inviting) + 1 <= MaxLetters  BY RemindTypes
<1>6. ~past'.twice =>
        ~past.twice /\ \A g, f \in Executions : exec'[g].pc # "idle" /\ exec'[f].pc # "idle" => g = f
  BY <1>4, RemindTypes
<1>7. ~past'.raced => ~past.raced /\ (recruiter'.pc = "resend" => Composers' = {})
  BY <1>2, RemindTypes
<1>8. QED  BY <1>1, <1>3, <1>5, <1>6, <1>7, RemindTypes, NoLetter

LEMMA EndReminds == ASSUME Remind, NEW e \in Executions, R!End(e) \/ R!Die(e)  PROVE Remind'
<1>1. /\ exec' = [exec EXCEPT ![e] = R!Idle] /\ exec[e].pc # "idle"
      /\ UNCHANGED <<interview, left, recruiter, outbox, past>>
  BY DEF R!End, R!Die
<1>2. job' \in R!Job
  <2> DEFINE after == [job EXCEPT !.status = "ended", !.owner = 0]
  <2>1. job' \in {job, after}  BY DEF R!End, R!Die
  <2>2. after \in R!Job  BY RemindTypes DEF R!Job
  <2>3. QED  BY <2>1, <2>2, RemindTypes
<1>3. QED  BY <1>1, <1>2, RemindTypes, StopReminds

LEMMA LoadReminds == ASSUME Remind, NEW e \in Executions, R!Load(e)  PROVE Remind'
<1>1. exec[e].pc = "claimed" /\ UNCHANGED <<interview, left, job, recruiter, outbox>>  BY Zenon DEF R!Load
<1>2. /\ past' \in [twice : BOOLEAN, raced : BOOLEAN] /\ past'.twice = past.twice
      /\ ~past'.raced => ~past.raced /\ recruiter.pc # "resend"
  <2>1. past' = [past EXCEPT !.raced = @ \/ recruiter.pc = "resend"]  BY Zenon DEF R!Load
  <2>2. QED  BY <2>1, RemindTypes
<1>3. CASE ~R!Wanted(interview)
  <2> DEFINE x == [R!Idle EXCEPT !.pc = "end"]
  <2>1. exec' = [exec EXCEPT ![e] = x]  BY <1>3, Zenon DEF R!Load
  <2>2. x \in R!Exec /\ x.pc = "end"  BY RemindTypes DEF R!Exec
  <2> HIDE DEF x
  <2>3. job' \in R!Job  BY <1>1, RemindTypes
  <2>4. QED  BY <1>1, <1>2, <2>1, <2>2, <2>3, StopReminds
<1>4. CASE R!Wanted(interview)
  <2> DEFINE x == [pc |-> "compose", seen |-> interview]
  <2>1. exec' = [exec EXCEPT ![e] = x]  BY <1>4, Zenon DEF R!Load
  <2>2. x \in R!Exec /\ x.pc = "compose" /\ x.seen = interview  BY RemindTypes DEF R!Exec
  <2> HIDE DEF x
  <2>3. /\ exec' \in [Executions -> R!Exec] /\ exec'[e] = x
        /\ \A f \in Executions : f # e => exec'[f] = exec[f]
    BY <2>1, <2>2, RemindTypes
  <2>4. Written /\ ~interview.reminded  BY <1>4 DEF Remind, R!Wanted
  <2>5. Reminding' = Reminding /\ Inviting' = Inviting /\ Reminding = {}
    BY <1>1, <2>4 DEF Reminding, Inviting, R!Letters, Written
  <2>6. Cardinality(Reminding') + Cardinality(Composers') <= Cardinality(Executions)
    <3>1. Composers' \subseteq Executions  BY DEF Composers
    <3>2. Cardinality(Composers') \in Nat /\ Cardinality(Composers') <= Cardinality(Executions)
      BY <3>1, TokensAre, Fewer
    <3>3. Cardinality(Reminding') = 0  BY <2>5, FS_EmptySet
    <3>4. QED  BY <3>2, <3>3, TokensAre
  <2>7. Written'
    <3>1. \A f \in Executions : Composer(f)' => exec'[f].seen.hh = interview'.hh
      BY <1>1, <2>2, <2>3, <2>4 DEF Written, Composer
    <3>2. R!ChatLinkKept'  BY <1>1, <2>4 DEF Written, R!ChatLinkKept
    <3>3. QED  BY <1>1, <1>2, <2>3, <2>4, <2>5, <2>6, <3>1, <3>2 DEF Written
  <2>8. ASSUME ~past'.twice  PROVE OneComposer'
    <3>1. OneComposer  BY <1>2, <2>8 DEF Remind
    <3>2. \A f \in Executions : exec'[f].pc # "idle" => f = e  BY <1>1, <2>3, <3>1 DEF OneComposer
    <3>3. QED  BY <1>1, <2>4, <3>2 DEF OneComposer
  <2>9. ASSUME ~past'.raced  PROVE LinksSeen' /\ R!NewestLinkWorks' /\ R!ReminderHasLink'
    <3>1. LinksSeen /\ R!NewestLinkWorks /\ R!ReminderHasLink /\ ~past.raced /\ recruiter.pc # "resend"
      BY <1>2, <2>9 DEF Remind
    <3>2. \A f \in Executions : Composer(f)' /\ f # e => Composer(f) /\ exec'[f] = exec[f]
      BY <2>3 DEF Composer
    <3>3. \A f \in Executions : Composer(f)' => exec'[f].seen.stored = interview.stored
      BY <2>2, <2>3, <2>4, <3>1, <3>2 DEF LinksSeen, SeesLink
    <3>4. \A f \in Executions : Composer(f)' => SeesLink(f)'
      BY <1>1, <2>2, <2>3, <3>1, <3>2 DEF LinksSeen, SeesLink
    <3>5. LinksSeen'  BY <1>1, <3>1, <3>3, <3>4 DEF LinksSeen
    <3>6. R!NewestLinkWorks' /\ R!ReminderHasLink'
      BY <1>1, <3>1 DEF R!NewestLinkWorks, R!ReminderHasLink
    <3>7. QED  BY <3>5, <3>6
  <2>10. QED  BY <2>7, <2>8, <2>9 DEF Remind
<1>5. QED  BY <1>3, <1>4

LEMMA NewLinkIsFree ==
    ASSUME Written, Len(outbox) < MaxLetters + Cardinality(Executions)
    PROVE  R!NewLink \in R!Tokens
<1> DEFINE n == Len(outbox)
           total == MaxLetters + Cardinality(Executions)
           f == [k \in 1 .. n |-> outbox[k].link]
           L == {outbox[k].link : k \in 1 .. n}
<1>1. n \in Nat /\ total \in Nat /\ n < total  BY LettersCount, TokensAre
<1>2. R!LinksInUse = L \cup {interview.token}  BY Zenon DEF R!LinksInUse
<1>3. R!Tokens = 1 .. (total + 1)  BY TokensAre
<1>4. f \in Surjection(1 .. n, L)  BY DEF Surjection
<1> HIDE DEF n, total, f, L
<1>5. \A m \in Nat : IsFiniteSet(1 .. m) /\ Cardinality(1 .. m) = m  BY FS_Interval
<1>6. IsFiniteSet(1 .. n) /\ Cardinality(1 .. n) = n  BY <1>1, <1>5
<1>7. IsFiniteSet(L) /\ Cardinality(L) <= n  BY <1>4, <1>6, FS_Surjection
<1>8. Cardinality(L) \in Nat  BY <1>7, FS_CardinalityType
<1>9. /\ IsFiniteSet(L \cup {interview.token}) /\ Cardinality(L \cup {interview.token}) \in Nat
      /\ Cardinality(L \cup {interview.token}) <= n + 1
  <2>1. /\ IsFiniteSet(L \cup {interview.token})
        /\ Cardinality(L \cup {interview.token}) <= Cardinality(L) + 1
        /\ Cardinality(L \cup {interview.token}) \in Nat
    BY <1>7, Fewer
  <2>2. QED  BY <1>1, <1>7, <1>8, <2>1
<1>10. Cardinality(1 .. (total + 1)) = total + 1  BY <1>1, <1>5
<1>11. ~(R!Tokens \subseteq R!LinksInUse)
  <2>1. SUFFICES ASSUME R!Tokens \subseteq R!LinksInUse  PROVE FALSE  OBVIOUS
  <2>2. 1 .. (total + 1) \subseteq L \cup {interview.token}  BY <1>2, <1>3, <2>1
  <2>3. Cardinality(1 .. (total + 1)) <= Cardinality(L \cup {interview.token})  BY <1>9, <2>2, FS_Subset
  <2>4. QED  BY <1>1, <1>9, <1>10, <2>3
<1>12. \E t \in R!Tokens : t \notin R!LinksInUse  BY <1>11
<1>13. QED  BY <1>12, Zenon DEF R!NewLink

\* A letter joins the others.
LEMMA Joins ==
    ASSUME Remind, NEW m \in R!Letter, outbox' = Append(outbox, m)
    PROVE  /\ outbox' \in Seq(R!Letter) /\ Len(outbox) \in Nat
           /\ Len(outbox') = Len(outbox) + 1 /\ outbox'[Len(outbox')] = m
           /\ outbox' # <<>>
           /\ \A k \in 1 .. Len(outbox) : outbox'[k] = outbox[k]
           /\ \A k \in 1 .. Len(outbox') : k \in 1 .. Len(outbox) \/ k = Len(outbox')
           /\ m.kind = "reminder" => Reminding' = Reminding \cup {Len(outbox')} /\ Inviting' = Inviting
           /\ m.kind = "invitation" => Reminding' = Reminding /\ Inviting' = Inviting \cup {Len(outbox')}
<1>1. outbox \in Seq(R!Letter) /\ Len(outbox) \in Nat  BY RemindTypes
<1>2. /\ outbox' \in Seq(R!Letter) /\ Len(outbox') = Len(outbox) + 1 /\ outbox'[Len(outbox')] = m
      /\ \A k \in 1 .. Len(outbox) : outbox'[k] = outbox[k]
  BY <1>1
<1>3. \A k \in 1 .. Len(outbox') : k \in 1 .. Len(outbox) \/ k = Len(outbox')  BY <1>1, <1>2
<1>4. 1 .. Len(outbox) \subseteq 1 .. Len(outbox') /\ Len(outbox') \in 1 .. Len(outbox')  BY <1>1, <1>2
<1>5. ASSUME m.kind = "reminder"
      PROVE  Reminding' = Reminding \cup {Len(outbox')} /\ Inviting' = Inviting
  BY <1>2, <1>3, <1>4, <1>5 DEF Reminding, Inviting, R!Letters
<1>6. ASSUME m.kind = "invitation"
      PROVE  Reminding' = Reminding /\ Inviting' = Inviting \cup {Len(outbox')}
  BY <1>2, <1>3, <1>4, <1>6 DEF Reminding, Inviting, R!Letters
<1>7. outbox' # <<>>  BY <1>1, <1>2
<1>8. QED  BY <1>1, <1>2, <1>3, <1>5, <1>6, <1>7

LEMMA ResendReminds == ASSUME Remind, R!resend  PROVE Remind'
<1> DEFINE new == R!NewLink
           m == [kind |-> "invitation", link |-> new]
<1>1. Written /\ recruiter.pc = "resend" /\ Cardinality(Inviting) + 1 <= MaxLetters
  BY RemindTypes DEF Remind, R!resend
<1>2. /\ UNCHANGED <<job, exec, past>> /\ outbox' = Append(outbox, m) /\ recruiter' = R!Idle
      /\ left' \in {"window", "more"}
  BY Zenon DEF R!resend
<1>3. new \in R!Tokens /\ new # 0
  <2>1. /\ Len(outbox) \in Nat /\ Len(outbox) = Cardinality(Reminding) + Cardinality(Inviting)
        /\ Cardinality(Reminding) <= Cardinality(Executions) /\ Cardinality(Inviting) < MaxLetters
    BY <1>1, LettersCount, TokensAre DEF Written
  <2>2. Len(outbox) < MaxLetters + Cardinality(Executions)  BY <1>1, <2>1, LettersCount, TokensAre
  <2>3. QED  BY <1>1, <2>2, NewLinkIsFree, TokensAre
<1>4. /\ interview' \in R!Interview /\ interview'.token = new /\ interview'.stored = TRUE
      /\ interview'.hh = interview.hh /\ interview'.reminded = interview.reminded
  <2> HIDE DEF new
  <2> DEFINE now == [interview EXCEPT !.token = new, !.stored = TRUE]
  <2>1. interview' \in {now, [now EXCEPT !.status = "unfinished"]}
    BY DEF R!resend, R!Relinked, new
  <2>2. now \in R!Interview /\ now.token = new /\ now.stored = TRUE
        /\ now.hh = interview.hh /\ now.reminded = interview.reminded
    BY <1>3, RemindTypes DEF R!Interview
  <2> HIDE DEF now
  <2>3. QED  BY <2>1, <2>2 DEF R!Interview
<1>5. m \in R!Letter /\ m.kind = "invitation" /\ m.link = new  BY <1>3 DEF R!Letter
<1> HIDE DEF new, m
<1>6. /\ outbox' \in Seq(R!Letter) /\ Len(outbox) \in Nat
      /\ Len(outbox') = Len(outbox) + 1 /\ outbox'[Len(outbox')] = m /\ outbox' # <<>>
      /\ \A k \in 1 .. Len(outbox) : outbox'[k] = outbox[k]
      /\ \A k \in 1 .. Len(outbox') : k \in 1 .. Len(outbox) \/ k = Len(outbox')
      /\ Reminding' = Reminding /\ Inviting' = Inviting \cup {Len(outbox')}
  BY <1>2, <1>5, Joins
<1>7. Composers' = Composers /\ \A f \in Executions : Composer(f)' = Composer(f)
  BY <1>2 DEF Composers, Composer
<1>8. recruiter' \in [pc : {"idle", "resend"}, seen : R!Interview] /\ recruiter'.pc = "idle"
  BY <1>2, RemindTypes
<1>9. Written'
  <2>1. Cardinality(Inviting') \in Nat /\ Cardinality(Inviting') <= Cardinality(Inviting) + 1
    BY <1>1, <1>6, LettersCount, Fewer
  <2>2. Cardinality(Inviting') + (IF recruiter'.pc = "resend" THEN 1 ELSE 0) <= MaxLetters
    BY <1>1, <1>8, <2>1, LettersCount, TokensAre
  <2>3. R!ChatLinkKept'
    <3>1. Len(outbox') \in 1 .. Len(outbox') /\ outbox'[Len(outbox')].kind # "reminder"  BY <1>5, <1>6
    <3>2. QED  BY <3>1 DEF R!ChatLinkKept
  <2>4. \A f \in Executions : Composer(f)' => exec'[f].seen.hh = interview'.hh
    BY <1>1, <1>2, <1>4, <1>7 DEF Written
  <2>5. /\ Cardinality(Reminding') + Cardinality(Composers') <= Cardinality(Executions)
        /\ ~interview'.reminded => Reminding' = {}
    BY <1>1, <1>4, <1>6, <1>7 DEF Written
  <2>6. job' \in R!Job /\ exec' \in [Executions -> R!Exec] /\ left' \in R!Times
        /\ past' \in [twice : BOOLEAN, raced : BOOLEAN]
    BY <1>2, RemindTypes DEF R!Times
  <2>7. QED  BY <1>4, <1>6, <1>8, <2>2, <2>3, <2>4, <2>5, <2>6 DEF Written
<1>10. ASSUME ~past'.twice  PROVE OneComposer'
  <2>1. OneComposer  BY <1>2, <1>10 DEF Remind
  <2>2. QED  BY <1>2, <1>4, <1>6, <1>7, <2>1 DEF OneComposer
<1>11. ASSUME ~past'.raced  PROVE LinksSeen' /\ R!NewestLinkWorks' /\ R!ReminderHasLink'
  <2>1. Composers = {} /\ R!ReminderHasLink /\ ~past.raced  BY <1>1, <1>2, <1>11 DEF Remind, LinksSeen
  <2>2. LinksSeen'  BY <1>7, <2>1 DEF LinksSeen, Composers
  <2>3. R!NewestLinkWorks'  BY <1>4, <1>5, <1>6 DEF R!NewestLinkWorks
  <2>4. R!ReminderHasLink'
    <3>1. SUFFICES ASSUME NEW k \in 1 .. Len(outbox'), outbox'[k].kind = "reminder", outbox'[k].link = 0
                   PROVE  interview'.hh /\ \A i \in 1 .. (k - 1) : outbox'[i].kind = "reminder"
      BY DEF R!ReminderHasLink
    <3>2. k \in 1 .. Len(outbox) /\ outbox'[k] = outbox[k]  BY <1>5, <1>6, <3>1
    <3>3. interview.hh /\ \A i \in 1 .. (k - 1) : outbox[i].kind = "reminder"
      BY <2>1, <3>1, <3>2 DEF R!ReminderHasLink
    <3>4. \A i \in 1 .. (k - 1) : i \in 1 .. Len(outbox)  BY <1>6, <3>2
    <3>5. QED  BY <1>4, <1>6, <3>3, <3>4
  <2>5. QED  BY <2>2, <2>3, <2>4
<1>12. QED  BY <1>9, <1>10, <1>11 DEF Remind

LEMMA ComposeReminds == ASSUME Remind, NEW e \in Executions, R!Compose(e)  PROVE Remind'
<1> DEFINE seen == exec[e].seen
           new == R!NewLink
           link == IF seen.stored THEN seen.token ELSE IF R!NeedsLink(seen) THEN new ELSE 0
           m == [kind |-> "reminder", link |-> link]
           x == [R!Idle EXCEPT !.pc = "end"]
<1>1. /\ Written /\ Composer(e) /\ exec[e] \in R!Exec /\ seen \in R!Interview /\ interview \in R!Interview
      /\ seen.hh = interview.hh
  BY RemindTypes DEF Remind, R!Compose, Composer, Written, R!Exec
<1>2. /\ UNCHANGED <<left, job, recruiter, past>> /\ outbox' = Append(outbox, m)
      /\ exec' = [exec EXCEPT ![e] = x] /\ interview' = R!Reminded(interview, seen)
  BY Zenon DEF R!Compose
<1>3. e \in Composers /\ Cardinality(Reminding) + 1 <= Cardinality(Executions)
  <2>1. e \in Composers /\ Composers \ {e} \subseteq Composers \ {e}  BY <1>1 DEF Composers
  <2>2. Cardinality(Composers \ {e}) \in Nat /\ Cardinality(Composers \ {e}) + 1 <= Cardinality(Composers)
    BY <1>1, <2>1, LettersCount, Fewer
  <2>3. QED  BY <1>1, <2>1, <2>2, LettersCount, TokensAre DEF Written
<1>4. new \in R!Tokens /\ new # 0
  <2>1. /\ Len(outbox) \in Nat /\ Len(outbox) = Cardinality(Reminding) + Cardinality(Inviting)
        /\ Cardinality(Inviting) <= MaxLetters
    BY <1>1, LettersCount, TokensAre DEF Written
  <2>2. Len(outbox) < MaxLetters + Cardinality(Executions)  BY <1>1, <1>3, <2>1, LettersCount, TokensAre
  <2>3. QED  BY <1>1, <2>2, NewLinkIsFree, TokensAre
<1> HIDE DEF new
<1>5. /\ interview' \in R!Interview /\ interview'.reminded = TRUE /\ interview'.hh = interview.hh
      /\ interview'.token = (IF R!NeedsLink(seen) THEN new ELSE interview.token)
      /\ interview'.stored = (interview.stored \/ R!NeedsLink(seen))
  <2>1. interview' = IF R!NeedsLink(seen) THEN [interview EXCEPT !.reminded = TRUE, !.token = new, !.stored = TRUE]
                                          ELSE [interview EXCEPT !.reminded = TRUE]
    BY <1>2 DEF R!Reminded, new
  <2>2. QED  BY <1>1, <1>4, <2>1 DEF R!Interview
<1>6. R!NeedsLink(seen) <=> ~seen.stored /\ ~seen.hh  BY DEF R!NeedsLink
<1>7. seen.token \in R!Tokens /\ seen.token # 0 /\ seen.stored \in BOOLEAN /\ seen.hh \in BOOLEAN
  BY <1>1, TokensAre DEF R!Interview
<1>8. m \in R!Letter /\ m.kind = "reminder" /\ m.link = link  BY <1>4, <1>7 DEF R!Letter
<1>9. x \in R!Exec /\ x.pc = "end"  BY RemindTypes DEF R!Exec
<1> HIDE DEF m, x
<1>10. /\ outbox' \in Seq(R!Letter) /\ Len(outbox) \in Nat
       /\ Len(outbox') = Len(outbox) + 1 /\ outbox'[Len(outbox')] = m /\ outbox' # <<>>
       /\ \A k \in 1 .. Len(outbox) : outbox'[k] = outbox[k]
       /\ \A k \in 1 .. Len(outbox') : k \in 1 .. Len(outbox) \/ k = Len(outbox')
       /\ Reminding' = Reminding \cup {Len(outbox')} /\ Inviting' = Inviting
  BY <1>2, <1>8, Joins
<1>11. /\ exec' \in [Executions -> R!Exec] /\ exec'[e].pc = "end"
       /\ \A f \in Executions : f # e => exec'[f] = exec[f]
  BY <1>2, <1>9, RemindTypes
<1>12. \A f \in Executions : Composer(f)' => Composer(f) /\ exec'[f] = exec[f] /\ f # e
  BY <1>11 DEF Composer
<1>13. Written'
  <2>1. Cardinality(Reminding') + Cardinality(Composers') <= Cardinality(Executions)
    <3>1. Composers' \subseteq Composers \ {e}  BY <1>12 DEF Composers
    <3>2. Cardinality(Composers') \in Nat /\ Cardinality(Composers') + 1 <= Cardinality(Composers)
      BY <1>1, <1>3, <3>1, LettersCount, Fewer
    <3>3. Cardinality(Reminding') \in Nat /\ Cardinality(Reminding') <= Cardinality(Reminding) + 1
      BY <1>1, <1>10, LettersCount, Fewer
    <3>4. QED  BY <1>1, <3>2, <3>3, LettersCount, TokensAre DEF Written
  <2>2. R!ChatLinkKept'
    <3>1. SUFFICES ASSUME interview'.hh, \A k \in 1 .. Len(outbox') : outbox'[k].kind = "reminder"
                   PROVE  interview'.token = 1
      BY DEF R!ChatLinkKept
    <3>2. \A k \in 1 .. Len(outbox) : outbox[k].kind = "reminder"
      <4>1. \A k \in 1 .. Len(outbox) : k \in 1 .. Len(outbox')  BY <1>10
      <4>2. QED  BY <1>10, <3>1, <4>1
    <3>3. interview.token = 1  BY <1>1, <1>5, <3>1, <3>2 DEF Written, R!ChatLinkKept
    <3>4. QED  BY <1>1, <1>5, <1>6, <3>1, <3>3
  <2>3. \A f \in Executions : Composer(f)' => exec'[f].seen.hh = interview'.hh  BY <1>1, <1>5, <1>12 DEF Written
  <2>4. /\ ~interview'.reminded => Reminding' = {}
        /\ Inviting' # {} => interview'.stored
        /\ Cardinality(Inviting') + (IF recruiter'.pc = "resend" THEN 1 ELSE 0) <= MaxLetters
    BY <1>1, <1>2, <1>5, <1>10 DEF Written
  <2>5. /\ job' \in R!Job /\ left' \in R!Times /\ past' \in [twice : BOOLEAN, raced : BOOLEAN]
        /\ recruiter' \in [pc : {"idle", "resend"}, seen : R!Interview]
    BY <1>2, RemindTypes
  <2>6. QED  BY <1>5, <1>10, <1>11, <2>1, <2>2, <2>3, <2>4, <2>5 DEF Written
<1>14. ASSUME ~past'.twice  PROVE OneComposer'
  <2>1. OneComposer /\ ~interview.reminded  BY <1>1, <1>2, <1>14 DEF Remind, OneComposer
  <2>2. \A f \in Executions : f # e => exec'[f].pc = "idle"  BY <1>1, <1>11, <2>1 DEF OneComposer, Composer
  <2>3. \A f \in Executions : ~Composer(f)'  BY <1>11, <2>2 DEF Composer
  <2>4. Cardinality(Reminding') = 1
    <3>1. Reminding' = {Len(outbox')}  BY <1>1, <1>10, <2>1 DEF Written
    <3>2. \A k : Cardinality({k}) = 1  BY FS_Singleton
    <3>3. QED  BY <3>1, <3>2, Zenon
  <2>5. QED  BY <2>2, <2>3, <2>4 DEF OneComposer
<1>15. ASSUME ~past'.raced  PROVE LinksSeen' /\ R!NewestLinkWorks' /\ R!ReminderHasLink'
  <2>1. LinksSeen /\ R!ReminderHasLink  BY <1>2, <1>15 DEF Remind
  <2>2. recruiter'.pc # "resend"  BY <1>2, <1>3, <2>1 DEF LinksSeen
  <2>3. SeesLink(e)  BY <1>1, <2>1 DEF LinksSeen
  <2>4. ASSUME NEW f \in Executions, Composer(f)'  PROVE SeesLink(f)'
    <3>1. /\ Composer(f) /\ exec'[f] = exec[f] /\ SeesLink(f) /\ exec[f].seen.stored = seen.stored
          /\ exec[f].seen.hh = interview.hh
      BY <1>1, <1>12, <2>1, <2>4 DEF LinksSeen, Written
    <3>2. interview.stored \in BOOLEAN /\ interview.hh \in BOOLEAN  BY <1>1 DEF R!Interview
    <3>3. CASE R!NeedsLink(seen)  BY <1>1, <1>5, <1>6, <3>1, <3>2, <3>3 DEF SeesLink
    <3>4. CASE ~R!NeedsLink(seen)  BY <1>1, <1>5, <1>6, <3>1, <3>2, <3>4 DEF SeesLink
    <3>5. QED  BY <3>3, <3>4
  <2>5. LinksSeen'  BY <1>12, <2>1, <2>2, <2>4 DEF LinksSeen
  <2>6. link \in {0, interview'.token}  BY <1>5, <1>6, <1>7, <2>3 DEF SeesLink
  <2>7. R!NewestLinkWorks'  BY <1>8, <1>10, <2>6 DEF R!NewestLinkWorks
  <2>8. R!ReminderHasLink'
    <3>1. SUFFICES ASSUME NEW k \in 1 .. Len(outbox'), outbox'[k].kind = "reminder", outbox'[k].link = 0
                   PROVE  interview'.hh /\ \A i \in 1 .. (k - 1) : outbox'[i].kind = "reminder"
      BY <1>2, <1>15 DEF R!ReminderHasLink
    <3>2. \A i \in 1 .. (k - 1) : i \in 1 .. Len(outbox)  BY <1>10, <3>1
    <3>3. CASE k \in 1 .. Len(outbox)
      <4>1. interview.hh /\ \A i \in 1 .. (k - 1) : outbox[i].kind = "reminder"
        BY <1>2, <1>10, <1>15, <2>1, <3>1, <3>3 DEF R!ReminderHasLink
      <4>2. QED  BY <1>5, <1>10, <3>2, <4>1
    <3>4. CASE k = Len(outbox')
      <4>1. link = 0  BY <1>8, <1>10, <3>1, <3>4
      <4>2. ~seen.stored /\ seen.hh  BY <1>4, <1>6, <1>7, <4>1
      <4>3. ~interview.stored /\ interview'.hh  BY <1>1, <1>5, <2>3, <4>2 DEF SeesLink
      <4>4. Inviting = {}  BY <1>1, <4>3 DEF Written
      <4>5. \A i \in 1 .. Len(outbox) : outbox[i].kind = "reminder"
        <5>1. \A i \in 1 .. Len(outbox) : outbox[i] \in R!Letter  BY RemindTypes
        <5>2. \A i \in 1 .. Len(outbox) : outbox[i].kind # "invitation"  BY <4>4 DEF Inviting, R!Letters
        <5>3. QED  BY <5>1, <5>2 DEF R!Letter
      <4>6. QED  BY <1>10, <3>2, <4>3, <4>5
    <3>5. QED  BY <1>10, <3>3, <3>4
  <2>9. QED  BY <2>5, <2>7, <2>8
<1>16. QED  BY <1>13, <1>14, <1>15 DEF Remind

LEMMA RemindNext == ASSUME Remind, R!Next  PROVE Remind'
<1>1. CASE R!Tick \/ R!Expire \/ R!Finish \/ R!schedule_reminders  BY <1>1, TimeReminds
<1>2. CASE R!BeginResend  BY <1>2, BeginReminds
<1>3. CASE R!resend  BY <1>3, ResendReminds
<1>4. CASE \E e \in Executions : R!Claim(e)  BY <1>4, ClaimReminds
<1>5. CASE \E e \in Executions : R!Load(e)  BY <1>5, LoadReminds
<1>6. CASE \E e \in Executions : R!Compose(e)  BY <1>6, ComposeReminds
<1>7. CASE \E e \in Executions : R!End(e) \/ R!Die(e)  BY <1>7, EndReminds
<1>8. QED  BY <1>1, <1>2, <1>3, <1>4, <1>5, <1>6, <1>7, Zenon DEF R!Next

LEMMA RemindRest ==
    ASSUME Remind, UNCHANGED <<interview, left, job, exec, recruiter, outbox, past>>
    PROVE  Remind'
<1>1. Composers' = Composers  BY DEF Composers, Composer
<1>2. QED  BY <1>1, RemindTypes, NoLetter

-----------------------------------------------------------------------------
(* Feedback: the part "feedback" of MCOutside. *)

\* Who is about to schedule has time for it, each evaluation is paid for by a request, and an interview
\* with a conclusion that is done is not being processed.
Planned ==
    /\ today \in F!Days /\ mode \in Modes /\ interview \in F!Interview
    /\ evaluation \in [status : {"pending", "done"}, text : BOOLEAN]
    /\ evaluator \in [pc : {"due", "asking", "notify", "idle"}, decided : BOOLEAN]
    /\ decider \in {"idle", "schedule"} /\ job \in F!Job /\ letters \in Seq(F!Days)
    /\ ready \in Nat /\ unsubscribed \in BOOLEAN
    /\ past \in [died : BOOLEAN, early : BOOLEAN, shared : BOOLEAN]
    /\ counts \in [decisions : 0..MaxDecisions, reprocess : 0..MaxReprocess]
    /\ ready + (IF evaluator.pc = "idle" THEN 0 ELSE 1) <= counts.reprocess + 1
    /\ evaluator.pc # "idle" \/ decider = "schedule" => today + AfterDays <= Horizon
    /\ evaluator.pc = "asking" => interview.status = "processing"
    /\ evaluator.pc = "notify" => interview.status # "processing"
    /\ evaluation.status = "done" => interview.status # "processing"

\* A decision that somebody knows of was made, a feedback that is scheduled after it comes so many days
\* after the first one, and one that is being written is due.
DecisionFirst ==
    /\ job.status \in {"running", "sent"} => job.due <= today
    /\ evaluator.decided \/ decider = "schedule" => interview.decision
    /\ interview.decision => interview.decidedOn <= today
    /\ mode = "after_decision" /\ job.status # "none" =>
         interview.decision /\ job.due >= interview.decidedOn + AfterDays
    /\ F!NotBeforeDecision

\* Until a decision comes before the conclusion: nothing is scheduled before the first conclusion, and
\* after it only so many days later.
Fresh == interview.status = "processing" /\ counts.reprocess = 0
ConclusionFirst ==
    /\ ~evaluator.decided /\ (interview.decision => interview.status = "decided")
    /\ interview.concludedOn <= today
    /\ Fresh => job.status = "none" /\ letters = <<>> /\ decider = "idle"
    /\ mode = "auto_after_days" /\ job.status # "none" => job.due >= interview.concludedOn + AfterDays
    /\ F!NotBeforeConclusion

\* As long as nothing dies: the recruiter hears of a conclusion, and every letter that was written or is
\* on its way has a decision or a conclusion of its own.
InHand == IF job.status \in {"queued", "running"} THEN 1 ELSE 0
Deciding == IF decider = "schedule" THEN 1 ELSE 0
Evaluating == IF evaluator.pc # "idle" /\ mode = "auto_after_days" THEN 1 ELSE 0
Automatic == IF mode = "auto_after_days" THEN 1 ELSE 0
OncePerEvent ==
    Len(letters) + InHand + Deciding + Evaluating <= counts.decisions + counts.reprocess + Automatic
Told == evaluation.status = "done" /\ evaluator.pc # "notify" => ready > 0
Feed ==
    /\ Planned /\ DecisionFirst
    /\ ~past.early => ConclusionFirst
    /\ ~past.died => Told
    /\ ~past.died /\ ~past.early => OncePerEvent

LEMMA Settings ==
    /\ AfterDays \in Nat /\ MaxDecisions \in Nat /\ MaxReprocess \in Nat /\ feedback_attempts \in Nat
    /\ Horizon \in Nat /\ AfterDays <= Horizon /\ F!Days = 0 .. Horizon
BY SizesOK DEF F!Days

LEMMA FeedTypes ==
    ASSUME Feed
    PROVE  /\ today \in 0 .. Horizon /\ mode \in Modes
           /\ interview \in F!Interview /\ interview.status \in {"processing", "evaluated", "decided"}
           /\ interview.decision \in BOOLEAN
           /\ interview.decidedOn \in 0 .. Horizon /\ interview.concludedOn \in 0 .. Horizon
           /\ evaluator \in [pc : {"due", "asking", "notify", "idle"}, decided : BOOLEAN]
           /\ evaluator.pc \in {"due", "asking", "notify", "idle"} /\ evaluator.decided \in BOOLEAN
           /\ job \in F!Job /\ job.due \in 0 .. Horizon /\ job.attempts \in 0 .. feedback_attempts
           /\ job.status \in {"none", "queued", "running", "sent", "ended"}
           /\ counts \in [decisions : 0 .. MaxDecisions, reprocess : 0 .. MaxReprocess]
           /\ counts.decisions \in 0 .. MaxDecisions /\ counts.reprocess \in 0 .. MaxReprocess
           /\ past \in [died : BOOLEAN, early : BOOLEAN, shared : BOOLEAN]
           /\ letters \in Seq(0 .. Horizon) /\ Len(letters) \in Nat /\ ready \in Nat
<1>1. Planned  BY DEF Feed
<1>2. letters \in Seq(0 .. Horizon)  BY <1>1, Settings DEF Planned
<1>3. QED  BY <1>1, <1>2, Settings DEF Planned, F!Interview, F!Job

\* What is on its way to be scheduled or written.
LEMMA OnTheWay ==
    /\ InHand \in {0, 1} /\ (InHand = 1 <=> job.status \in {"queued", "running"})
    /\ Deciding \in {0, 1} /\ (Deciding = 1 <=> decider = "schedule")
    /\ Evaluating \in {0, 1} /\ (Evaluating = 1 <=> evaluator.pc # "idle" /\ mode = "auto_after_days")
    /\ Automatic \in {0, 1} /\ (Automatic = 1 <=> mode = "auto_after_days")
BY DEF InHand, Deciding, Evaluating, Automatic

\* Sums of three.
LEMMA SumsStay ==
    ASSUME NEW a \in {0, 1}, NEW b \in {0, 1}, NEW c \in {0, 1}, NEW d \in {0, 1}, NEW e \in {0, 1},
           NEW f \in {0, 1}, c <= f, (a <= d /\ b <= e) \/ (b = 0 /\ e = 1)
    PROVE  a + b + c <= d + e + f
OBVIOUS

LEMMA SumsGroup ==
    ASSUME NEW k \in Nat, NEW a \in Nat, NEW b \in Nat, NEW c \in Nat
    PROVE  a + b + c \in Nat /\ k + a + b + c = k + (a + b + c)
OBVIOUS

LEMMA SumsMore ==
    ASSUME NEW k \in Nat, NEW a \in Nat, NEW b \in Nat, NEW c \in Nat, NEW d \in Nat, NEW e \in Nat,
           NEW f \in Nat, a + b + c <= d + e + f
    PROVE  k + a + b + c <= k + d + e + f + 0 + 0
OBVIOUS

\* A letter that was owed is written, or what is owed moves on.
LEMMA OwedStays ==
    ASSUME Feed, OncePerEvent, mode' = mode, NEW n \in Nat, NEW m \in Nat,
           counts'.decisions = counts.decisions + n, counts'.reprocess = counts.reprocess + m,
           Len(letters') \in Nat,
           Len(letters') + InHand' + Deciding' + Evaluating' <= Len(letters) + InHand + Deciding + Evaluating + n + m
    PROVE  OncePerEvent'
<1>1. Automatic' = Automatic /\ Automatic \in Nat  BY DEF Automatic
<1>2. /\ Len(letters) \in Nat /\ counts.decisions \in Nat /\ counts.reprocess \in Nat  BY FeedTypes, Settings
<1>3. /\ InHand \in {0, 1} /\ Deciding \in {0, 1} /\ Evaluating \in {0, 1} /\ Automatic \in {0, 1}  BY OnTheWay
<1>4. InHand' \in {0, 1} /\ Deciding' \in {0, 1} /\ Evaluating' \in {0, 1}
  BY DEF InHand, Deciding, Evaluating
<1>5. Len(letters) + InHand + Deciding + Evaluating <= counts.decisions + counts.reprocess + Automatic
  BY DEF OncePerEvent
<1>6. /\ InHand \in Nat /\ Deciding \in Nat /\ Evaluating \in Nat /\ Automatic \in Nat
      /\ InHand' \in Nat /\ Deciding' \in Nat /\ Evaluating' \in Nat
  BY <1>3, <1>4
<1> DEFINE now == InHand + Deciding + Evaluating
           then == InHand' + Deciding' + Evaluating'
           k == Len(letters)
           l == Len(letters')
           x == counts.decisions
           y == counts.reprocess
<1>7. /\ now \in Nat /\ then \in Nat /\ k \in Nat /\ l \in Nat /\ x \in Nat /\ y \in Nat
      /\ k + now <= x + y + Automatic /\ l + then <= k + now + n + m
  <2>1. now \in Nat /\ k \in Nat /\ x \in Nat /\ y \in Nat /\ k + now <= x + y + Automatic
    BY <1>2, <1>5, <1>6
  <2>2. l \in Nat  OBVIOUS
  <2>3. then \in Nat  BY <1>6, SumsGroup
  <2>4. Len(letters') + InHand' + Deciding' + Evaluating' = l + then
    <3>1. Len(letters') \in Nat  OBVIOUS
    <3>2. QED  BY <1>6, <3>1, SumsGroup
  <2>5. Len(letters) + InHand + Deciding + Evaluating = k + now  BY <1>2, <1>6, SumsGroup
  <2>6. QED  BY <2>1, <2>2, <2>3, <2>4, <2>5
<1> HIDE DEF now, then, k, l, x, y
<1>8. l + then <= (x + n) + (y + m) + Automatic  BY <1>6, <1>7
<1>9. Len(letters') + InHand' + Deciding' + Evaluating'
         <= (counts.decisions + n) + (counts.reprocess + m) + Automatic
  BY <1>6, <1>8, SumsGroup DEF then, l, x, y
<1>10. QED  BY <1>1, <1>9 DEF OncePerEvent

\* The same with nothing new that is owed.
LEMMA OwedRests ==
    ASSUME Feed, OncePerEvent, UNCHANGED <<mode, counts, letters>>,
           InHand' + Deciding' + Evaluating' <= InHand + Deciding + Evaluating
    PROVE  OncePerEvent'
<1>1. /\ Len(letters') \in Nat /\ Len(letters') = Len(letters) /\ 0 \in Nat
      /\ counts'.decisions = counts.decisions + 0 /\ counts'.reprocess = counts.reprocess + 0
  BY FeedTypes, Settings
<1>2. /\ InHand + Deciding + Evaluating \in Nat /\ InHand' + Deciding' + Evaluating' \in Nat
      /\ InHand \in Nat /\ Deciding \in Nat /\ Evaluating \in Nat
      /\ InHand' \in Nat /\ Deciding' \in Nat /\ Evaluating' \in Nat
  BY DEF InHand, Deciding, Evaluating
<1>3. Len(letters') + InHand' + Deciding' + Evaluating' <= Len(letters) + InHand + Deciding + Evaluating + 0 + 0
  BY <1>1, <1>2, SumsMore
<1>4. QED  BY <1>1, <1>3, OwedStays

LEMMA FeedHolds == ASSUME Feed  PROVE F!FeedbackInTime /\ F!EachEventTold
<1>1. Planned  BY DEF Feed
<1>2. ready \in 0 .. (MaxReprocess + 1)
  <2>1. ready + (IF evaluator.pc = "idle" THEN 0 ELSE 1) <= counts.reprocess + 1  BY <1>1 DEF Planned
  <2>2. QED  BY <2>1, FeedTypes, Settings
<1>3. F!TypeOK  BY <1>1, <1>2 DEF Planned, F!TypeOK
<1>4. F!NotBeforeDecision  BY DEF Feed, DecisionFirst
<1>5. F!NotBeforeConclusion
  <2>1. ~past.early => F!NotBeforeConclusion  BY DEF Feed, ConclusionFirst
  <2>2. QED  BY <2>1 DEF F!NotBeforeConclusion
<1>6. F!ReadyIsTold  BY DEF Feed, Told, F!ReadyIsTold
<1>7. F!FeedbackOnce
  <2>1. ASSUME ~past.died, ~past.early
        PROVE  Len(letters) <= counts.decisions + counts.reprocess + IF mode = "auto_after_days" THEN 1 ELSE 0
    <3>1. OncePerEvent  BY <2>1 DEF Feed
    <3>2. counts.decisions \in Nat /\ counts.reprocess \in Nat /\ Len(letters) \in Nat  BY FeedTypes, Settings
    <3>3. Len(letters) <= counts.decisions + counts.reprocess + Automatic  BY <3>1, <3>2, OnTheWay DEF OncePerEvent
    <3>4. QED  BY <3>3 DEF Automatic
  <2>2. QED  BY <2>1 DEF F!FeedbackOnce
<1>8. QED  BY <1>3, <1>4, <1>5, <1>6, <1>7 DEF F!FeedbackInTime, F!EachEventTold

LEMMA FeedInit == ASSUME F!Init  PROVE Feed
<1>1. /\ today = 0 /\ mode \in Modes /\ decider = "idle" /\ letters = <<>> /\ ready = 0 /\ unsubscribed = FALSE
      /\ interview = [status |-> "processing", decision |-> FALSE, decidedOn |-> 0, concludedOn |-> 0]
      /\ evaluation = [status |-> "pending", text |-> FALSE]
      /\ evaluator = [pc |-> "due", decided |-> FALSE]
      /\ job = [status |-> "none", due |-> 0, attempts |-> 0]
      /\ counts = [decisions |-> 0, reprocess |-> 0]
      /\ past = [died |-> FALSE, early |-> FALSE, shared |-> FALSE]
  BY DEF F!Init
<1>2. 0 \in F!Days /\ 0 \in 0 .. MaxDecisions /\ 0 \in 0 .. MaxReprocess /\ 0 \in 0 .. feedback_attempts
  BY Settings
<1>3. Planned
  <2>1. interview \in F!Interview /\ job \in F!Job  BY <1>1, <1>2 DEF F!Interview, F!Job
  <2>2. letters \in Seq(F!Days) /\ today + AfterDays <= Horizon  BY <1>1, Settings
  <2>3. ready + (IF evaluator.pc = "idle" THEN 0 ELSE 1) <= counts.reprocess + 1  BY <1>1
  <2>4. counts \in [decisions : 0 .. MaxDecisions, reprocess : 0 .. MaxReprocess]  BY <1>1, <1>2
  <2>5. QED  BY <1>1, <1>2, <2>1, <2>2, <2>3, <2>4 DEF Planned
<1>4. DecisionFirst  BY <1>1 DEF DecisionFirst, F!NotBeforeDecision
<1>5. ConclusionFirst  BY <1>1 DEF ConclusionFirst, F!NotBeforeConclusion
<1>6. Told  BY <1>1 DEF Told
<1>7. OncePerEvent  BY <1>1 DEF OncePerEvent, InHand, Deciding, Evaluating, Automatic
<1>8. QED  BY <1>3, <1>4, <1>5, <1>6, <1>7 DEF Feed

\* What was written stays as late as it was.
LEMMA LettersStay ==
    ASSUME mode' = mode, letters' = letters
    PROVE  /\ F!NotBeforeDecision
              /\ (interview.decision => interview'.decision /\ interview'.decidedOn = interview.decidedOn)
              => F!NotBeforeDecision'
           /\ F!NotBeforeConclusion /\ past'.early = past.early
              /\ (interview'.concludedOn = interview.concludedOn \/ letters = <<>>)
              => F!NotBeforeConclusion'
<1>1. F!NotBeforeDecision
      /\ (interview.decision => interview'.decision /\ interview'.decidedOn = interview.decidedOn)
      => F!NotBeforeDecision'
  BY DEF F!NotBeforeDecision
<1>2. F!NotBeforeConclusion /\ past'.early = past.early
      /\ (interview'.concludedOn = interview.concludedOn \/ letters = <<>>)
      => F!NotBeforeConclusion'
  BY DEF F!NotBeforeConclusion
<1>3. QED  BY <1>1, <1>2

\* What is scheduled.
LEMMA ScheduledIs ==
    ASSUME Feed, today + AfterDays <= Horizon, NEW d \in BOOLEAN
    PROVE  /\ F!Scheduled(d) \in F!Job
           /\ \/ F!Scheduled(d) = job
              \/ /\ F!Wanted(d) /\ job.status \in {"none", "ended"}
                 /\ F!Scheduled(d).status = "queued" /\ F!Scheduled(d).due = today + AfterDays
<1> DEFINE new == [status |-> "queued", due |-> today + AfterDays, attempts |-> 0]
<1>1. new \in F!Job /\ new.status = "queued" /\ new.due = today + AfterDays
  BY FeedTypes, Settings DEF F!Job
<1> HIDE DEF new
<1>2. F!Scheduled(d) = IF F!Wanted(d) /\ job.status \in {"none", "ended"} THEN new ELSE job
  BY DEF F!Scheduled, F!Enqueued, new
<1>3. QED  BY <1>1, <1>2, FeedTypes

LEMMA LoadFeeds == ASSUME Feed, F!Load  PROVE Feed'
<1>1. /\ UNCHANGED <<today, mode, interview, evaluation, decider, job>>
      /\ UNCHANGED <<letters, ready, unsubscribed, counts, past>>
      /\ evaluator.pc = "due"
      /\ evaluator' = IF interview.status = "processing" THEN [pc |-> "asking", decided |-> interview.decision]
                                                         ELSE [evaluator EXCEPT !.pc = "idle"]
  BY DEF F!Load
<1>2. /\ evaluator' \in [pc : {"due", "asking", "notify", "idle"}, decided : BOOLEAN]
      /\ evaluator'.pc \in {"asking", "idle"}
      /\ evaluator'.pc = "asking" => interview.status = "processing" /\ evaluator'.decided = interview.decision
      /\ evaluator'.pc = "idle" => evaluator'.decided = evaluator.decided
  BY <1>1, FeedTypes
<1>3. Planned'  BY <1>1, <1>2, FeedTypes DEF Feed, Planned
<1>4. DecisionFirst'  BY <1>1, <1>2, FeedTypes, LettersStay DEF Feed, DecisionFirst
<1>5. ~past'.early => ConclusionFirst'
  BY <1>1, <1>2, FeedTypes, LettersStay DEF Feed, ConclusionFirst, Fresh
<1>6. ~past'.died => Told'  BY <1>1, <1>2 DEF Feed, Told
<1>7. ~past'.died /\ ~past'.early => OncePerEvent'
  <2>1. InHand' = InHand /\ Deciding' = Deciding /\ Evaluating' <= Evaluating
    BY <1>1, <1>2 DEF InHand, Deciding, Evaluating
  <2>2. InHand' + Deciding' + Evaluating' <= InHand + Deciding + Evaluating  BY <2>1, OnTheWay DEF Evaluating
  <2>3. QED  BY <1>1, <2>2, OwedRests DEF Feed
<1>8. QED  BY <1>3, <1>4, <1>5, <1>6, <1>7 DEF Feed

LEMMA ConcludeFeeds == ASSUME Feed, F!Conclude  PROVE Feed'
<1>1. /\ UNCHANGED <<today, mode, decider, job, letters, ready, unsubscribed, counts, past>>
      /\ evaluator.pc = "asking" /\ evaluator' = [evaluator EXCEPT !.pc = "notify"]
      /\ evaluation' = [status |-> "done", text |-> mode # "off"]
      /\ interview' = [interview EXCEPT !.status = "evaluated",
                                        !.concludedOn = IF counts.reprocess = 0 THEN today ELSE @]
  BY DEF F!Conclude
<1>2. /\ evaluator' \in [pc : {"due", "asking", "notify", "idle"}, decided : BOOLEAN]
      /\ evaluator'.pc = "notify" /\ evaluator'.decided = evaluator.decided
  BY <1>1, FeedTypes
<1>3. /\ interview' \in F!Interview /\ interview'.status = "evaluated"
      /\ interview'.decision = interview.decision /\ interview'.decidedOn = interview.decidedOn
      /\ interview'.concludedOn = (IF counts.reprocess = 0 THEN today ELSE interview.concludedOn)
  BY <1>1, FeedTypes, Settings DEF F!Interview
<1>4. evaluation' \in [status : {"pending", "done"}, text : BOOLEAN] /\ evaluation'.status = "done"
  BY <1>1
<1>5. interview.status = "processing"  BY <1>1 DEF Feed, Planned
<1>6. Planned'  BY <1>1, <1>2, <1>3, <1>4, FeedTypes DEF Feed, Planned
<1>7. DecisionFirst'  BY <1>1, <1>2, <1>3, FeedTypes, LettersStay DEF Feed, DecisionFirst
<1>8. ASSUME ~past'.early  PROVE ConclusionFirst'
  <2>1. ConclusionFirst /\ past'.early = past.early  BY <1>1, <1>8 DEF Feed
  <2>2. interview'.concludedOn = interview.concludedOn \/ (letters = <<>> /\ job.status = "none")
    BY <1>3, <1>5, <2>1 DEF ConclusionFirst, Fresh
  <2>3. F!NotBeforeConclusion'  BY <1>1, <2>1, <2>2, LettersStay DEF ConclusionFirst
  <2>4. QED  BY <1>1, <1>2, <1>3, <1>5, <2>1, <2>2, <2>3, FeedTypes DEF ConclusionFirst, Fresh
<1>9. Told'  BY <1>2 DEF Told
<1>10. ~past'.died /\ ~past'.early => OncePerEvent'
  <2>1. InHand' = InHand /\ Deciding' = Deciding /\ Evaluating' = Evaluating
    BY <1>1, <1>2 DEF InHand, Deciding, Evaluating
  <2>2. InHand' + Deciding' + Evaluating' <= InHand + Deciding + Evaluating  BY <2>1, OnTheWay
  <2>3. QED  BY <1>1, <2>2, OwedRests DEF Feed
<1>11. QED  BY <1>6, <1>7, <1>8, <1>9, <1>10 DEF Feed

LEMMA NotifyFeeds == ASSUME Feed, F!Notify  PROVE Feed'
<1>1. /\ UNCHANGED <<today, mode, interview, evaluation, decider, letters, unsubscribed, counts, past>>
      /\ evaluator.pc = "notify" /\ evaluator' = [evaluator EXCEPT !.pc = "idle"]
      /\ ready' = ready + 1 /\ job' = F!Scheduled(evaluator.decided)
  BY DEF F!Notify, F!Notified
<1>2. /\ evaluator' \in [pc : {"due", "asking", "notify", "idle"}, decided : BOOLEAN]
      /\ evaluator'.pc = "idle" /\ evaluator'.decided = evaluator.decided
  BY <1>1, FeedTypes
<1>3. today + AfterDays <= Horizon /\ interview.status # "processing"  BY <1>1 DEF Feed, Planned
<1>4. /\ job' \in F!Job
      /\ \/ job' = job
         \/ /\ F!Wanted(evaluator.decided) /\ job.status \in {"none", "ended"}
            /\ job'.status = "queued" /\ job'.due = today + AfterDays
  BY <1>1, <1>3, FeedTypes, ScheduledIs
<1>5. Planned'  BY <1>1, <1>2, <1>3, <1>4, FeedTypes DEF Feed, Planned
<1>6. DecisionFirst'
  <2>1. DecisionFirst /\ F!NotBeforeDecision'  BY <1>1, LettersStay DEF Feed, DecisionFirst
  <2>2. CASE job' = job  BY <1>1, <1>2, <2>1, <2>2 DEF DecisionFirst
  <2>3. CASE job' # job
    <3>1. /\ F!Wanted(evaluator.decided) /\ job'.status = "queued" /\ job'.due = today + AfterDays
      BY <1>4, <2>3
    <3>2. mode = "after_decision" => interview.decision /\ interview.decidedOn <= today
      BY <2>1, <3>1 DEF F!Wanted, DecisionFirst
    <3>3. mode = "after_decision" => job'.due >= interview.decidedOn + AfterDays
      BY <3>1, <3>2, FeedTypes, Settings
    <3>4. QED  BY <1>1, <1>2, <2>1, <3>1, <3>2, <3>3 DEF DecisionFirst
  <2>4. QED  BY <2>2, <2>3
<1>7. ASSUME ~past'.early  PROVE ConclusionFirst'
  <2>1. ConclusionFirst /\ F!NotBeforeConclusion'
    BY <1>1, <1>7, LettersStay DEF Feed, ConclusionFirst
  <2>2. job' = job \/ job'.due >= interview.concludedOn + AfterDays
    BY <1>4, <2>1, FeedTypes, Settings DEF ConclusionFirst
  <2>3. QED  BY <1>1, <1>2, <1>3, <2>1, <2>2 DEF ConclusionFirst, Fresh
<1>8. Told'  BY <1>1, FeedTypes DEF Told
<1>9. ASSUME ~past'.died, ~past'.early  PROVE OncePerEvent'
  <2>1. OncePerEvent /\ ~evaluator.decided  BY <1>1, <1>9 DEF Feed, ConclusionFirst
  <2>2. job' = job \/ (mode = "auto_after_days" /\ job.status \in {"none", "ended"} /\ job'.status = "queued")
    BY <1>4, <2>1 DEF F!Wanted
  <2>3. Deciding' = Deciding /\ Evaluating' = 0  BY <1>1, <1>2 DEF Deciding, Evaluating
  <2>4. InHand' = InHand \/ (InHand' = 1 /\ Evaluating = 1 /\ InHand = 0)
    BY <1>1, <2>2 DEF InHand, Evaluating
  <2>5. InHand' + Deciding' + Evaluating' <= InHand + Deciding + Evaluating  BY <2>3, <2>4, OnTheWay
  <2>6. QED  BY <1>1, <2>1, <2>5, OwedRests
<1>10. QED  BY <1>5, <1>6, <1>7, <1>8, <1>9 DEF Feed

LEMMA ReprocessFeeds == ASSUME Feed, F!reprocess  PROVE Feed'
<1>1. /\ UNCHANGED <<today, mode, decider, job, letters, ready, unsubscribed, past>>
      /\ interview.status = "evaluated" /\ evaluator.pc = "idle" /\ counts.reprocess < MaxReprocess
      /\ today + AfterDays <= Horizon
      /\ interview' = [interview EXCEPT !.status = "processing"]
      /\ evaluation' = [status |-> "pending", text |-> FALSE]
      /\ evaluator' = [pc |-> "due", decided |-> FALSE]
      /\ counts' = [counts EXCEPT !.reprocess = @ + 1]
  BY DEF F!reprocess, F!InTime
<1>2. /\ interview' \in F!Interview /\ interview'.status = "processing"
      /\ interview'.decision = interview.decision /\ interview'.decidedOn = interview.decidedOn
      /\ interview'.concludedOn = interview.concludedOn
  BY <1>1, FeedTypes DEF F!Interview
<1>3. /\ counts' \in [decisions : 0 .. MaxDecisions, reprocess : 0 .. MaxReprocess]
      /\ counts'.decisions = counts.decisions /\ counts'.reprocess = counts.reprocess + 1
  <2>1. counts.reprocess + 1 \in 0 .. MaxReprocess  BY <1>1, FeedTypes, Settings
  <2>2. QED  BY <1>1, <2>1, FeedTypes
<1>4. Planned'  BY <1>1, <1>2, <1>3, FeedTypes DEF Feed, Planned
<1>5. DecisionFirst'  BY <1>1, <1>2, FeedTypes, LettersStay DEF Feed, DecisionFirst
<1>6. ~past'.early => ConclusionFirst'
  BY <1>1, <1>2, <1>3, FeedTypes, LettersStay DEF Feed, ConclusionFirst, Fresh
<1>7. Told'  BY <1>1 DEF Told
<1>8. ~past'.died /\ ~past'.early => OncePerEvent'
  <2>1. InHand' = InHand /\ Deciding' = Deciding /\ Evaluating' \in {0, 1} /\ Evaluating = 0
    BY <1>1 DEF InHand, Deciding, Evaluating
  <2>2. /\ Len(letters') \in Nat /\ Len(letters') = Len(letters) /\ 0 \in Nat /\ 1 \in Nat
        /\ counts'.decisions = counts.decisions + 0
    BY <1>1, <1>3, FeedTypes, Settings
  <2>3. Len(letters') + InHand' + Deciding' + Evaluating'
           <= Len(letters) + InHand + Deciding + Evaluating + 0 + 1
    BY <2>1, <2>2, OnTheWay
  <2>4. QED  BY <1>1, <1>3, <2>2, <2>3, OwedStays DEF Feed
<1>9. QED  BY <1>4, <1>5, <1>6, <1>7, <1>8 DEF Feed

LEMMA DecideFeeds == ASSUME Feed, F!decide \/ F!public_decide  PROVE Feed'
<1>1. /\ UNCHANGED <<today, mode, evaluation, evaluator, job, letters, ready, unsubscribed>>
      /\ counts.decisions < MaxDecisions /\ today + AfterDays <= Horizon
      /\ interview' = [interview EXCEPT !.decision = TRUE,
                                        !.status = IF @ = "processing" THEN @ ELSE "decided",
                                        !.decidedOn = IF interview.decision THEN @ ELSE today]
      /\ counts' = [counts EXCEPT !.decisions = @ + 1]
      /\ decider' = decider \/ (decider = "idle" /\ decider' = "schedule")
  BY Zenon DEF F!decide, F!public_decide, F!Decided, F!InTime
<1>2. /\ interview' \in F!Interview /\ interview'.decision = TRUE
      /\ interview'.status = (IF interview.status = "processing" THEN "processing" ELSE "decided")
      /\ interview'.decidedOn = (IF interview.decision THEN interview.decidedOn ELSE today)
      /\ interview'.concludedOn = interview.concludedOn
  BY <1>1, FeedTypes, Settings DEF F!Interview
<1>3. /\ counts' \in [decisions : 0 .. MaxDecisions, reprocess : 0 .. MaxReprocess]
      /\ counts'.decisions = counts.decisions + 1 /\ counts'.reprocess = counts.reprocess
  <2>1. counts.decisions + 1 \in 0 .. MaxDecisions  BY <1>1, FeedTypes, Settings
  <2>2. QED  BY <1>1, <2>1, FeedTypes
<1>4. /\ past' \in [died : BOOLEAN, early : BOOLEAN, shared : BOOLEAN] /\ past'.died = past.died
      /\ past'.early = (past.early \/ interview.status = "processing")
  <2>1. \E shared \in BOOLEAN :
          past' = [past EXCEPT !.early = @ \/ interview.status = "processing", !.shared = @ \/ shared]
    BY Zenon DEF F!decide, F!public_decide, F!Decided
  <2>2. QED  BY <2>1, FeedTypes
<1>5. Planned'
  <2>1. Planned /\ decider' \in {"idle", "schedule"}  BY <1>1 DEF Feed, Planned
  <2>2. (interview'.status = "processing") = (interview.status = "processing")  BY <1>2
  <2>3. QED  BY <1>1, <1>2, <1>3, <1>4, <2>1, <2>2 DEF Planned
<1>6. DecisionFirst'
  <2>1. DecisionFirst /\ F!NotBeforeDecision'  BY <1>1, <1>2, LettersStay DEF Feed, DecisionFirst
  <2>2. interview'.decidedOn <= today  BY <1>2, <2>1, FeedTypes DEF DecisionFirst
  <2>3. interview.decision => interview'.decidedOn = interview.decidedOn  BY <1>2
  <2>4. QED  BY <1>1, <1>2, <2>1, <2>2, <2>3 DEF DecisionFirst
<1>7. ASSUME ~past'.early  PROVE ConclusionFirst'
  <2>1. ConclusionFirst /\ ~past.early /\ interview'.status = "decided"  BY <1>2, <1>4, <1>7 DEF Feed
  <2>2. past'.early = past.early  BY <1>4, <1>7, <2>1, FeedTypes
  <2>3. F!NotBeforeConclusion'  BY <1>1, <1>2, <2>1, <2>2, LettersStay DEF ConclusionFirst
  <2>4. QED  BY <1>1, <1>2, <2>1, <2>3 DEF ConclusionFirst, Fresh
<1>8. ~past'.died => Told'  BY <1>1, <1>4 DEF Feed, Told
<1>9. ASSUME ~past'.died, ~past'.early  PROVE OncePerEvent'
  <2>1. OncePerEvent  BY <1>4, <1>9 DEF Feed
  <2>2. InHand' = InHand /\ Evaluating' = Evaluating /\ Deciding' \in {0, 1}
    BY <1>1 DEF InHand, Deciding, Evaluating
  <2>3. Deciding' <= Deciding + 1  BY <2>2, OnTheWay
  <2>4. /\ Len(letters') \in Nat /\ Len(letters') = Len(letters) /\ 0 \in Nat /\ 1 \in Nat
        /\ counts'.reprocess = counts.reprocess + 0
    BY <1>1, <1>3, FeedTypes, Settings
  <2>5. Len(letters') + InHand' + Deciding' + Evaluating'
           <= Len(letters) + InHand + Deciding + Evaluating + 1 + 0
    BY <2>2, <2>3, <2>4, OnTheWay
  <2>6. QED  BY <1>1, <1>3, <2>1, <2>4, <2>5, OwedStays
<1>10. QED  BY <1>5, <1>6, <1>7, <1>8, <1>9 DEF Feed

LEMMA ScheduleFeeds == ASSUME Feed, F!ScheduleFeedback  PROVE Feed'
<1>1. /\ UNCHANGED <<today, mode, interview, evaluation, evaluator, letters, ready, unsubscribed, counts, past>>
      /\ decider = "schedule" /\ decider' = "idle" /\ job' = F!Scheduled(TRUE)
  BY DEF F!ScheduleFeedback, F!DecisionSchedules
<1>2. today + AfterDays <= Horizon /\ interview.decision  BY <1>1 DEF Feed, Planned, DecisionFirst
<1>3. /\ job' \in F!Job
      /\ \/ job' = job
         \/ /\ job.status \in {"none", "ended"} /\ job'.status = "queued" /\ job'.due = today + AfterDays
  BY <1>1, <1>2, ScheduledIs
<1>4. Planned'  BY <1>1, <1>3, FeedTypes DEF Feed, Planned
<1>5. DecisionFirst'
  <2>1. DecisionFirst /\ F!NotBeforeDecision'  BY <1>1, LettersStay DEF Feed, DecisionFirst
  <2>2. CASE job' = job  BY <1>1, <2>1, <2>2 DEF DecisionFirst
  <2>3. CASE job' # job
    <3>1. job'.status = "queued" /\ job'.due = today + AfterDays  BY <1>3, <2>3
    <3>2. job'.due >= interview.decidedOn + AfterDays
      BY <1>2, <2>1, <3>1, FeedTypes, Settings DEF DecisionFirst
    <3>3. QED  BY <1>1, <1>2, <2>1, <3>1, <3>2 DEF DecisionFirst
  <2>4. QED  BY <2>2, <2>3
<1>6. ASSUME ~past'.early  PROVE ConclusionFirst'
  <2>1. ConclusionFirst /\ F!NotBeforeConclusion'
    BY <1>1, <1>6, LettersStay DEF Feed, ConclusionFirst
  <2>2. job' = job \/ job'.due >= interview.concludedOn + AfterDays
    BY <1>3, <2>1, FeedTypes, Settings DEF ConclusionFirst
  <2>3. ~Fresh  BY <1>1, <2>1 DEF ConclusionFirst
  <2>4. QED  BY <1>1, <2>1, <2>2, <2>3 DEF ConclusionFirst, Fresh
<1>7. ~past'.died => Told'  BY <1>1 DEF Feed, Told
<1>8. ASSUME ~past'.died, ~past'.early  PROVE OncePerEvent'
  <2>1. OncePerEvent  BY <1>1, <1>8 DEF Feed
  <2>2. /\ Deciding' = 0 /\ Deciding = 1 /\ Evaluating' = Evaluating /\ Evaluating' <= Evaluating
        /\ InHand' \in {0, 1} /\ Deciding' \in {0, 1} /\ Evaluating' \in {0, 1}
    BY <1>1 DEF Deciding, Evaluating, InHand
  <2>3. InHand' + Deciding' + Evaluating' <= InHand + Deciding + Evaluating  BY <2>2, OnTheWay, SumsStay
  <2>4. QED  BY <1>1, <2>1, <2>3, OwedRests
<1>9. QED  BY <1>4, <1>5, <1>6, <1>7, <1>8 DEF Feed

\* The job is claimed, given up or completed; or it comes back when the worker dies.
LEMMA JobFeeds ==
    ASSUME Feed, UNCHANGED <<today, mode, interview, evaluation, evaluator, decider>>,
           UNCHANGED <<letters, ready, unsubscribed, counts>>, job' \in F!Job, job'.due = job.due,
           job.status # "none", job'.status \in {"running", "sent"} => job.due <= today,
           past' \in [died : BOOLEAN, early : BOOLEAN, shared : BOOLEAN], past'.early = past.early,
           ~past'.died => ~past.died /\ InHand' <= InHand
    PROVE  Feed'
<1>1. Planned'  BY FeedTypes DEF Feed, Planned
<1>2. DecisionFirst'
  <2>1. DecisionFirst /\ F!NotBeforeDecision'  BY LettersStay DEF Feed, DecisionFirst
  <2>2. QED  BY <2>1 DEF DecisionFirst
<1>3. ASSUME ~past'.early  PROVE ConclusionFirst'
  <2>1. ConclusionFirst /\ F!NotBeforeConclusion'  BY <1>3, LettersStay DEF Feed, ConclusionFirst
  <2>2. QED  BY <2>1 DEF ConclusionFirst, Fresh
<1>4. ~past'.died => Told'  BY DEF Feed, Told
<1>5. ASSUME ~past'.died, ~past'.early  PROVE OncePerEvent'
  <2>1. OncePerEvent  BY <1>5 DEF Feed
  <2>2. /\ Deciding' <= Deciding /\ Evaluating' <= Evaluating /\ InHand' <= InHand
        /\ InHand' \in {0, 1} /\ Deciding' \in {0, 1} /\ Evaluating' \in {0, 1}
    BY <1>5 DEF Deciding, Evaluating, InHand
  <2>3. InHand' + Deciding' + Evaluating' <= InHand + Deciding + Evaluating  BY <2>2, OnTheWay, SumsStay
  <2>4. QED  BY <2>1, <2>3, OwedRests
<1>6. QED  BY <1>1, <1>2, <1>3, <1>4, <1>5 DEF Feed

LEMMA ClaimFeeds == ASSUME Feed, F!Claim \/ F!End  PROVE Feed'
<1>1. UNCHANGED <<today, mode, interview, evaluation, evaluator, decider, letters, ready, unsubscribed, counts, past>>
  BY DEF F!Claim, F!End
<1>2. CASE F!Claim
  <2>1. /\ job.status = "queued" /\ job.due <= today
        /\ job' \in {[job EXCEPT !.status = "running", !.attempts = @ + 1], [job EXCEPT !.status = "ended"]}
        /\ F!AttemptsLeft \/ job' = [job EXCEPT !.status = "ended"]
    BY <1>2 DEF F!Claim
  <2>2. job' \in F!Job /\ job'.due = job.due /\ job'.status \in {"running", "ended"}
    <3>1. CASE job' = [job EXCEPT !.status = "ended"]  BY <3>1, FeedTypes DEF F!Job
    <3>2. CASE F!AttemptsLeft /\ job' = [job EXCEPT !.status = "running", !.attempts = @ + 1]
      <4>1. job.attempts + 1 \in 0 .. feedback_attempts  BY <3>2, FeedTypes, Settings DEF F!AttemptsLeft
      <4>2. QED  BY <3>2, <4>1, FeedTypes DEF F!Job
    <3>3. QED  BY <2>1, <3>1, <3>2
  <2>3. InHand' <= InHand  BY <2>1, <2>2 DEF InHand
  <2>4. QED  BY <1>1, <2>1, <2>2, <2>3, FeedTypes, JobFeeds
<1>3. CASE F!End
  <2>1. job.status = "sent" /\ job' = [job EXCEPT !.status = "ended"]  BY <1>3 DEF F!End, F!Completed
  <2>2. job' \in F!Job /\ job'.due = job.due /\ job'.status = "ended"  BY <2>1, FeedTypes DEF F!Job
  <2>3. InHand' <= InHand  BY <2>1, <2>2 DEF InHand
  <2>4. QED  BY <1>1, <2>1, <2>2, <2>3, FeedTypes, JobFeeds
<1>4. QED  BY <1>2, <1>3

LEMMA SendFeeds == ASSUME Feed, F!send_candidate_feedback  PROVE Feed'
<1>1. /\ UNCHANGED <<today, mode, interview, evaluation, evaluator, decider, ready, unsubscribed, counts, past>>
      /\ job.status = "running" /\ job' = [job EXCEPT !.status = "sent"]
      /\ letters' = letters \/ (F!MaySend /\ letters' = Append(letters, today))
  BY DEF F!send_candidate_feedback
<1>2. job' \in F!Job /\ job'.due = job.due /\ job'.status = "sent" /\ job.due <= today
  BY <1>1, FeedTypes DEF F!Job, Feed, DecisionFirst
<1>3. /\ letters' \in Seq(0 .. Horizon) /\ Len(letters') \in Nat
      /\ Len(letters') = Len(letters) \/ (F!MaySend /\ Len(letters') = Len(letters) + 1)
      /\ \A k \in 1 .. Len(letters') : letters'[k] = today \/ (k \in 1 .. Len(letters) /\ letters'[k] = letters[k])
  <2>1. CASE letters' = letters  BY <2>1, FeedTypes
  <2>2. CASE F!MaySend /\ letters' = Append(letters, today)
    <3>1. /\ letters' \in Seq(0 .. Horizon) /\ Len(letters') = Len(letters) + 1
          /\ letters'[Len(letters) + 1] = today
          /\ \A k \in 1 .. Len(letters) : letters'[k] = letters[k]
      BY <2>2, FeedTypes
    <3>2. QED  BY <2>2, <3>1, FeedTypes
  <2>3. QED  BY <1>1, <2>1, <2>2
<1>4. letters' = letters \/ interview.decision \/ mode # "after_decision"
  BY <1>1 DEF F!MaySend, F!Sendable
<1>5. Planned'  BY <1>1, <1>2, <1>3, FeedTypes, Settings DEF Feed, Planned
<1>6. DecisionFirst'
  <2>1. DecisionFirst  BY DEF Feed
  <2>2. mode = "after_decision" => interview.decision /\ today >= interview.decidedOn + AfterDays
    BY <1>1, <1>2, <2>1, FeedTypes, Settings DEF DecisionFirst
  <2>3. F!NotBeforeDecision'  BY <1>1, <1>3, <2>1, <2>2 DEF DecisionFirst, F!NotBeforeDecision
  <2>4. QED  BY <1>1, <1>2, <2>1, <2>3 DEF DecisionFirst
<1>7. ASSUME ~past'.early  PROVE ConclusionFirst'
  <2>1. ConclusionFirst /\ ~past.early  BY <1>1, <1>7 DEF Feed
  <2>2. ~Fresh  BY <1>1, <2>1 DEF ConclusionFirst
  <2>3. mode = "auto_after_days" => today >= interview.concludedOn + AfterDays
    BY <1>1, <1>2, <2>1, FeedTypes, Settings DEF ConclusionFirst
  <2>4. F!NotBeforeConclusion'  BY <1>1, <1>3, <2>1, <2>3 DEF ConclusionFirst, F!NotBeforeConclusion
  <2>5. QED  BY <1>1, <1>2, <2>1, <2>2, <2>4 DEF ConclusionFirst, Fresh
<1>8. ~past'.died => Told'  BY <1>1 DEF Feed, Told
<1>9. ASSUME ~past'.died, ~past'.early  PROVE OncePerEvent'
  <2>1. OncePerEvent  BY <1>1, <1>9 DEF Feed
  <2>2. Deciding' = Deciding /\ Evaluating' = Evaluating /\ InHand' = 0 /\ InHand = 1
    BY <1>1, <1>2 DEF Deciding, Evaluating, InHand
  <2>3. /\ counts'.decisions = counts.decisions + 0 /\ counts'.reprocess = counts.reprocess + 0 /\ 0 \in Nat
        /\ Len(letters) \in Nat
    BY <1>1, FeedTypes, Settings
  <2>4. Len(letters') + InHand' + Deciding' + Evaluating'
           <= Len(letters) + InHand + Deciding + Evaluating + 0 + 0
    BY <1>3, <2>2, <2>3, OnTheWay
  <2>5. QED  BY <1>1, <1>3, <2>1, <2>3, <2>4, OwedStays
<1>10. QED  BY <1>5, <1>6, <1>7, <1>8, <1>9 DEF Feed


LEMMA UnsubscribeFeeds == ASSUME Feed, F!unsubscribe  PROVE Feed'
<1>1. /\ UNCHANGED <<today, mode, interview, evaluation, evaluator, decider, job, letters, ready, counts, past>>
      /\ unsubscribed' = TRUE
  BY DEF F!unsubscribe
<1>2. Planned'  BY <1>1 DEF Feed, Planned
<1>3. DecisionFirst'  BY <1>1, LettersStay DEF Feed, DecisionFirst
<1>4. ~past'.early => ConclusionFirst'  BY <1>1, LettersStay DEF Feed, ConclusionFirst, Fresh
<1>5. ~past'.died => Told'  BY <1>1 DEF Feed, Told
<1>6. ~past'.died /\ ~past'.early => OncePerEvent'
  BY <1>1 DEF Feed, OncePerEvent, InHand, Deciding, Evaluating, Automatic
<1>7. QED  BY <1>2, <1>3, <1>4, <1>5, <1>6 DEF Feed

LEMMA DieFeeds == ASSUME Feed, F!Die  PROVE Feed'
<1>1. /\ UNCHANGED <<today, mode, interview, evaluation, letters, ready, unsubscribed, counts>>
      /\ past' = [past EXCEPT !.died = TRUE]
  BY DEF F!Die
<1>2. /\ past' \in [died : BOOLEAN, early : BOOLEAN, shared : BOOLEAN]
      /\ past'.died = TRUE /\ past'.early = past.early
  BY <1>1, FeedTypes
<1>3. CASE job.status \in {"running", "sent"} /\ job' = [job EXCEPT !.status = "queued"]
           /\ UNCHANGED <<decider, evaluator>>
  <2>1. job' \in F!Job /\ job'.due = job.due /\ job'.status = "queued"  BY <1>3, FeedTypes DEF F!Job
  <2>2. QED  BY <1>1, <1>2, <1>3, <2>1, JobFeeds
<1>4. CASE /\ UNCHANGED job /\ evaluator' \in [pc : {"due", "asking", "notify", "idle"}, decided : BOOLEAN]
           /\ evaluator'.decided = evaluator.decided
           /\ \/ evaluator.pc # "idle" /\ evaluator'.pc = "due" /\ decider' = decider
              \/ evaluator' = evaluator /\ decider' = "idle"
  <2>1. Planned'  BY <1>1, <1>2, <1>4 DEF Feed, Planned
  <2>2. DecisionFirst'  BY <1>1, <1>4, LettersStay DEF Feed, DecisionFirst
  <2>3. ~past'.early => ConclusionFirst'  BY <1>1, <1>2, <1>4, LettersStay DEF Feed, ConclusionFirst, Fresh
  <2>4. QED  BY <1>2, <2>1, <2>2, <2>3 DEF Feed
<1>5. CASE evaluator.pc \in {"asking", "notify"} /\ evaluator' = [evaluator EXCEPT !.pc = "due"]
           /\ UNCHANGED <<decider, job>>
  <2>1. /\ evaluator' \in [pc : {"due", "asking", "notify", "idle"}, decided : BOOLEAN]
        /\ evaluator'.pc = "due" /\ evaluator'.decided = evaluator.decided
    BY <1>5, FeedTypes
  <2>2. QED  BY <1>4, <1>5, <2>1
<1>6. CASE decider = "schedule" /\ decider' = "idle" /\ UNCHANGED <<evaluator, job>>
  BY <1>4, <1>6, FeedTypes
<1>7. QED  BY <1>3, <1>5, <1>6 DEF F!Die

LEMMA TickFeeds == ASSUME Feed, F!Tick  PROVE Feed'
<1>1. /\ UNCHANGED <<mode, interview, evaluation, evaluator, decider, job, letters, ready, unsubscribed, counts, past>>
      /\ today < Horizon /\ today' = today + 1 /\ decider = "idle"
      /\ evaluator.pc \in {"idle", "due"} /\ (evaluator.pc = "due" => today + 1 + AfterDays <= Horizon)
  BY DEF F!Tick
<1>2. today' \in 0 .. Horizon /\ today' \in F!Days  BY <1>1, FeedTypes, Settings
<1>3. Planned'
  <2>1. evaluator.pc # "idle" \/ decider = "schedule" => today' + AfterDays <= Horizon  BY <1>1
  <2>2. QED  BY <1>1, <1>2, <2>1 DEF Feed, Planned
<1>4. DecisionFirst'
  <2>1. DecisionFirst /\ F!NotBeforeDecision'  BY <1>1, LettersStay DEF Feed, DecisionFirst
  <2>2. job.due <= today => job.due <= today'  BY <1>1, FeedTypes, Settings
  <2>3. interview.decidedOn <= today => interview.decidedOn <= today'  BY <1>1, FeedTypes, Settings
  <2>4. QED  BY <1>1, <2>1, <2>2, <2>3 DEF DecisionFirst
<1>5. ASSUME ~past'.early  PROVE ConclusionFirst'
  <2>1. ConclusionFirst /\ F!NotBeforeConclusion'  BY <1>1, <1>5, LettersStay DEF Feed, ConclusionFirst
  <2>2. interview.concludedOn <= today'  BY <1>1, <2>1, FeedTypes, Settings DEF ConclusionFirst
  <2>3. QED  BY <1>1, <2>1, <2>2 DEF ConclusionFirst, Fresh
<1>6. ~past'.died => Told'  BY <1>1 DEF Feed, Told
<1>7. ~past'.died /\ ~past'.early => OncePerEvent'
  BY <1>1 DEF Feed, OncePerEvent, InHand, Deciding, Evaluating, Automatic
<1>8. QED  BY <1>3, <1>4, <1>5, <1>6, <1>7 DEF Feed

LEMMA FeedNext == ASSUME Feed, F!Next  PROVE Feed'
<1>1. CASE F!Load \/ F!Conclude \/ F!Notify \/ F!reprocess
  BY <1>1, LoadFeeds, ConcludeFeeds, NotifyFeeds, ReprocessFeeds
<1>2. CASE F!decide \/ F!public_decide \/ F!ScheduleFeedback  BY <1>2, DecideFeeds, ScheduleFeeds
<1>3. CASE F!Claim \/ F!End \/ F!send_candidate_feedback  BY <1>3, ClaimFeeds, SendFeeds
<1>4. CASE F!unsubscribe \/ F!Die \/ F!Tick  BY <1>4, UnsubscribeFeeds, DieFeeds, TickFeeds
<1>5. QED  BY <1>1, <1>2, <1>3, <1>4 DEF F!Next

LEMMA FeedRest == ASSUME Feed, UNCHANGED <<OfFeedback, interview, job, past>>  PROVE Feed'
<1>1. /\ UNCHANGED <<today, mode, interview, evaluation, evaluator, decider, job>>
      /\ UNCHANGED <<letters, ready, unsubscribed, counts, past>>
  BY DEF OfFeedback
<1>2. Planned'  BY <1>1 DEF Feed, Planned
<1>3. DecisionFirst'  BY <1>1, LettersStay DEF Feed, DecisionFirst
<1>4. ~past'.early => ConclusionFirst'  BY <1>1, LettersStay DEF Feed, ConclusionFirst, Fresh
<1>5. ~past'.died => Told'  BY <1>1 DEF Feed, Told
<1>6. ~past'.died /\ ~past'.early => OncePerEvent'
  BY <1>1 DEF Feed, OncePerEvent, InHand, Deciding, Evaluating, Automatic
<1>7. QED  BY <1>2, <1>3, <1>4, <1>5, <1>6 DEF Feed

\* A letter of feedback is written of a conclusion that is done, which is not withdrawn then.
LEMMA FeedbackConcluded == ASSUME Feed, F!Next  PROVE F!AboutConclusion
<1>1. SUFFICES ASSUME Len(letters') > Len(letters)  PROVE interview.status # "processing"
  BY DEF F!AboutConclusion
<1>2. letters' # letters  BY <1>1, FeedTypes
<1>3. F!send_candidate_feedback
  BY <1>2 DEF F!Next, F!Load, F!Conclude, F!Notify, F!reprocess, F!decide, F!public_decide, F!Decided,
              F!ScheduleFeedback, F!Claim, F!End, F!unsubscribe, F!Die, F!Tick
<1>4. F!MaySend  BY <1>2, <1>3 DEF F!send_candidate_feedback
<1>5. QED  BY <1>4 DEF F!MaySend, Feed, Planned
-----------------------------------------------------------------------------
(* What is sent, whichever part it is. *)

Notices ==
    /\ part = "outbox" => Post
    /\ part = "reminders" => Remind
    /\ part = "feedback" => Feed

LEMMA NoticesStay == ASSUME Notices, [MCNext]_all_vars  PROVE Notices'
<1>1. part = "outbox" => NextOutbox \/ UNCHANGED all_vars
  BY DEF MCNext, NextUpload, NextReminders, NextFeedback, NextConnection, NextDiscovery
<1>2. part = "reminders" => NextReminders \/ UNCHANGED all_vars
  BY DEF MCNext, NextUpload, NextOutbox, NextFeedback, NextConnection, NextDiscovery
<1>3. part = "feedback" => NextFeedback \/ UNCHANGED all_vars
  BY DEF MCNext, NextUpload, NextOutbox, NextReminders, NextConnection, NextDiscovery
<1>4. part' = part
  BY DEF MCNext, NextUpload, NextOutbox, NextReminders, NextFeedback, NextConnection, NextDiscovery,
         KeptByOutbox, KeptByReminders, KeptByFeedback, KeptByConnection, KeptByDiscovery, all_vars
<1>5. UNCHANGED all_vars =>
        /\ UNCHANGED <<job, exec, interview, past>> /\ UNCHANGED OfOutbox
        /\ UNCHANGED OfReminders /\ UNCHANGED OfFeedback
  BY DEF all_vars, OfOthers
<1>6. ASSUME part = "outbox"  PROVE Post'
  <2>1. Post  BY <1>6 DEF Notices
  <2>2. CASE NextOutbox  BY <2>1, <2>2, PostNext DEF NextOutbox
  <2>3. CASE UNCHANGED all_vars  BY <1>5, <2>1, <2>3, PostRest DEF OfOutbox
  <2>4. QED  BY <1>1, <1>6, <2>2, <2>3
<1>7. ASSUME part = "reminders"  PROVE Remind'
  <2>1. Remind  BY <1>7 DEF Notices
  <2>2. CASE NextReminders  BY <2>1, <2>2, RemindNext DEF NextReminders
  <2>3. CASE UNCHANGED all_vars  BY <1>5, <2>1, <2>3, RemindRest DEF OfReminders
  <2>4. QED  BY <1>2, <1>7, <2>2, <2>3
<1>8. ASSUME part = "feedback"  PROVE Feed'
  <2>1. Feed  BY <1>8 DEF Notices
  <2>2. CASE NextFeedback  BY <2>1, <2>2, FeedNext DEF NextFeedback
  <2>3. CASE UNCHANGED all_vars  BY <1>5, <2>1, <2>3, FeedRest
  <2>4. QED  BY <1>3, <1>8, <2>2, <2>3
<1>9. QED  BY <1>4, <1>6, <1>7, <1>8 DEF Notices

\* What is recorded of a letter is true of the mail server and each attempt of its job sends it once at
\* most (notifications/outbox.py deliver_email), a candidate is reminded once with a link that works
\* (notifications/outreach.py), and feedback comes so many days after the decision or the conclusion, once for
\* each (schedule_candidate_feedback, evaluation/service.py, reports/service.py), whenever a worker dies and
\* whatever the order of the decisions, the conclusions and the jobs.
THEOREM NoticesStayTrue == MCSpec => []NoticesAreTrue
<1>1. MCInit => Notices
  BY PostInit, RemindInit, FeedInit DEF MCInit, Notices
<1>2. Notices /\ [MCNext]_all_vars => Notices'  BY NoticesStay
<1>3. Notices => NoticesAreTrue  BY PostHolds, RemindHolds, FeedHolds DEF Notices, NoticesAreTrue
<1>4. QED  BY <1>1, <1>2, <1>3, PTL DEF MCSpec

\* A letter that is recorded as sent is not sent again as long as no lease is lost (deliver_email), and no
\* feedback is written while the conclusion it is about is made again (send_candidate_feedback).
THEOREM OnlyRightLetters == MCSpec => NoWrongLetter
<1> DEFINE Right == (part = "outbox" => O!NotSentAgain) /\ (part = "feedback" => F!AboutConclusion)
<1>1. MCInit => Notices
  BY PostInit, RemindInit, FeedInit DEF MCInit, Notices
<1>2. Notices /\ [MCNext]_all_vars => Notices'  BY NoticesStay
<1>3. ASSUME Notices, MCNext  PROVE Right
  <2>1. part = "outbox" => O!Next /\ Post
    BY <1>3 DEF Notices, MCNext, NextUpload, NextOutbox, NextReminders, NextFeedback, NextConnection, NextDiscovery
  <2>2. part = "feedback" => F!Next /\ Feed
    BY <1>3 DEF Notices, MCNext, NextUpload, NextOutbox, NextReminders, NextFeedback, NextConnection, NextDiscovery
  <2>3. QED  BY <2>1, <2>2, SentOnce, FeedbackConcluded
<1>4. Notices /\ [MCNext]_all_vars => [Right]_all_vars  BY <1>3
<1>5. QED  BY <1>1, <1>2, <1>4, PTL DEF MCSpec, NoWrongLetter
=============================================================================
