---------------------------- MODULE AdbiClient ----------------------------
(***************************************************************************)
(* The ADBI client of src/adbiclient/adbi: ADBI.request over one TCP      *)
(* connection (adbi.py), the send and recv loops of ReliableSocket         *)
(* (rsock.py), and the wire encoding of Header and Payload (packet.py).   *)
(*                                                                         *)
(* Bytes are numbers in 0..255 and strings are sequences of them; every   *)
(* struct format the code uses ('<III', '<BxHI', '<I', '<i') is modelled  *)
(* byte by byte.  A socket call moves any non-empty prefix of the data,   *)
(* as the kernel may.  The agent at the other end is not part of the      *)
(* repository: it is the environment, which answers each complete request *)
(* with one of Replies under the request's seq, and may close the         *)
(* connection at any time.                                                 *)
(***************************************************************************)
EXTENDS Integers, Sequences, SequencesExt, FiniteSets

CONSTANTS
    Calls,          \* the calls of ADBI's typed methods callers make: [op, args]
    Replies,        \* the responses the agent may send: [to, type, els, raw,
                    \* means], to the request types it answers, raw the
                    \* payload bytes it writes, means what it tells a caller
    MaxRequests,    \* bound on calls of request
    SeqSpace        \* the values seqgen cycles through

----------------------------------------------------------------------------
(* packet.py *)

\* struct.pack of an unsigned little-endian field of n bytes.
\* Byte by byte, so that no power of 256 outgrows TLC's integers.
RECURSIVE LE(_, _)
LE(v, n) == IF n = 0 THEN << >> ELSE <<v % 256>> \o LE(v \div 256, n - 1)

\* struct.unpack of an unsigned little-endian field.
UnpackU(s) == FoldRight(LAMBDA b, acc : b + 256 * acc, s, 0)

\* Header.type_encode: the four characters, first one most significant.
TypeEncode(name) == FoldLeft(LAMBDA r, c : r * 256 + c, 0, name)

\* Header.type_decode: the low byte first, then reversed.
TypeDecode(num) == Reverse([i \in 1..4 |-> (num \div (256 ^ (i - 1))) % 256])

HeaderSize == 12

HeaderPack(h) == LE(TypeEncode(h.type), 4) \o LE(h.seq, 4) \o LE(h.length, 4)

HeaderUnpack(d) == [type   |-> TypeDecode(UnpackU(SubSeq(d, 1, 4))),
                    seq    |-> UnpackU(SubSeq(d, 5, 8)),
                    length |-> UnpackU(SubSeq(d, 9, 12))]

\* Payload.Element.Type
TERMINATOR == 0
U32 == 16
I32 == 17
U64 == 32
I64 == 33
STR == 128

IntTypes == {U32, I32, U64, I64}
Width(t) == IF t \in {U32, I32} THEN 4 ELSE 8

\* struct.pack('<I'), '<i', '<Q', '<q': n bytes, two's complement.
PackInt(v, n) ==
    IF v >= 0 THEN LE(v, n)
    ELSE [i \in 1..n |-> 255 - LE(-v - 1, n)[i]]

\* struct.unpack of the same formats.
UnpackInt(t, s) ==
    IF t \in {U32, U64} \/ s[Len(s)] < 128 THEN UnpackU(s)
    ELSE -(UnpackU([i \in DOMAIN s |-> 255 - s[i]]) + 1)

\* An element: its name (bytes), type, and value (num for the integer
\* types, str for STR).
Element(name, type, num, str) == [name |-> name, type |-> type, num |-> num, str |-> str]

Terminator == Element(<< >>, TERMINATOR, 0, << >>)

\* Element.binvalue
BinValue(e) == CASE e.type = TERMINATOR -> << >>
                 [] e.type \in IntTypes -> PackInt(e.num, Width(e.type))
                 [] e.type = STR        -> e.str \o <<0>>

\* Element.pack: '<BxHI' (type, pad, len(name) + 1, len(binvalue)), the
\* name with its NUL, the value.
ElementPack(e) ==
    <<e.type, 0>> \o LE(Len(e.name) + 1, 2) \o LE(Len(BinValue(e)), 4)
        \o e.name \o <<0>> \o BinValue(e)

\* Payload.pack: the elements and a terminator.
PayloadPack(els) ==
    LET all == Append(els, Terminator)
    IN  FlattenSeq([i \in DOMAIN all |-> ElementPack(all[i])])

\* Python's data[a:b] for 0 <= a.
Slice(d, a, b) ==
    IF b <= a \/ a >= Len(d) THEN << >>
    ELSE SubSeq(d, a + 1, IF b < Len(d) THEN b ELSE Len(d))

\* Mutant: the name slice keeps the NUL.
ElementAtNameWithNul(d, off) ==
    LET namelen == UnpackU(SubSeq(d, off + 3, off + 4))
        o2      == off + 8 + namelen
        datalen == UnpackU(SubSeq(d, off + 5, off + 8))
    IN  [type |-> d[off + 1], name |-> Slice(d, off + 8, o2),
         value |-> Slice(d, o2, o2 + datalen), next |-> o2 + datalen]

\* One turn of iter_elements at offset off: the '<BxHI' header, the name
\* slice of namelen - 1 bytes, the value slice, the next offset.
ElementAt(d, off) ==
    LET namelen == UnpackU(SubSeq(d, off + 3, off + 4))
        datalen == UnpackU(SubSeq(d, off + 5, off + 8))
        o1      == off + 8
        o2      == o1 + namelen
    IN  [type  |-> d[off + 1],
         name  |-> Slice(d, o1, o1 + namelen - 1),
         value |-> Slice(d, o2, o2 + datalen),
         next  |-> o2 + datalen]

\* Payload.unpack_from: the elements up to the terminator, or the error
\* list(iter_elements()) raises.
RECURSIVE Elements(_, _)
Elements(d, off) ==
    IF Len(d) - off < 8 THEN [err |-> "struct.error", els |-> << >>]
    ELSE
    LET x == ElementAt(d, off)
        e == Element(x.name, x.type,
                     IF x.type \in IntTypes THEN UnpackInt(x.type, x.value) ELSE 0,
                     IF x.type = STR /\ x.value # << >> THEN Front(x.value) ELSE << >>)
    IN  CASE x.type = TERMINATOR -> [err |-> "none", els |-> << >>]
          [] x.type \in IntTypes /\ Len(x.value) # Width(x.type) ->
                [err |-> "struct.error", els |-> << >>]
          [] x.type \in IntTypes \cup {STR} ->
                \* the next offset is bound to a value before the call, so
                \* that no offset is recomputed from the ones before it
                LET rest == CHOOSE r \in {Elements(d, n) : n \in {x.next}} : TRUE
                IN  [rest EXCEPT !.els = <<e>> \o @]
          [] OTHER -> [err |-> "ValueError", els |-> << >>]

PayloadUnpack(d) == Elements(d, 0)


----------------------------------------------------------------------------
(* adbi.py: the typed methods of ADBI *)

\* The ASCII bytes of the element names and request types the methods use.
N == [pid |-> <<112, 105, 100>>, address |-> <<97, 100, 100, 114, 101, 115, 115>>,
      size |-> <<115, 105, 122, 101>>, path |-> <<112, 97, 116, 104>>,
      loglevel |-> <<108, 111, 103, 108, 101, 118, 101, 108>>, iid |-> <<105, 105, 100>>,
      argc |-> <<97, 114, 103, 99>>, argv |-> <<97, 114, 103, 118>>,
      segc |-> <<115, 101, 103, 99>>, seglo |-> <<115, 101, 103, 108, 111>>,
      seghi |-> <<115, 101, 103, 104, 105>>, segtype |-> <<115, 101, 103, 116, 121, 112, 101>>,
      segfile |-> <<115, 101, 103, 102, 105, 108, 101>>, segoff |-> <<115, 101, 103, 111, 102, 102>>,
      word |-> <<119, 111, 114, 100>>,
      procc |-> <<112, 114, 111, 99, 99>>, procv |-> <<112, 114, 111, 99, 118>>,
      entc |-> <<101, 110, 116, 99>>, entv |-> <<101, 110, 116, 118>>, entd |-> <<101, 110, 116, 100>>,
      symc |-> <<115, 121, 109, 99>>, symad |-> <<115, 121, 109, 97, 100>>,
      symnm |-> <<115, 121, 109, 110, 109>>,
      tptc |-> <<116, 112, 116, 99>>, tpta |-> <<116, 112, 116, 97>>, tpth |-> <<116, 112, 116, 104>>,
      injc |-> <<105, 110, 106, 99>>, injid |-> <<105, 110, 106, 105, 100>>,
      injfn |-> <<105, 110, 106, 102, 110>>, injrc |-> <<105, 110, 106, 114, 99>>,
      injtp |-> <<105, 110, 106, 116, 112>>, injnm |-> <<105, 110, 106, 110, 109>>,
      injcm |-> <<105, 110, 106, 99, 109>>]
T == [PING |-> <<80, 73, 78, 71>>, QUIT |-> <<81, 85, 73, 84>>, MAPS |-> <<77, 65, 80, 83>>,
      ADDR |-> <<65, 68, 68, 82>>, MEMD |-> <<77, 69, 77, 68>>, PROC |-> <<80, 82, 79, 67>>,
      STRT |-> <<83, 84, 82, 84>>, STOP |-> <<83, 84, 79, 80>>, LDIR |-> <<76, 68, 73, 82>>,
      LLEV |-> <<76, 76, 69, 86>>, ATTC |-> <<65, 84, 84, 67>>, DETC |-> <<68, 69, 84, 67>>,
      SPWN |-> <<83, 80, 87, 78>>, INJ |-> <<73, 78, 74>>, INJT |-> <<73, 78, 74, 84>>,
      INJQ |-> <<73, 78, 74, 81>>, INJL |-> <<73, 78, 74, 76>>, INJU |-> <<73, 78, 74, 85>>,
      KILL |-> <<75, 73, 76, 76>>, EIA |-> <<69, 73, 65>>]

\* '%i' and '{:}' of a non-negative integer: its decimal digits.
RECURSIVE Decimal(_)
Decimal(i) == IF i < 10 THEN <<48 + i>> ELSE Decimal(i \div 10) \o <<48 + (i % 10)>>

\* An indexed name: base + '[%i]' % i.
Idx(base, i) == base \o <<91>> \o Decimal(i) \o <<93>>

U32El(name, v) == Element(name, U32, v, << >>)
U64El(name, v) == Element(name, U64, v, << >>)
StrEl(name, v) == Element(name, STR, 0, v)

\* The methods that only call request(type), and those that put one u32
\* or one str argument first.
NoArgRequests == [ping |-> T.PING, quit |-> T.QUIT, start |-> T.STRT, stop |-> T.STOP,
                  processes |-> T.PROC, injectables |-> T.INJQ]
U32Requests == [get_memory |-> <<T.MAPS, N.pid>>, loglevel |-> <<T.LLEV, N.loglevel>>,
                attach |-> <<T.ATTC, N.pid>>, detach |-> <<T.DETC, N.pid>>,
                kill |-> <<T.KILL, N.pid>>, injectable_unload |-> <<T.INJU, N.iid>>,
                injectable_tracepoints |-> <<T.INJT, N.iid>>]
StrRequests == [ls |-> <<T.LDIR, N.path>>, injectable_load |-> <<T.INJL, N.path>>]

\* The type and payload elements a typed call c = [op, args] requests.
Encode(c) ==
    CASE c.op \in DOMAIN NoArgRequests -> [type |-> NoArgRequests[c.op], els |-> << >>]
      [] c.op \in DOMAIN U32Requests ->
            [type |-> U32Requests[c.op][1], els |-> <<U32El(U32Requests[c.op][2], c.args[1])>>]
      [] c.op \in DOMAIN StrRequests ->
            [type |-> StrRequests[c.op][1], els |-> <<StrEl(StrRequests[c.op][2], c.args[1])>>]
      [] c.op = "explain_address" ->
            [type |-> T.ADDR, els |-> <<U32El(N.pid, c.args[1]), U64El(N.address, c.args[2])>>]
      [] c.op = "dump" ->
            [type |-> T.MEMD, els |-> <<U32El(N.pid, c.args[1]), U64El(N.address, c.args[2]),
                                        U32El(N.size, c.args[3])>>]
      [] c.op = "spawn" ->
            [type |-> T.SPWN, els |-> <<U32El(N.argc, Len(c.args))>> \o
                                      [i \in DOMAIN c.args |-> StrEl(Idx(N.argv, i - 1), c.args[i])]]
      [] c.op = "injectable_symbols" ->
            [type |-> T.INJ \o c.args[2], els |-> <<U32El(N.iid, c.args[1])>>]

\* iter_injectable_symbols: "which not in 'EIA'" is Python's substring
\* test, so '', 'EI', 'IA' and 'EIA' pass it as well as the three letters.
ArgsValid(c) == c.op = "injectable_symbols" => c.args[2] \in SubSeqs(T.EIA)

\* Payload.get of the first element called name: [ok, type, v]; ok is
\* FALSE when there is none.
Get(p, name) ==
    LET hits == SelectSeq(p.els, LAMBDA e : e.name = name)
    IN  IF hits = << >> THEN [ok |-> FALSE, type |-> TERMINATOR, v |-> 0]
        ELSE [ok |-> TRUE, type |-> hits[1].type,
              v  |-> IF hits[1].type = STR THEN hits[1].str ELSE hits[1].num]

\* response.get(name, 0): the count of a listing, 0 when absent.
Count(p, name) == IF Get(p, name).ok THEN Get(p, name).v ELSE 0

\* The methods that read a listing: its count field, and the indexed
\* fields of one entry ('seg{:}[{:}]', 'word[%i]', 'entv[{:}]', ...).
Listing == [get_memory  |-> <<N.segc, <<N.seglo, N.seghi, N.segtype, N.segfile, N.segoff>>>>,
            dump        |-> <<N.size, <<N.word>>>>,
            processes   |-> <<N.procc, <<N.procv>>>>,
            ls          |-> <<N.entc, <<N.entv, N.entd>>>>,
            injectable_symbols     |-> <<N.symc, <<N.symad, N.symnm>>>>,
            injectable_tracepoints |-> <<N.tptc, <<N.tpta, N.tpth>>>>,
            injectables |-> <<N.injc, <<N.injid, N.injfn, N.injrc, N.injtp, N.injnm, N.injcm>>>>]

\* The entries for i in xrange(count), each field read with get(name),
\* which raises ValueError when the field is absent.
Table(p, l) == [i \in 1..Count(p, l[1]) |-> [k \in DOMAIN l[2] |-> Get(p, Idx(l[2][k], i - 1))]]

\* Python 2's order on the values of a tuple: numbers before strings,
\* strings byte by byte.
SeqLess(a, b) ==
    \/ IsStrictPrefix(a, b)
    \/ \E k \in 1..Min({Len(a), Len(b)}) : SubSeq(a, 1, k - 1) = SubSeq(b, 1, k - 1) /\ a[k] < b[k]
PySame(x, y) == (x.type = STR) = (y.type = STR) /\ x.v = y.v
PyLess(x, y) ==
    IF (x.type = STR) # (y.type = STR) THEN y.type = STR
    ELSE IF x.type = STR THEN SeqLess(x.v, y.v) ELSE x.v < y.v
TupleLess(s, t) == \E k \in DOMAIN s : (\A j \in 1..(k - 1) : PySame(s[j], t[j])) /\ PyLess(s[k], t[k])

Values(row) == [k \in DOMAIN row |-> row[k].v]

\* sorted() of the entries as tuples.
SortedRows(t) == LET s == SortSeq(t, TupleLess) IN [i \in DOMAIN s |-> Values(s[i])]

\* Mutant: the word's bytes taken most significant first.
ToBytesBigEndian(word) ==
    <<(word \div 16777216) % 256, (word \div 65536) % 256, (word \div 256) % 256, word % 256>>

\* dump's tobytes: (d, c, b, a), the low byte of the word first; >> and &
\* of Python are floor division and a non-negative remainder.
ToBytes(word) ==
    <<word % 256, (word \div 256) % 256, (word \div 65536) % 256, (word \div 16777216) % 256>>

\* A string's truth value, or a number's.
Truthy(f) == IF f.type = STR THEN f.v # << >> ELSE f.v # 0

NoResult == "none"

\* What the typed method c makes of the response p: [err, val].  The
\* methods that do not read a listing return the response itself.
Decode(c, p) ==
    IF c.op \notin DOMAIN Listing THEN [err |-> "ok", val |-> p]
    ELSE
    LET t == Table(p, Listing[c.op])
    IN  IF \E i \in DOMAIN t : \E k \in DOMAIN t[i] : ~t[i][k].ok
        THEN [err |-> "ValueError", val |-> NoResult]
        ELSE [err |-> "ok", val |->
              CASE c.op \in {"get_memory", "injectables"} -> SortedRows(t)
                [] c.op = "dump" -> FlattenSeq([i \in DOMAIN t |-> ToBytes(t[i][1].v)])
                [] c.op = "processes" -> {t[i][1].v : i \in DOMAIN t}
                [] c.op = "ls" -> {t[i][1].v \o (IF Truthy(t[i][2]) THEN <<47>> ELSE << >>) :
                                     i \in DOMAIN t}
                [] OTHER -> [i \in DOMAIN t |-> Values(t[i])]]


----------------------------------------------------------------------------
(* adbi.py and rsock.py *)

VARIABLES
    conn,       \* self.connection: "none" or "open"
    peer,       \* the agent's end of the connection: "up" or "closed"
    c2s,        \* bytes sent and not yet read by the agent
    s2c,        \* bytes the agent wrote and the client has not read
    seq,        \* the next value of self.seqgen
    issued,     \* calls of request so far
    pc,         \* "idle", or where request is: "send", "recv_header", "recv_payload"
    cur,        \* the header of the request in progress
    out,        \* data[total:] of ReliableSocket.send
    need,       \* the length argument of ReliableSocket.recv
    buf,        \* result of ReliableSocket.recv so far
    hdr,        \* the response header __recv has unpacked
    resp,       \* the Packet request returned or raised on, or NoResp
    outcome,    \* how the last call ended
    lastReply,  \* the packet the agent sent last on this connection
    call,       \* the typed call in progress or last made, or NoCall
    result      \* what the typed method returned, or NoResult

vars == <<conn, peer, c2s, s2c, seq, issued, pc, cur, out, need, buf, hdr,
          resp, outcome, lastReply, call, result>>

NoHeader == [type |-> << >>, seq |-> 0, length |-> 0]
NoResp   == [type |-> << >>, seq |-> 0, els |-> << >>]
NoCall   == [op |-> "none", args |-> << >>]

FAIL == <<70, 65, 73, 76>>
USUP == <<85, 83, 85, 80>>
MALF == <<77, 65, 76, 70>>

\* A call that ends without touching the request state.
Finish(o) == /\ outcome' = o /\ resp' = NoResp
             /\ UNCHANGED <<pc, cur, out, need, buf, hdr>>

Init ==
    /\ conn = "none" /\ peer = "closed"
    /\ c2s = << >> /\ s2c = << >>
    /\ seq = 0 /\ issued = 0
    /\ pc = "idle" /\ cur = NoHeader /\ out = << >> /\ need = 0 /\ buf = << >>
    /\ hdr = NoHeader /\ resp = NoResp /\ outcome = "none" /\ lastReply = NoResp
    /\ call = NoCall /\ result = NoResult

\* ADBI.connect: ReliableSocket(address) connects, or raises IOError when
\* the agent refuses; a second connect raises ADBIException.
Connect ==
    /\ pc = "idle"
    /\ IF conn = "open"
       THEN Finish("ADBIException") /\ UNCHANGED <<conn, peer, c2s, s2c, lastReply>>
       ELSE \/ /\ conn' = "open" /\ peer' = "up"
               /\ c2s' = << >> /\ s2c' = << >> /\ lastReply' = NoResp
               /\ Finish("none")
            \/ Finish("IOError") /\ UNCHANGED <<conn, peer, c2s, s2c, lastReply>>
    /\ UNCHANGED <<seq, issued, call, result>>

\* ADBI.disconnect: __check_connection, close, forget the connection.
Disconnect ==
    /\ pc = "idle"
    /\ IF conn = "open"
       THEN /\ conn' = "none" /\ peer' = "closed" /\ c2s' = << >> /\ s2c' = << >>
            /\ Finish("none")
       ELSE Finish("ADBIException") /\ UNCHANGED <<conn, peer, c2s, s2c>>
    /\ UNCHANGED <<seq, issued, lastReply, call, result>>

\* A typed method c up to the end of __send: its argument check, then
\* request's __check_connection and a header with next(self.seqgen) and
\* len(payload.pack()); Header.pack's type_encode then asserts a type of
\* four characters, after the seq is taken and before a byte is sent.
Request(c) ==
    /\ pc = "idle" /\ issued < MaxRequests
    /\ issued' = issued + 1 /\ call' = c /\ result' = NoResult
    /\ LET r == Encode(c) IN
       CASE ~ArgsValid(c)   -> Finish("ValueError") /\ UNCHANGED seq
         [] conn = "none"   -> Finish("ADBIException") /\ UNCHANGED seq
         [] Len(r.type) # 4 -> Finish("AssertionError") /\ seq' = (seq + 1) % SeqSpace
         [] OTHER ->
            LET payload == PayloadPack(r.els)
                h       == [type |-> r.type, seq |-> seq, length |-> Len(payload)]
            IN  /\ cur' = h
                /\ out' = HeaderPack(h) \o payload
                /\ seq' = (seq + 1) % SeqSpace
                /\ pc' = "send" /\ resp' = NoResp /\ outcome' = "none"
                /\ UNCHANGED <<need, buf, hdr>>
    /\ UNCHANGED <<conn, peer, c2s, s2c, lastReply>>

\* How many of n available bytes one socket call moves: one, or all.
\* Every split of the stream is reached by steps of one byte, so these
\* reach every state that calls of any size reach, with fewer steps.
Moved(n) == {1, n}

\* Ends request with an exception.
Raise(o) == /\ pc' = "idle" /\ outcome' = o
            /\ UNCHANGED <<cur, out, need, buf, hdr, resp>>

\* One turn of the ReliableSocket.send loop: socket.send takes a prefix of
\* data[total:]; on a connection the agent closed it may still accept
\* bytes, which are lost, or fail with socket.error, an IOError.  The loop
\* ends when everything is sent, and __recv calls recv(Header.size).
SendChunk ==
    /\ pc = "send"
    /\ \/ \E k \in Moved(Len(out)) :
            /\ c2s' = IF peer = "up" THEN c2s \o SubSeq(out, 1, k) ELSE c2s
            /\ out' = SubSeq(out, k + 1, Len(out))
            /\ IF k = Len(out)
               THEN pc' = "recv_header" /\ need' = HeaderSize /\ buf' = << >>
               ELSE UNCHANGED <<pc, need, buf>>
            /\ UNCHANGED <<cur, hdr, resp, outcome>>
       \/ peer = "closed" /\ Raise("IOError") /\ UNCHANGED c2s
    /\ UNCHANGED <<conn, peer, s2c, seq, issued, lastReply, call, result>>

\* Mutant: socket.recv asked for a fixed buffer size, not for what is
\* still missing.
RecvChunkUnbounded ==
    /\ pc \in {"recv_header", "recv_payload"} /\ Len(buf) < need
    /\ IF s2c # << >>
       THEN \E k \in Moved(Len(s2c)) :
               /\ buf' = buf \o SubSeq(s2c, 1, k)
               /\ s2c' = SubSeq(s2c, k + 1, Len(s2c))
               /\ UNCHANGED <<pc, cur, out, need, hdr, resp, outcome>>
       ELSE peer = "closed" /\ Raise("IOError") /\ UNCHANGED s2c
    /\ UNCHANGED <<conn, peer, c2s, seq, issued, lastReply, call, result>>

\* One turn of the ReliableSocket.recv loop: socket.recv returns at most
\* length - len(result) bytes of what has arrived, or '' once the agent
\* has closed and nothing is left, which raises IOError.
RecvChunk ==
    /\ pc \in {"recv_header", "recv_payload"} /\ Len(buf) < need
    /\ IF s2c # << >>
       THEN \E k \in Moved(Min({need - Len(buf), Len(s2c)})) :
               /\ buf' = buf \o SubSeq(s2c, 1, k)
               /\ s2c' = SubSeq(s2c, k + 1, Len(s2c))
               /\ UNCHANGED <<pc, cur, out, need, hdr, resp, outcome>>
       ELSE peer = "closed" /\ Raise("IOError") /\ UNCHANGED s2c
    /\ UNCHANGED <<conn, peer, c2s, seq, issued, lastReply, call, result>>

\* Mutant: the response type is checked as soon as the header is in.
HeaderReceivedRaiseEarly ==
    /\ pc = "recv_header" /\ Len(buf) = need
    /\ hdr' = HeaderUnpack(buf)
    /\ IF hdr'.type \in {FAIL, USUP, MALF}
       THEN pc' = "idle" /\ outcome' = "ADBIException" /\ UNCHANGED <<need, buf>>
       ELSE pc' = "recv_payload" /\ need' = hdr'.length /\ buf' = << >> /\ UNCHANGED outcome
    /\ UNCHANGED <<conn, peer, c2s, s2c, seq, issued, cur, out, resp, lastReply, call, result>>

\* Mutant: the payload length taken to include the header.
HeaderReceivedLengthWithHeader ==
    /\ pc = "recv_header" /\ Len(buf) = need
    /\ hdr' = HeaderUnpack(buf)
    /\ pc' = "recv_payload" /\ need' = hdr'.length + HeaderSize /\ buf' = << >>
    /\ UNCHANGED <<conn, peer, c2s, s2c, seq, issued, cur, out, resp, outcome, lastReply, call, result>>

\* __recv: Header.unpack_from of the header bytes, then
\* recv(header.length) for the payload.
HeaderReceived ==
    /\ pc = "recv_header" /\ Len(buf) = need
    /\ hdr' = HeaderUnpack(buf)
    /\ pc' = "recv_payload" /\ need' = hdr'.length /\ buf' = << >>
    /\ UNCHANGED <<conn, peer, c2s, s2c, seq, issued, cur, out, resp, outcome, lastReply, call, result>>

\* __recv: Payload.unpack_from, then the FAIL, USUP and MALF checks of
\* request, which raise ADBIException; otherwise request returns and the
\* typed method reads its result from the response.
PayloadReceived ==
    /\ pc = "recv_payload" /\ Len(buf) = need
    /\ \E p \in {PayloadUnpack(buf)} :
       LET r == [type |-> hdr.type, seq |-> hdr.seq, els |-> p.els]
       IN  IF p.err # "none"
           THEN Raise(p.err) /\ UNCHANGED result
           ELSE /\ resp' = r /\ pc' = "idle"
                /\ IF hdr.type \in {FAIL, USUP, MALF}
                   THEN outcome' = "ADBIException" /\ UNCHANGED result
                   ELSE \E d \in {Decode(call, r)} : outcome' = d.err /\ result' = d.val
                /\ UNCHANGED <<cur, out, need, buf, hdr>>
    /\ UNCHANGED <<conn, peer, c2s, s2c, seq, issued, lastReply, call>>

\* The agent (environment): reads a complete request and writes one of
\* the Replies to its type under the request's seq.
Serve ==
    /\ peer = "up" /\ Len(c2s) >= HeaderSize
    /\ LET h == HeaderUnpack(SubSeq(c2s, 1, HeaderSize)) IN
       /\ Len(c2s) >= HeaderSize + h.length
       /\ \E r \in {r \in Replies : h.type \in r.to} :
            /\ s2c' = s2c \o HeaderPack([type |-> r.type, seq |-> h.seq,
                                         length |-> Len(r.raw)]) \o r.raw
            /\ lastReply' = [type |-> r.type, seq |-> h.seq, els |-> r.els]
       /\ c2s' = SubSeq(c2s, HeaderSize + h.length + 1, Len(c2s))
    /\ UNCHANGED <<conn, peer, seq, issued, pc, cur, out, need, buf, hdr, resp, outcome,
                   call, result>>

\* The agent closes its end (it exits or crashes).
PeerClose ==
    /\ peer = "up" /\ peer' = "closed"
    /\ UNCHANGED <<conn, c2s, s2c, seq, issued, pc, cur, out, need, buf, hdr,
                   resp, outcome, lastReply, call, result>>

ClientStep == SendChunk \/ RecvChunk \/ HeaderReceived \/ PayloadReceived

Next ==
    \/ Connect \/ Disconnect \/ \E c \in Calls : Request(c)
    \/ ClientStep \/ Serve \/ PeerClose

\* A blocked recv returns once bytes arrive; the agent is assumed to
\* answer every request it has read completely.
Spec == Init /\ [][Next]_vars /\ WF_vars(ClientStep) /\ WF_vars(Serve)


----------------------------------------------------------------------------
Bytes == Seq(0..255)

TypeOK ==
    /\ conn \in {"none", "open"} /\ peer \in {"up", "closed"}
    /\ conn = "none" => peer = "closed"
    /\ c2s \in Bytes /\ s2c \in Bytes /\ out \in Bytes /\ buf \in Bytes
    /\ seq \in 0..(SeqSpace - 1) /\ issued \in 0..MaxRequests
    /\ pc \in {"idle", "send", "recv_header", "recv_payload"}
    /\ Len(buf) <= need
    /\ outcome \in {"none", "ok", "ADBIException", "IOError", "struct.error", "ValueError",
                    "AssertionError"}
    /\ call \in Calls \cup {NoCall}

(***************************************************************************)
(* The Packet request returns, or raises ADBIException on, is the one the *)
(* agent sent for this request: same type, same seq as the request, and   *)
(* the elements the agent packed.  request never compares the response's  *)
(* seq with its own, so this rests on the send and recv loops, the        *)
(* header and payload codecs, and __recv reading exactly one response.    *)
(***************************************************************************)
ResponseIsServersReply ==
    resp # NoResp => resp = lastReply /\ resp.seq = cur.seq

(***************************************************************************)
(* When a call of request has ended, whichever way, no byte of a response *)
(* is left unread on the connection, so the next request does not read    *)
(* the rest of this one's response as its own (adbi.py: __recv, the       *)
(* FAIL/USUP/MALF raises after it).                                        *)
(***************************************************************************)
StreamAligned == pc = "idle" => s2c = << >>

(***************************************************************************)
(* A typed method that reads a listing (get_memory, dump, processes, ls,  *)
(* the injectable listings) and returns normally returns what the agent's *)
(* reply tells: the bytes of memory in address order from dump's words,   *)
(* the segments sorted, directories marked with '/'.  This composes the   *)
(* agent's element encoding, the codecs, Payload.get's first match, the   *)
(* indexed names and the methods' conversions (adbi.py get_memory, dump,  *)
(* ls, iter_injectable_symbols).                                           *)
(***************************************************************************)
ApiResultIsAgentsAnswer ==
    (pc = "idle" /\ outcome = "ok" /\ call.op \in DOMAIN Listing) =>
        \A r \in Replies :
            (Encode(call).type \in r.to /\ r.type = resp.type /\ r.els = resp.els) =>
                result = r.means

(***************************************************************************)
(* Every request the client sends returns or raises: the lengths recv     *)
(* asks for are the lengths the agent writes, so ReliableSocket.recv      *)
(* never waits for a byte that is not coming while the agent is up.       *)
(***************************************************************************)
RequestCompletes == pc # "idle" ~> pc = "idle"

====
