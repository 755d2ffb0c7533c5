---------------------------- MODULE IPLayerProofs ----------------------------
(***************************************************************************)
(* Proofs about IPLayer, for every byte order of the host and every        *)
(* address, protocol, payload and identification: what create_packet       *)
(* makes parse_packet accepts, and a changed byte makes it refuse.         *)
(***************************************************************************)
EXTENDS IPLayer, TLAPS

\* A number below 2^16 is the two bytes it is stored as.
LEMMA HighLow ==
  ASSUME NEW n \in 0 .. Word - 1
  PROVE  High(n) \in Byte /\ Low(n) \in Byte /\ 256 * High(n) + Low(n) = n
  BY SMT DEF High, Low, Byte, Word

\* Twice is enough: the sum of ten words has no carry left, and what is left of it
\* determines it up to multiples of 2^16 - 1.
LEMMA CarriesAdded ==
  ASSUME NEW s \in 0 .. 10 * (Word - 1)
  PROVE  /\ AddCarry(s) \in 0 .. Word - 1
         /\ s > 0 => AddCarry(s) > 0
         /\ \E q \in 0 .. 20 : s = AddCarry(s) + (Word - 1) * q
<1> DEFINE a == s \div Word
           t == AddCarryOnce(s)
           b == t \div Word
<1>1. a \in 0 .. 9 /\ t = s - (Word - 1) * a /\ t \in 0 .. Word + 8
  BY SMT DEF AddCarryOnce, Word
<1>2. s > 0 => t > 0
  BY SMT DEF AddCarryOnce, Word
<1>3. b \in 0 .. 1 /\ AddCarry(s) = t - (Word - 1) * b
  <2> HIDE DEF t
  <2>1. AddCarryOnce(t) = t - (Word - 1) * b
    BY SMT, <1>1 DEF AddCarryOnce, Word
  <2>2. AddCarry(s) = AddCarryOnce(t)
    BY SMT DEF AddCarry, t
  <2> QED BY SMT, <1>1, <2>1, <2>2 DEF Word
<1>4. AddCarry(s) \in 0 .. Word - 1 /\ (t > 0 => AddCarry(s) > 0)
  <2> HIDE DEF t
  <2> QED BY SMT, <1>1, <1>3 DEF Word
<1>5. s = AddCarry(s) + (Word - 1) * (a + b) /\ a + b \in 0 .. 20
  <2> HIDE DEF t, a, b
  <2> QED BY SMT, <1>1, <1>3 DEF Word
<1> QED BY SMT, <1>2, <1>4, <1>5

\* Sums that lie less than 2^16 - 1 apart keep different remainders.
LEMMA DifferentSums ==
  ASSUME NEW s \in 1 .. 10 * (Word - 1), NEW t \in 1 .. 10 * (Word - 1), s # t,
         s - t \in (2 - Word) .. (Word - 2)
  PROVE  AddCarry(s) # AddCarry(t)
<1>0. s \in 0 .. 10 * (Word - 1) /\ t \in 0 .. 10 * (Word - 1)
  BY SMT DEF Word
<1>1. PICK p \in 0 .. 20 : s = AddCarry(s) + (Word - 1) * p
  BY SMT, <1>0, CarriesAdded
<1>2. PICK q \in 0 .. 20 : t = AddCarry(t) + (Word - 1) * q
  BY SMT, <1>0, CarriesAdded
<1>3. AddCarry(s) \in 0 .. Word - 1 /\ AddCarry(t) \in 0 .. Word - 1
  BY SMT, <1>0, CarriesAdded
<1> QED BY SMT, <1>1, <1>2, <1>3 DEF Word
-----------------------------------------------------------------------------
(* Headers *)

\* The two bytes of a word.
LEMMA BytesOfWord ==
  ASSUME NEW h \in Header, NEW k \in 1 .. 10
  PROVE  h[2 * k - 1] \in 0 .. 255 /\ h[2 * k] \in 0 .. 255
<1>1. 2 * k - 1 \in 1 .. 20 /\ 2 * k \in 1 .. 20
  BY SMT
<1>2. h \in [1 .. 20 -> 0 .. 255]
  BY DEF Header, HeaderSize, Byte
<1> QED BY <1>1, <1>2

LEMMA WordsOfHeader ==
  ASSUME NEW h \in Header, NEW k \in 1 .. 10
  PROVE  HostWord(h, k) \in 0 .. Word - 1 /\ NetWord(h, k) \in 0 .. Word - 1
<1> DEFINE a == h[2 * k - 1]
           b == h[2 * k]
<1>1. a \in 0 .. 255 /\ b \in 0 .. 255
  BY BytesOfWord
<1>2. NetWord(h, k) = 256 * a + b
  BY DEF NetWord
<1>3. HostWord(h, k) = a + 256 * b \/ HostWord(h, k) = 256 * a + b
  BY <1>2 DEF HostWord
<1> HIDE DEF a, b
<1>4. 256 * a + b \in 0 .. Word - 1 /\ a + 256 * b \in 0 .. Word - 1
  BY SMT, <1>1 DEF Word
<1> QED BY <1>2, <1>3, <1>4

LEMMA SumOfHeader ==
  ASSUME NEW h \in Header
  PROVE  checksum_accumulate(h) \in 0 .. 10 * (Word - 1)
<1> DEFINE w(k) == HostWord(h, k)
<1>1. \A k \in 1 .. 10 : w(k) \in 0 .. Word - 1
  BY SMT, WordsOfHeader
<1>2. checksum_accumulate(h)
        = w(1) + w(2) + w(3) + w(4) + w(5) + w(6) + w(7) + w(8) + w(9) + w(10)
  BY SMT DEF checksum_accumulate
<1> HIDE DEF w
<1> QED BY SMT, <1>1, <1>2 DEF Word

LEMMA ChecksumIsAWord ==
  ASSUME NEW h \in Header
  PROVE  /\ calculate_checksum(h) = Word - 1 - AddCarry(checksum_accumulate(h))
         /\ calculate_checksum(h) \in 0 .. Word - 1
<1>1. AddCarry(checksum_accumulate(h)) \in 0 .. Word - 1
  BY SMT, SumOfHeader, CarriesAdded
<1> HIDE DEF AddCarry, checksum_accumulate
<1> QED BY SMT, <1>1 DEF calculate_checksum, Word

LEMMA StandardIsAWord ==
  ASSUME NEW h \in Header
  PROVE  StandardChecksum(h) \in 0 .. Word - 1
<1> DEFINE w(k) == NetWord(h, k)
           s == w(1) + w(2) + w(3) + w(4) + w(5) + w(6) + w(7) + w(8) + w(9) + w(10)
<1>1. \A k \in 1 .. 10 : w(k) \in 0 .. Word - 1
  BY SMT, WordsOfHeader
<1>2. StandardChecksum(h) = Word - 1 - AddCarry(s)
  BY SMT DEF StandardChecksum
<1>3. s \in 0 .. 10 * (Word - 1)
  <2> HIDE DEF w
  <2> QED BY SMT, <1>1 DEF Word
<1> HIDE DEF s
<1>4. AddCarry(s) \in 0 .. Word - 1
  BY SMT, <1>3, CarriesAdded
<1> QED BY SMT, <1>2, <1>4 DEF Word

\* Setting the field changes nothing else, and what was set is read back.
LEMMA FieldIsSet ==
  ASSUME NEW h \in Header, NEW n \in 0 .. Word - 1
  PROVE  /\ WithChecksum(h, n) \in Header
         /\ NetWord(WithChecksum(h, n), 6) = n
         /\ WithChecksum(WithChecksum(h, n), 0) = WithChecksum(h, 0)
         /\ \A i \in 1 .. 20 : i \notin {11, 12} => WithChecksum(h, n)[i] = h[i]
<1>1. High(n) \in Byte /\ Low(n) \in Byte /\ 256 * High(n) + Low(n) = n
  BY SMT, HighLow
<1>2. WithChecksum(h, n) \in Header
  BY SMT, <1>1 DEF WithChecksum, Header, HeaderSize
<1>3. WithChecksum(h, n)[11] = High(n) /\ WithChecksum(h, n)[12] = Low(n)
  BY SMT DEF WithChecksum, Header, HeaderSize
<1>4. NetWord(WithChecksum(h, n), 6) = n
  BY SMT, <1>1, <1>3 DEF NetWord
<1>5. \A i \in 1 .. 20 : i \notin {11, 12} => WithChecksum(h, n)[i] = h[i]
  BY SMT DEF WithChecksum, Header, HeaderSize
<1>6. WithChecksum(WithChecksum(h, n), 0) = WithChecksum(h, 0)
  <2> DEFINE g == WithChecksum(h, n)
  <2>0. 0 \in 0 .. Word - 1
    BY SMT DEF Word
  <2>1. High(0) \in Byte /\ Low(0) \in Byte
    BY <2>0, HighLow
  <2>2. WithChecksum(g, 0) \in Header /\ WithChecksum(h, 0) \in Header
    BY SMT, <1>2, <2>1 DEF WithChecksum, Header, HeaderSize
  <2>3. \A i \in 1 .. 20 : WithChecksum(g, 0)[i] = WithChecksum(h, 0)[i]
    <3>1. \A i \in 1 .. 20 : i \notin {11, 12} =>
            WithChecksum(g, 0)[i] = g[i] /\ WithChecksum(h, 0)[i] = h[i]
      BY SMT, <1>2 DEF WithChecksum, Header, HeaderSize
    <3>2. \A f \in Header : WithChecksum(f, 0)[11] = High(0) /\ WithChecksum(f, 0)[12] = Low(0)
      BY SMT DEF WithChecksum, Header, HeaderSize
    <3> HIDE DEF g
    <3>3. g \in Header /\ \A i \in 1 .. 20 : i \notin {11, 12} => g[i] = h[i]
      BY SMT, <1>2, <1>5 DEF g
    <3> QED BY SMT, <3>1, <3>2, <3>3
  <2> HIDE DEF g
  <2>4. WithChecksum(g, 0) = WithChecksum(h, 0)
    BY SMT, <2>2, <2>3 DEF Header, HeaderSize
  <2> QED BY <2>4 DEF g
<1> QED BY SMT, <1>2, <1>4, <1>5, <1>6

\* A header whose field is nothing and gets its sum passes the test.
LEMMA SummedIsValid ==
  ASSUME NEW h \in Header, WithChecksum(h, 0) = h
  PROVE  validate_checksum(WithChecksum(h, calculate_checksum(h)))
<1> DEFINE n == calculate_checksum(h)
<1>1. n \in 0 .. Word - 1
  BY SMT, ChecksumIsAWord
<1> HIDE DEF n
<1>2. NetWord(WithChecksum(h, n), 6) = n
      /\ WithChecksum(WithChecksum(h, n), 0) = WithChecksum(h, 0)
  BY SMT, <1>1, FieldIsSet
<1> QED BY <1>2 DEF validate_checksum, n
-----------------------------------------------------------------------------
(* A changed byte *)

\* One byte that differs makes sums that differ, by less than 2^16 - 1.
LEMMA OneByteChanges ==
  ASSUME NEW h \in Header, NEW g \in Header, NEW i \in 1 .. 20,
         h[i] # g[i], \A j \in 1 .. 20 : j # i => h[j] = g[j]
  PROVE  /\ checksum_accumulate(h) # checksum_accumulate(g)
         /\ checksum_accumulate(h) - checksum_accumulate(g) \in (2 - Word) .. (Word - 2)
<1> DEFINE v(j) == HostWord(h, j)
           w(j) == HostWord(g, j)
<1>1. PICK k \in 1 .. 10 : i = 2 * k - 1 \/ i = 2 * k
  <2>1. (i + 1) \div 2 \in 1 .. 10
        /\ (i = 2 * ((i + 1) \div 2) - 1 \/ i = 2 * ((i + 1) \div 2))
    BY SMT
  <2> QED BY <2>1
<1>2. \A j \in 1 .. 10 : j # k => v(j) = w(j)
  <2> SUFFICES ASSUME NEW j \in 1 .. 10, j # k PROVE v(j) = w(j)
    OBVIOUS
  <2>1. h[2 * j - 1] = g[2 * j - 1] /\ h[2 * j] = g[2 * j]
    BY SMT, <1>1
  <2> QED BY <2>1 DEF HostWord, NetWord
<1>3. v(k) # w(k) /\ v(k) - w(k) \in (2 - Word) .. (Word - 2)
  <2> DEFINE a == h[2 * k - 1]
             b == h[2 * k]
             c == g[2 * k - 1]
             d == g[2 * k]
  <2>1. a \in 0 .. 255 /\ b \in 0 .. 255 /\ c \in 0 .. 255 /\ d \in 0 .. 255
    BY BytesOfWord
  <2>2. (a # c /\ b = d) \/ (a = c /\ b # d)
    <3>1. 2 * k - 1 \in 1 .. 20 /\ 2 * k \in 1 .. 20 /\ 2 * k - 1 # 2 * k
      BY SMT
    <3>2. CASE i = 2 * k - 1
      BY <3>1, <3>2
    <3>3. CASE i = 2 * k
      BY <3>1, <3>3
    <3> QED BY <1>1, <3>2, <3>3
  <2>3. \/ v(k) = a + 256 * b /\ w(k) = c + 256 * d
        \/ v(k) = 256 * a + b /\ w(k) = 256 * c + d
    BY DEF HostWord, NetWord
  <2> HIDE DEF a, b, c, d, v, w
  <2>4. CASE a # c /\ b = d
    <3>1. CASE v(k) = a + 256 * b /\ w(k) = c + 256 * d
      BY SMT, <2>1, <2>4, <3>1 DEF Word
    <3>2. CASE v(k) = 256 * a + b /\ w(k) = 256 * c + d
      BY SMT, <2>1, <2>4, <3>2 DEF Word
    <3> QED BY <2>3, <3>1, <3>2
  <2>5. CASE a = c /\ b # d
    <3>1. CASE v(k) = a + 256 * b /\ w(k) = c + 256 * d
      BY SMT, <2>1, <2>5, <3>1 DEF Word
    <3>2. CASE v(k) = 256 * a + b /\ w(k) = 256 * c + d
      BY SMT, <2>1, <2>5, <3>2 DEF Word
    <3> QED BY <2>3, <3>1, <3>2
  <2> QED BY <2>2, <2>4, <2>5
<1>4. \A j \in 1 .. 10 : v(j) \in 0 .. Word - 1 /\ w(j) \in 0 .. Word - 1
  BY WordsOfHeader
<1>5. /\ checksum_accumulate(h)
           = v(1) + v(2) + v(3) + v(4) + v(5) + v(6) + v(7) + v(8) + v(9) + v(10)
      /\ checksum_accumulate(g)
           = w(1) + w(2) + w(3) + w(4) + w(5) + w(6) + w(7) + w(8) + w(9) + w(10)
  BY DEF checksum_accumulate
<1> HIDE DEF v, w
<1>6. \A j \in 1 .. 10 : v(j) \in Int /\ w(j) \in Int
  BY SMT, <1>4 DEF Word
<1>7. checksum_accumulate(h) - checksum_accumulate(g) = v(k) - w(k)
  BY SMT, <1>2, <1>5, <1>6
<1>8. checksum_accumulate(h) \in Int /\ checksum_accumulate(g) \in Int
  BY SMT, <1>5, <1>6
<1> QED BY SMT, <1>3, <1>6, <1>7, <1>8

\* The version and the time to live are not both nothing, so the sum is not either.
LEMMA SumIsPositive ==
  ASSUME NEW h \in Header, h[1] > 0 \/ h[9] > 0
  PROVE  checksum_accumulate(h) \in 1 .. 10 * (Word - 1)
<1> DEFINE w(k) == HostWord(h, k)
<1>1. \A k \in 1 .. 10 : w(k) \in 0 .. Word - 1
  BY WordsOfHeader
<1>2. checksum_accumulate(h)
        = w(1) + w(2) + w(3) + w(4) + w(5) + w(6) + w(7) + w(8) + w(9) + w(10)
  BY DEF checksum_accumulate
<1>3. w(1) > 0 \/ w(5) > 0
  <2> DEFINE a == h[1]
             b == h[2]
             c == h[9]
             d == h[10]
  <2>1. a \in 0 .. 255 /\ b \in 0 .. 255 /\ c \in 0 .. 255 /\ d \in 0 .. 255
    BY SMT DEF Header, HeaderSize, Byte
  <2>2. 2 * 1 - 1 = 1 /\ 2 * 1 = 2 /\ 2 * 5 - 1 = 9 /\ 2 * 5 = 10
    BY SMT
  <2>3. /\ w(1) = a + 256 * b \/ w(1) = 256 * a + b
        /\ w(5) = c + 256 * d \/ w(5) = 256 * c + d
    BY <2>2 DEF HostWord, NetWord
  <2>4. a > 0 \/ c > 0
    OBVIOUS
  <2> HIDE DEF w, a, b, c, d
  <2> QED BY SMT, <2>1, <2>3, <2>4
<1> HIDE DEF w
<1> QED BY SMT, <1>1, <1>2, <1>3 DEF Word

LEMMA DamageIsSeen ==
  ASSUME NEW h \in Header, validate_checksum(h), h[1] > 0, h[9] > 0,
         NEW i \in 1 .. 20, NEW b \in Byte, h[i] # b
  PROVE  ~validate_checksum([h EXCEPT ![i] = b])
<1> DEFINE g == [h EXCEPT ![i] = b]
           h0 == WithChecksum(h, 0)
           g0 == WithChecksum(g, 0)
<1>1. /\ g \in Header
      /\ g[i] = b
      /\ \A j \in 1 .. 20 : j # i => g[j] = h[j]
  BY SMT DEF Header, HeaderSize
<1> HIDE DEF g
<1>2. 0 \in 0 .. Word - 1
  BY SMT DEF Word
<1>3. /\ h0 \in Header /\ g0 \in Header
      /\ \A j \in 1 .. 20 : j \notin {11, 12} => h0[j] = h[j] /\ g0[j] = g[j]
  BY <1>1, <1>2, FieldIsSet
<1>4. h0[11] = g0[11] /\ h0[12] = g0[12]
  BY SMT, <1>1 DEF WithChecksum, Header, HeaderSize
<1>5. NetWord(h, 6) = calculate_checksum(h0)
  BY DEF validate_checksum
<1> HIDE DEF h0, g0
<1>6. CASE i \in {11, 12}
  <2>1. NetWord(g, 6) # NetWord(h, 6)
    <3> DEFINE u == h[11]
               v == h[12]
               x == g[11]
               y == g[12]
    <3>1. u \in 0 .. 255 /\ v \in 0 .. 255 /\ x \in 0 .. 255 /\ y \in 0 .. 255
      <4>1. 6 \in 1 .. 10 /\ 2 * 6 - 1 = 11 /\ 2 * 6 = 12
        BY SMT
      <4>2. u \in 0 .. 255 /\ v \in 0 .. 255
        BY <4>1, BytesOfWord
      <4>3. x \in 0 .. 255 /\ y \in 0 .. 255
        BY <1>1, <4>1, BytesOfWord
      <4> QED BY <4>2, <4>3
    <3>2. (u # x /\ v = y) \/ (u = x /\ v # y)
      <4>1. 11 \in 1 .. 20 /\ 12 \in 1 .. 20 /\ 11 # 12
        BY SMT
      <4>2. CASE i = 11
        BY <1>1, <4>1, <4>2
      <4>3. CASE i = 12
        BY <1>1, <4>1, <4>3
      <4> QED BY <1>6, <4>2, <4>3
    <3>3. 2 * 6 - 1 = 11 /\ 2 * 6 = 12
      BY SMT
    <3>4. NetWord(g, 6) = 256 * x + y /\ NetWord(h, 6) = 256 * u + v
      BY <3>3 DEF NetWord
    <3> HIDE DEF u, v, x, y
    <3> QED BY SMT, <3>1, <3>2, <3>4
  <2>2. \A j \in 1 .. 20 : g0[j] = h0[j]
    BY SMT, <1>1, <1>3, <1>4, <1>6
  <2>3. g0 = h0
    BY SMT, <1>3, <2>2 DEF Header, HeaderSize
  <2> QED BY <1>5, <2>1, <2>3 DEF validate_checksum, g0, g
<1>7. CASE i \notin {11, 12}
  <2>1. NetWord(g, 6) = NetWord(h, 6)
    BY SMT, <1>1, <1>7 DEF NetWord
  <2>2. h0[i] # g0[i] /\ \A j \in 1 .. 20 : j # i => h0[j] = g0[j]
    BY SMT, <1>1, <1>3, <1>4, <1>7
  <2> DEFINE s == checksum_accumulate(h0)
             t == checksum_accumulate(g0)
  <2>3. s # t /\ s - t \in (2 - Word) .. (Word - 2)
    BY <1>3, <2>2, OneByteChanges
  <2>4. (h0[1] > 0 \/ h0[9] > 0) /\ (g0[1] > 0 \/ g0[9] > 0)
    BY SMT, <1>1, <1>3
  <2>5. s \in 1 .. 10 * (Word - 1) /\ t \in 1 .. 10 * (Word - 1)
    BY <1>3, <2>4, SumIsPositive
  <2>6. /\ calculate_checksum(h0) = Word - 1 - AddCarry(s)
        /\ calculate_checksum(g0) = Word - 1 - AddCarry(t)
    BY <1>3, ChecksumIsAWord
  <2> HIDE DEF s, t
  <2>7. AddCarry(s) # AddCarry(t)
    BY <2>3, <2>5, DifferentSums
  <2>8. AddCarry(s) \in Int /\ AddCarry(t) \in Int
    BY SMT, <2>5 DEF AddCarry, AddCarryOnce, Word
  <2>9. calculate_checksum(h0) # calculate_checksum(g0)
    BY SMT, <2>6, <2>7, <2>8 DEF Word
  <2> QED BY <1>5, <2>1, <2>9 DEF validate_checksum, g0, g
<1> QED BY <1>6, <1>7
-----------------------------------------------------------------------------
(* What create_packet makes *)

\* The header tells what was asked for.
MadeFor(h, r) ==
  /\ h \in Header
  /\ h[1] = 69 /\ h[9] = 64
  /\ total_length(h) = (HeaderSize + (r.length % Word)) % Word
  /\ h[10] = r.protocol
  /\ \A i \in 1 .. 4 : h[12 + i] = r.src_ip[i] /\ h[16 + i] = r.dst_ip[i]

LEMMA TotalLengthIsAWord ==
  ASSUME NEW n \in Nat
  PROVE  (HeaderSize + (n % Word)) % Word \in 0 .. Word - 1
  BY SMT DEF HeaderSize, Word

LEMMA HeaderIsMade ==
  ASSUME packet_id_ \in 0 .. Word - 1, NEW r \in Requests
  PROVE  MadeFor(NewHeader(r), r) /\ WithChecksum(NewHeader(r), 0) = NewHeader(r)
<1> DEFINE n == (HeaderSize + (r.length % Word)) % Word
           h == NewHeader(r)
<1>1. /\ r.length \in Nat /\ r.protocol \in Byte
      /\ r.src_ip \in [1 .. 4 -> Byte] /\ r.dst_ip \in [1 .. 4 -> Byte]
  BY IPAssumption DEF Requests
<1>2. n \in 0 .. Word - 1
  BY <1>1, TotalLengthIsAWord
<1>3. h = <<69, 0, High(n), Low(n), High(packet_id_), Low(packet_id_), 64, 0,
            64, r.protocol, 0, 0,
            r.src_ip[1], r.src_ip[2], r.src_ip[3], r.src_ip[4],
            r.dst_ip[1], r.dst_ip[2], r.dst_ip[3], r.dst_ip[4]>>
  BY DEF NewHeader, create_ip_header
<1> HIDE DEF n, h
<1>4. /\ High(n) \in Byte /\ Low(n) \in Byte /\ 256 * High(n) + Low(n) = n
      /\ High(packet_id_) \in Byte /\ Low(packet_id_) \in Byte
  BY <1>2, HighLow
<1>5. h \in Header
  <2>1. 69 \in Byte /\ 0 \in Byte /\ 64 \in Byte
    BY SMT DEF Byte
  <2>2. /\ r.src_ip[1] \in Byte /\ r.src_ip[2] \in Byte
        /\ r.src_ip[3] \in Byte /\ r.src_ip[4] \in Byte
        /\ r.dst_ip[1] \in Byte /\ r.dst_ip[2] \in Byte
        /\ r.dst_ip[3] \in Byte /\ r.dst_ip[4] \in Byte
    BY SMT, <1>1
  <2> QED BY SMT, <1>1, <1>3, <1>4, <2>1, <2>2 DEF Header, HeaderSize
<1>6. total_length(h) = n
  <2>1. 2 * 2 - 1 = 3 /\ 2 * 2 = 4
    BY SMT
  <2>2. h[3] = High(n) /\ h[4] = Low(n)
    BY SMT, <1>3
  <2> QED BY <1>4, <2>1, <2>2 DEF total_length, NetWord
<1>7. \A i \in 1 .. 4 : h[12 + i] = r.src_ip[i] /\ h[16 + i] = r.dst_ip[i]
  <2>1. /\ h[13] = r.src_ip[1] /\ h[14] = r.src_ip[2] /\ h[15] = r.src_ip[3]
        /\ h[16] = r.src_ip[4] /\ h[17] = r.dst_ip[1] /\ h[18] = r.dst_ip[2]
        /\ h[19] = r.dst_ip[3] /\ h[20] = r.dst_ip[4]
    BY SMT, <1>3
  <2> QED BY SMT, <2>1
<1>8. h[1] = 69 /\ h[9] = 64 /\ h[10] = r.protocol /\ h[11] = 0 /\ h[12] = 0
  BY SMT, <1>3
<1>9. WithChecksum(h, 0) = h
  <2>1. High(0) = 0 /\ Low(0) = 0
    BY SMT DEF High, Low
  <2> QED BY SMT, <1>5, <1>8, <2>1 DEF WithChecksum, Header, HeaderSize
<1> QED BY <1>5, <1>6, <1>7, <1>8, <1>9 DEF MadeFor, h, n

\* The checksum does not disturb the rest.
LEMMA StillMadeFor ==
  ASSUME NEW r, NEW h, MadeFor(h, r), NEW n \in 0 .. Word - 1
  PROVE  MadeFor(WithChecksum(h, n), r)
<1> DEFINE g == WithChecksum(h, n)
<1>1. g \in Header /\ \A i \in 1 .. 20 : i \notin {11, 12} => g[i] = h[i]
  BY FieldIsSet DEF MadeFor
<1> HIDE DEF g
<1>2. g[1] = h[1] /\ g[9] = h[9] /\ g[10] = h[10] /\ g[3] = h[3] /\ g[4] = h[4]
  BY SMT, <1>1
<1>3. total_length(g) = total_length(h)
  <2>1. 2 * 2 - 1 = 3 /\ 2 * 2 = 4
    BY SMT
  <2> QED BY <1>2, <2>1 DEF total_length, NetWord
<1>4. \A i \in 1 .. 4 : g[12 + i] = h[12 + i] /\ g[16 + i] = h[16 + i]
  BY SMT, <1>1
<1>5. MadeFor(g, r)
  BY <1>1, <1>2, <1>3, <1>4 DEF MadeFor
<1> QED BY <1>5 DEF g

LEMMA PacketIsValid ==
  ASSUME packet_id_ \in 0 .. Word - 1, NEW r \in Requests
  PROVE  LET h == WithChecksum(NewHeader(r), calculate_checksum(NewHeader(r)))
         IN MadeFor(h, r) /\ validate_checksum(h)
<1>1. MadeFor(NewHeader(r), r) /\ WithChecksum(NewHeader(r), 0) = NewHeader(r)
  BY HeaderIsMade
<1>2. NewHeader(r) \in Header
  BY <1>1 DEF MadeFor
<1>3. calculate_checksum(NewHeader(r)) \in 0 .. Word - 1
  BY <1>2, ChecksumIsAWord
<1> QED BY <1>1, <1>2, <1>3, StillMadeFor, SummedIsValid
-----------------------------------------------------------------------------
(* The two byte orders *)

\* A word with its two bytes exchanged.
Swapped(n) == 256 * Low(n) + High(n)

\* The sum of the words in network order.
NetSum(h) ==
  NetWord(h, 1) + NetWord(h, 2) + NetWord(h, 3) + NetWord(h, 4) + NetWord(h, 5)
    + NetWord(h, 6) + NetWord(h, 7) + NetWord(h, 8) + NetWord(h, 9) + NetWord(h, 10)

\* To exchange the bytes is to multiply by 256, up to multiples of 2^16 - 1.
LEMMA SwappedWord ==
  ASSUME NEW n \in 0 .. Word - 1
  PROVE  /\ Swapped(n) \in 0 .. Word - 1
         /\ Swapped(n) = 256 * n - (Word - 1) * High(n)
         /\ n > 0 => Swapped(n) > 0
         /\ Swapped(n) = n <=> High(n) = Low(n)
<1> DEFINE a == High(n)
           b == Low(n)
<1>1. a \in 0 .. 255 /\ b \in 0 .. 255 /\ n = 256 * a + b
  BY HighLow DEF Byte
<1>2. Swapped(n) = 256 * b + a
  BY DEF Swapped
<1> HIDE DEF a, b
<1>3. /\ Swapped(n) \in 0 .. Word - 1
      /\ Swapped(n) = 256 * n - (Word - 1) * a
      /\ n > 0 => Swapped(n) > 0
      /\ Swapped(n) = n <=> a = b
  BY SMT, <1>1, <1>2 DEF Word
<1> QED BY <1>3 DEF a, b

LEMMA SwappedComplement ==
  ASSUME NEW n \in 0 .. Word - 1
  PROVE  Swapped(Word - 1 - n) = Word - 1 - Swapped(n)
<1> DEFINE m == Word - 1 - n
           a == High(n)
           b == Low(n)
           c == High(m)
           d == Low(m)
<1>0. m \in 0 .. Word - 1
  BY SMT DEF Word
<1> HIDE DEF m
<1>1. a \in 0 .. 255 /\ b \in 0 .. 255 /\ n = 256 * a + b
  BY HighLow DEF Byte
<1>2. c \in 0 .. 255 /\ d \in 0 .. 255 /\ m = 256 * c + d
  BY <1>0, HighLow DEF Byte
<1>3. Swapped(n) = 256 * b + a /\ Swapped(m) = 256 * d + c
  BY DEF Swapped
<1> HIDE DEF a, b, c, d
<1>4. m = Word - 1 - n
  BY DEF m
<1>5. c = 255 - a /\ d = 255 - b
  BY SMT, <1>1, <1>2, <1>4 DEF Word
<1>6. Swapped(m) = Word - 1 - Swapped(n)
  BY SMT, <1>1, <1>3, <1>5 DEF Word
<1> QED BY <1>4, <1>6

\* What the carries leave is never nothing, so its remainder tells it.
LEMMA SameRemainder ==
  ASSUME NEW x \in 1 .. Word - 1, NEW y \in 1 .. Word - 1, NEW k \in Int,
         x - y = (Word - 1) * k
  PROVE  x = y
  BY SMT DEF Word

LEMMA NetSumOfHeader ==
  ASSUME NEW h \in Header, h[1] > 0
  PROVE  NetSum(h) \in 1 .. 10 * (Word - 1)
<1> DEFINE w(k) == NetWord(h, k)
<1>1. \A k \in 1 .. 10 : w(k) \in 0 .. Word - 1
  BY WordsOfHeader
<1>2. NetSum(h) = w(1) + w(2) + w(3) + w(4) + w(5) + w(6) + w(7) + w(8) + w(9) + w(10)
  BY DEF NetSum
<1>3. w(1) > 0
  <2> DEFINE a == h[1]
             b == h[2]
  <2>1. a \in 0 .. 255 /\ b \in 0 .. 255 /\ a > 0
    BY SMT DEF Header, HeaderSize, Byte
  <2>2. w(1) = 256 * a + b
    <3>1. 2 * 1 - 1 = 1 /\ 2 * 1 = 2
      BY SMT
    <3> QED BY <3>1 DEF NetWord
  <2> HIDE DEF a, b, w
  <2> QED BY SMT, <2>1, <2>2
<1> HIDE DEF w
<1> QED BY SMT, <1>1, <1>2, <1>3 DEF Word

\* A little-endian host adds up 256 times the sum in network order.
LEMMA HostSum ==
  ASSUME LittleEndian, NEW h \in Header
  PROVE  \E a \in Nat : checksum_accumulate(h) = 256 * NetSum(h) - (Word - 1) * a
<1> DEFINE u(k) == h[2 * k - 1]
           v(k) == HostWord(h, k)
           w(k) == NetWord(h, k)
           b == u(1) + u(2) + u(3) + u(4) + u(5) + u(6) + u(7) + u(8) + u(9) + u(10)
<1>1. \A k \in 1 .. 10 : u(k) \in 0 .. 255
  BY BytesOfWord
<1>2. \A k \in 1 .. 10 : w(k) \in Int /\ v(k) = 256 * w(k) - (Word - 1) * u(k)
  <2> SUFFICES ASSUME NEW k \in 1 .. 10
               PROVE  w(k) \in Int /\ v(k) = 256 * w(k) - (Word - 1) * u(k)
    OBVIOUS
  <2> DEFINE x == h[2 * k - 1]
             y == h[2 * k]
  <2>1. x \in 0 .. 255 /\ y \in 0 .. 255
    BY BytesOfWord
  <2>2. v(k) = x + 256 * y /\ w(k) = 256 * x + y /\ u(k) = x
    BY DEF HostWord, NetWord
  <2> HIDE DEF u, v, w, x, y
  <2> QED BY SMT, <2>1, <2>2 DEF Word
<1>3. /\ checksum_accumulate(h)
           = v(1) + v(2) + v(3) + v(4) + v(5) + v(6) + v(7) + v(8) + v(9) + v(10)
      /\ NetSum(h) = w(1) + w(2) + w(3) + w(4) + w(5) + w(6) + w(7) + w(8) + w(9) + w(10)
  BY DEF checksum_accumulate, NetSum
<1> HIDE DEF u, v, w
<1>4. b \in Nat
  <2>0. \A n \in 0 .. 255 : n \in Nat
    BY SMT
  <2>1. \A k \in 1 .. 10 : u(k) \in Nat
    BY <1>1, <2>0
  <2>2. /\ u(1) \in Nat /\ u(2) \in Nat /\ u(3) \in Nat /\ u(4) \in Nat /\ u(5) \in Nat
        /\ u(6) \in Nat /\ u(7) \in Nat /\ u(8) \in Nat /\ u(9) \in Nat /\ u(10) \in Nat
    BY SMT, <2>1
  <2> QED BY SMT, <2>2
<1>5. checksum_accumulate(h) = 256 * NetSum(h) - (Word - 1) * b
  <2> DEFINE e(k) == w(k) \in Int /\ u(k) \in Int /\ v(k) = 256 * w(k) - (Word - 1) * u(k)
  <2>1. \A k \in 1 .. 10 : e(k)
    BY SMT, <1>1, <1>2
  <2> HIDE DEF e
  <2>2. e(1) /\ e(2) /\ e(3) /\ e(4) /\ e(5) /\ e(6) /\ e(7) /\ e(8) /\ e(9) /\ e(10)
    BY SMT, <2>1
  <2> QED BY SMT, <1>3, <2>2 DEF e, Word
<1> HIDE DEF b
<1> QED BY <1>4, <1>5

\* The checksum of a big-endian host is that of RFC 791, and the checksum of a
\* little-endian one is it with its bytes exchanged.
LEMMA ByteOrder ==
  ASSUME NEW h \in Header, h[1] > 0
  PROVE  /\ ~LittleEndian => calculate_checksum(h) = StandardChecksum(h)
         /\ LittleEndian => calculate_checksum(h) = Swapped(StandardChecksum(h))
<1> DEFINE s == NetSum(h)
           t == checksum_accumulate(h)
<1>1. calculate_checksum(h) = Word - 1 - AddCarry(t)
  BY ChecksumIsAWord
<1>2. StandardChecksum(h) = Word - 1 - AddCarry(s)
  BY DEF StandardChecksum, NetSum
<1>3. ASSUME ~LittleEndian PROVE calculate_checksum(h) = StandardChecksum(h)
  <2>1. t = s
    BY <1>3 DEF checksum_accumulate, NetSum, HostWord
  <2> QED BY <1>1, <1>2, <2>1
<1>4. ASSUME LittleEndian PROVE calculate_checksum(h) = Swapped(StandardChecksum(h))
  <2> DEFINE x == AddCarry(s)
             y == AddCarry(t)
             z == Swapped(x)
  <2>1. s \in 1 .. 10 * (Word - 1) /\ t \in 1 .. 10 * (Word - 1)
    BY NetSumOfHeader, SumIsPositive
  <2>2. PICK a \in Nat : t = 256 * s - (Word - 1) * a
    BY <1>4, HostSum
  <2> HIDE DEF s, t
  <2>3. s \in 0 .. 10 * (Word - 1) /\ t \in 0 .. 10 * (Word - 1) /\ s > 0 /\ t > 0
    BY SMT, <2>1 DEF Word
  <2>4. x \in 0 .. Word - 1 /\ x > 0 /\ y \in 0 .. Word - 1 /\ y > 0
    BY <2>3, CarriesAdded
  <2>5. PICK p \in 0 .. 20 : s = x + (Word - 1) * p
    BY <2>3, CarriesAdded
  <2>6. PICK q \in 0 .. 20 : t = y + (Word - 1) * q
    BY <2>3, CarriesAdded
  <2> HIDE DEF x, y
  <2>7. /\ z \in 0 .. Word - 1 /\ z > 0
        /\ z = 256 * x - (Word - 1) * High(x)
    BY <2>4, SwappedWord
  <2>8. High(x) \in Int
    BY SMT, <2>4 DEF High, Word
  <2> DEFINE c == High(x)
             k == 256 * p - a - q + c
  <2> HIDE DEF c, z
  <2>9. c \in Int /\ z = 256 * x - (Word - 1) * c
    BY <2>7, <2>8 DEF c
  <2>10. k \in Int /\ y - z = (Word - 1) * k
    BY SMT, <2>2, <2>4, <2>5, <2>6, <2>9 DEF Word
  <2>11. y \in 1 .. Word - 1 /\ z \in 1 .. Word - 1
    BY SMT, <2>4, <2>7 DEF Word
  <2> HIDE DEF k
  <2>12. y = z
    BY <2>10, <2>11, SameRemainder
  <2>13. Swapped(Word - 1 - x) = Word - 1 - z
    BY <2>4, SwappedComplement DEF z
  <2> QED BY <1>1, <1>2, <2>12, <2>13 DEF x, y
<1> QED BY <1>3, <1>4

\* So the test of a header that carries the checksum of RFC 791 depends on the host.
LEMMA KernelVerdict ==
  ASSUME NEW h \in Header, WithChecksum(h, 0) = h, h[1] > 0,
         NEW g, g = WithChecksum(h, StandardChecksum(h))
  PROVE  validate_checksum(g) <=> ~LittleEndian \/ g[11] = g[12]
<1> DEFINE n == StandardChecksum(h)
<1>1. n \in 0 .. Word - 1
  BY StandardIsAWord
<1>2. NetWord(g, 6) = n /\ WithChecksum(g, 0) = h
  BY <1>1, FieldIsSet
<1>3. g[11] = High(n) /\ g[12] = Low(n)
  BY SMT DEF WithChecksum, Header, HeaderSize
<1>4. validate_checksum(g) <=> n = calculate_checksum(h)
  BY <1>2 DEF validate_checksum
<1>5. /\ ~LittleEndian => calculate_checksum(h) = n
      /\ LittleEndian => calculate_checksum(h) = Swapped(n)
  BY ByteOrder
<1> HIDE DEF n
<1>6. Swapped(n) = n <=> High(n) = Low(n)
  BY <1>1, SwappedWord
<1> QED BY <1>3, <1>4, <1>5, <1>6
-----------------------------------------------------------------------------
(* The invariant: what is known of the packet at hand *)

MadeIsKnown ==
  stage # "nothing" /\ faults = {}
    => /\ asked \in Requests
       /\ MadeFor(packet.header, asked)
       /\ validate_checksum(packet.header)
       /\ packet.size = HeaderSize + asked.length

KernelIsKnown ==
  stage # "nothing" /\ faults = {"kernel"}
    => /\ asked \in Requests
       /\ MadeFor(packet.header, asked)
       /\ validate_checksum(packet.header)
            <=> ~LittleEndian \/ packet.header[11] = packet.header[12]
       /\ packet.size = HeaderSize + asked.length
       /\ HeaderSize + asked.length < Word

DamageIsKnown ==
  stage # "nothing" /\ faults = {"damaged"} => ~validate_checksum(packet.header)

VerdictIsKnown ==
  /\ stage = "accepted" => Accepts(packet) /\ payload = PayloadOf(packet)
  /\ stage = "refused" => ~Accepts(packet)

IInv == TypeOK /\ MadeIsKnown /\ KernelIsKnown /\ DamageIsKnown /\ VerdictIsKnown

LEMMA InitIInv == Init => IInv
<1> SUFFICES ASSUME Init PROVE IInv
  OBVIOUS
<1>1. packet_id_ \in 0 .. Word - 1
  BY IPAssumption DEF Init
<1>2. packet \in Packet
  <2>1. 0 \in Byte /\ HeaderSize \in Nat
    BY SMT DEF Byte, HeaderSize
  <2> QED BY <2>1 DEF Init, Packet, NoPacket, Header
<1>3. payload \in [from : Nat, to : Nat]
  BY DEF Init
<1> QED BY <1>1, <1>2, <1>3 DEF Init, IInv, TypeOK, MadeIsKnown, KernelIsKnown, DamageIsKnown, VerdictIsKnown

\* A new packet: its header has its type, and what is known of it is known.
LEMMA MadeKeepsIInv ==
  ASSUME IInv, NEW r \in Requests, NEW h \in Header, Made(r, h),
         \/ /\ faults' = {"kernel"} /\ MadeFor(h, r) /\ HeaderSize + r.length < Word
            /\ validate_checksum(h) <=> ~LittleEndian \/ h[11] = h[12]
         \/ faults' = {} /\ MadeFor(h, r) /\ validate_checksum(h)
  PROVE  IInv'
<1>1. packet_id_' \in 0 .. Word - 1
  <2>1. packet_id_ \in 0 .. Word - 1 /\ packet_id_' = (packet_id_ + 1) % Word
    BY DEF IInv, TypeOK, Made
  <2> QED BY SMT, <2>1 DEF Word
<1>2. packet' = [header |-> h, size |-> HeaderSize + r.length] /\ packet' \in Packet
  <2>0. r.length \in Nat
    BY IPAssumption DEF Requests
  <2>1. HeaderSize + r.length \in Nat
    BY SMT, <2>0 DEF HeaderSize
  <2> QED BY <2>1 DEF Made, Packet
<1>3. /\ stage' = "made" /\ asked' = r
      /\ payload' \in [from : Nat, to : Nat]
      /\ faults' \in {{}, {"kernel"}, {"damaged"}, {"cut"}}
  BY DEF Made, IInv, TypeOK
<1>4. TypeOK'
  BY <1>1, <1>2, <1>3 DEF TypeOK
<1>5. MadeIsKnown' /\ KernelIsKnown'
  BY <1>2, <1>3 DEF MadeIsKnown, KernelIsKnown
<1>6. DamageIsKnown' /\ VerdictIsKnown'
  BY <1>3 DEF DamageIsKnown, VerdictIsKnown
<1> QED BY <1>4, <1>5, <1>6 DEF IInv

\* Any header has a length and a total length.
LEMMA LengthsOfHeader ==
  ASSUME NEW h \in Header
  PROVE  get_header_length(h) \in Nat /\ total_length(h) \in 0 .. Word - 1
<1>1. h[1] \in 0 .. 255
  BY SMT DEF Header, HeaderSize, Byte
<1>2. total_length(h) \in 0 .. Word - 1
  BY WordsOfHeader DEF total_length
<1> QED BY SMT, <1>1, <1>2 DEF get_header_length

LEMMA NextIInv == IInv /\ [Next]_vars => IInv'
<1> SUFFICES ASSUME IInv, [Next]_vars PROVE IInv'
  OBVIOUS
<1>0. /\ packet_id_ \in 0 .. Word - 1
      /\ packet \in Packet /\ packet.header \in Header /\ packet.size \in Nat
      /\ asked \in Requests \cup {NoRequest}
  BY DEF IInv, TypeOK, Packet
<1>1. ASSUME NEW r \in Requests, create_packet(r) PROVE IInv'
  <2> DEFINE h == WithChecksum(NewHeader(r), calculate_checksum(NewHeader(r)))
  <2>1. MadeFor(h, r) /\ validate_checksum(h)
    BY <1>0, PacketIsValid
  <2>2. h \in Header
    BY <2>1 DEF MadeFor
  <2>3. Made(r, h) /\ faults' = {}
    BY <1>1 DEF create_packet
  <2> HIDE DEF h
  <2> QED BY <2>1, <2>2, <2>3, MadeKeepsIInv
<1>2. ASSUME NEW r \in Requests, send_packet(r) PROVE IInv'
  <2> DEFINE h == WithChecksum(NewHeader(r), StandardChecksum(NewHeader(r)))
  <2>1. NewHeader(r) \in Header
    BY <1>0, HeaderIsMade DEF MadeFor
  <2>2. h \in Header /\ MadeFor(h, r)
    BY <1>0, <2>1, HeaderIsMade, StandardIsAWord, FieldIsSet, StillMadeFor
  <2>3. Made(r, h) /\ faults' = {"kernel"} /\ HeaderSize + r.length < Word
    BY <1>2 DEF send_packet
  <2>4. validate_checksum(h) <=> ~LittleEndian \/ h[11] = h[12]
    <3>1. MadeFor(NewHeader(r), r) /\ WithChecksum(NewHeader(r), 0) = NewHeader(r)
      BY <1>0, HeaderIsMade
    <3>2. NewHeader(r)[1] > 0
      BY SMT, <3>1 DEF MadeFor
    <3> QED BY <2>1, <3>1, <3>2, KernelVerdict
  <2> HIDE DEF h
  <2> QED BY <2>2, <2>3, <2>4, MadeKeepsIInv
<1>3. ASSUME NEW i \in 1 .. HeaderSize, NEW b \in Changed, Damage(i, b) PROVE IInv'
  <2>1. i \in 1 .. 20 /\ b \in Byte
    BY IPAssumption DEF HeaderSize
  <2>2. /\ stage = "made" /\ faults = {} /\ packet.header[i] # b
        /\ packet' = [packet EXCEPT !.header[i] = b]
        /\ faults' = {"damaged"}
        /\ UNCHANGED <<packet_id_, payload, stage, asked>>
    BY <1>3 DEF Damage
  <2>3. packet.header[1] = 69 /\ packet.header[9] = 64 /\ validate_checksum(packet.header)
    BY <2>2 DEF IInv, MadeIsKnown, MadeFor
  <2>4. packet'.header = [packet.header EXCEPT ![i] = b] /\ packet' \in Packet
    BY <1>0, <2>1, <2>2 DEF Packet, Header
  <2>5. packet.header[1] > 0 /\ packet.header[9] > 0
    BY SMT, <2>3
  <2>6. ~validate_checksum(packet'.header)
    BY <1>0, <2>1, <2>2, <2>3, <2>4, <2>5, DamageIsSeen
  <2>7. TypeOK'
    BY <2>2, <2>4 DEF IInv, TypeOK
  <2> QED BY <2>2, <2>6, <2>7 DEF IInv, MadeIsKnown, KernelIsKnown, DamageIsKnown, VerdictIsKnown
<1>4. ASSUME NEW size \in Sizes, Cut(size) PROVE IInv'
  <2>1. /\ stage = "made"
        /\ packet' = [packet EXCEPT !.size = size]
        /\ faults' = {"cut"}
        /\ UNCHANGED <<packet_id_, payload, stage, asked>>
    BY <1>4 DEF Cut
  <2>2. packet' \in Packet
    BY <1>0, <2>1, IPAssumption DEF Packet
  <2>3. TypeOK'
    BY <2>1, <2>2 DEF IInv, TypeOK
  <2> QED BY <2>1, <2>3 DEF IInv, MadeIsKnown, KernelIsKnown, DamageIsKnown, VerdictIsKnown
<1>5. ASSUME parse_packet PROVE IInv'
  <2>1. /\ stage = "made"
        /\ UNCHANGED <<packet_id_, packet, asked, faults>>
        /\ \/ Accepts(packet) /\ stage' = "accepted" /\ payload' = PayloadOf(packet)
           \/ ~Accepts(packet) /\ stage' = "refused" /\ UNCHANGED payload
    BY <1>5 DEF parse_packet
  <2>2. PayloadOf(packet) \in [from : Nat, to : Nat]
    <3>1. get_header_length(packet.header) \in Nat /\ total_length(packet.header) \in Nat
      BY SMT, <1>0, LengthsOfHeader DEF Word
    <3> QED BY <3>1 DEF PayloadOf
  <2>3. TypeOK'
    BY <2>1, <2>2 DEF IInv, TypeOK
  <2>4. MadeIsKnown' /\ KernelIsKnown' /\ DamageIsKnown'
    BY <2>1 DEF IInv, MadeIsKnown, KernelIsKnown, DamageIsKnown, MadeFor, validate_checksum
  <2>5. VerdictIsKnown'
    BY <2>1 DEF VerdictIsKnown
  <2> QED BY <2>3, <2>4, <2>5 DEF IInv
<1>6. ASSUME send_packet_fails PROVE IInv'
  <2>1. /\ packet_id_' = (packet_id_ + 1) % Word
        /\ UNCHANGED <<packet, payload, stage, asked, faults>>
    BY <1>6 DEF send_packet_fails
  <2>2. packet_id_' \in 0 .. Word - 1
    BY SMT, <1>0, <2>1 DEF Word
  <2>3. TypeOK'
    BY <2>1, <2>2 DEF IInv, TypeOK
  <2> QED
    BY <2>1, <2>3 DEF IInv, MadeIsKnown, KernelIsKnown, DamageIsKnown, VerdictIsKnown, MadeFor,
                      validate_checksum, Accepts, PayloadOf
<1>7. CASE UNCHANGED vars
  BY <1>7 DEF vars, IInv, TypeOK, MadeIsKnown, KernelIsKnown, DamageIsKnown, VerdictIsKnown
<1> QED BY <1>1, <1>2, <1>3, <1>4, <1>5, <1>6, <1>7 DEF Next

LEMMA Invariance == Spec => []IInv
  BY InitIInv, NextIInv, PTL DEF Spec
-----------------------------------------------------------------------------
(* Theorems *)

\* A packet as long as the length in its header says passes every test but the checksum's.
LEMMA OnlyTheChecksum ==
  ASSUME NEW h, NEW r \in Requests, MadeFor(h, r), HeaderSize + r.length < Word,
         packet.header = h, packet.size = HeaderSize + r.length
  PROVE  /\ Accepts(packet) <=> validate_checksum(h)
         /\ PayloadOf(packet) = [from |-> HeaderSize, to |-> HeaderSize + r.length]
<1>1. r.length \in Nat
  BY IPAssumption DEF Requests
<1>2. get_version(h) = 4 /\ get_header_length(h) = HeaderSize
  <2>1. h[1] = 69
    BY DEF MadeFor
  <2> QED BY SMT, <2>1 DEF get_version, get_header_length, HeaderSize
<1>3. total_length(h) = HeaderSize + r.length
  <2>1. total_length(h) = (HeaderSize + (r.length % Word)) % Word
    BY DEF MadeFor
  <2>2. r.length % Word = r.length
    BY SMT, <1>1 DEF HeaderSize, Word
  <2>3. (HeaderSize + r.length) % Word = HeaderSize + r.length
    BY SMT, <1>1 DEF HeaderSize, Word
  <2> QED BY <2>1, <2>2, <2>3
<1>4. /\ HeaderSize + r.length >= HeaderSize
      /\ HeaderSize \in HeaderSize .. HeaderSize + r.length
      /\ HeaderSize + r.length \in HeaderSize .. HeaderSize + r.length
  BY SMT, <1>1 DEF HeaderSize
<1> QED BY <1>2, <1>3, <1>4 DEF Accepts, PayloadOf

\* Every variable keeps its type: in particular no checksum is wider than its field.
THEOREM TypeCorrect == Spec => []TypeOK
<1>1. IInv => TypeOK
  BY DEF IInv
<1> QED BY Invariance, <1>1, PTL

\* What create_packet makes and nothing happens to, parse_packet accepts and gives
\* back whole, on hosts of either byte order.
THEOREM PacketsComeBack == Spec => []RoundTrip
<1>1. IInv => RoundTrip
  <2> SUFFICES ASSUME IInv, Parsed, faults = {}, HeaderSize + asked.length < Word
               PROVE  /\ stage = "accepted"
                      /\ payload = [from |-> HeaderSize, to |-> HeaderSize + asked.length]
                      /\ \A i \in 1 .. 4 : /\ packet.header[12 + i] = asked.src_ip[i]
                                           /\ packet.header[16 + i] = asked.dst_ip[i]
                      /\ packet.header[10] = asked.protocol
    BY DEF RoundTrip
  <2> DEFINE h == packet.header
  <2>1. /\ asked \in Requests /\ MadeFor(h, asked) /\ validate_checksum(h)
        /\ packet.size = HeaderSize + asked.length
    BY DEF IInv, MadeIsKnown, Parsed
  <2>2. /\ Accepts(packet)
        /\ PayloadOf(packet) = [from |-> HeaderSize, to |-> HeaderSize + asked.length]
    BY <2>1, OnlyTheChecksum
  <2>3. stage = "accepted" /\ payload = PayloadOf(packet)
    BY <2>2 DEF IInv, VerdictIsKnown, Parsed
  <2> QED BY <2>1, <2>2, <2>3 DEF MadeFor
<1> QED BY Invariance, <1>1, PTL

\* Whichever byte of a header is changed, and to what, the packet is refused.
THEOREM DamageIsNoticed == Spec => []DamagedIsRefused
<1>1. IInv => DamagedIsRefused
  BY DEF IInv, DamageIsKnown, VerdictIsKnown, DamagedIsRefused, Parsed, Accepts
<1> QED BY Invariance, <1>1, PTL

\* What the kernel sent passes on a big-endian host, and on a little-endian one
\* exactly if the bytes of its checksum are the same.
THEOREM KernelPackets == Spec => []KernelPacketsByByteOrder
<1>1. IInv => KernelPacketsByByteOrder
  <2> SUFFICES ASSUME IInv, Parsed, faults = {"kernel"}
               PROVE  stage = "accepted"
                        <=> ~LittleEndian \/ packet.header[11] = packet.header[12]
    BY DEF KernelPacketsByByteOrder
  <2>1. /\ asked \in Requests /\ MadeFor(packet.header, asked)
        /\ packet.size = HeaderSize + asked.length /\ HeaderSize + asked.length < Word
        /\ validate_checksum(packet.header)
             <=> ~LittleEndian \/ packet.header[11] = packet.header[12]
    BY DEF IInv, KernelIsKnown, Parsed
  <2>2. Accepts(packet) <=> validate_checksum(packet.header)
    BY <2>1, OnlyTheChecksum
  <2>3. stage = "accepted" <=> Accepts(packet)
    BY DEF IInv, VerdictIsKnown, Parsed
  <2> QED BY <2>1, <2>2, <2>3
<1> QED BY Invariance, <1>1, PTL

\* What the documentation says is so on a big-endian host.
THEOREM SentIsAcceptedBigEndian ==
  ASSUME ~LittleEndian
  PROVE  Spec => []SentIsAccepted
<1>1. KernelPacketsByByteOrder => SentIsAccepted
  BY DEF KernelPacketsByByteOrder, SentIsAccepted
<1> QED BY KernelPackets, <1>1, PTL

\* parse_packet copies nothing from beyond the packet.
THEOREM CopiesFromThePacket == Spec => []PayloadIsInside
<1>1. IInv => PayloadIsInside
  <2> SUFFICES ASSUME IInv, stage = "accepted"
               PROVE  /\ HeaderSize <= payload.from /\ payload.from <= payload.to
                      /\ payload.to <= packet.size
    BY DEF PayloadIsInside
  <2> DEFINE a == get_header_length(packet.header)
             b == total_length(packet.header)
  <2>1. a \in HeaderSize .. packet.size /\ b \in a .. packet.size
    BY DEF IInv, VerdictIsKnown, Accepts
  <2>2. payload.from = a /\ payload.to = b
    BY DEF IInv, VerdictIsKnown, PayloadOf
  <2> HIDE DEF a, b
  <2>3. packet.size \in Int
    BY SMT DEF IInv, TypeOK, Packet
  <2> QED BY SMT, <2>1, <2>2, <2>3 DEF HeaderSize
<1> QED BY Invariance, <1>1, PTL

\* The header's length is that of the packet modulo 2^16.
LEMMA LengthModulo ==
  ASSUME NEW h, NEW r \in Requests, MadeFor(h, r)
  PROVE  total_length(h) = (HeaderSize + r.length) % Word
<1>1. total_length(h) = (HeaderSize + (r.length % Word)) % Word
  BY DEF MadeFor
<1>2. r.length \in Nat
  BY IPAssumption DEF Requests
<1>3. PICK k \in Int : r.length % Word = r.length - k * Word
  <2>1. r.length % Word = r.length - (r.length \div Word) * Word /\ r.length \div Word \in Int
    BY SMT, <1>2 DEF Word
  <2> QED BY <2>1
<1>4. HeaderSize + (r.length % Word) = HeaderSize + r.length - k * Word
  BY SMT, <1>2, <1>3 DEF Word, HeaderSize
<1>5. (HeaderSize + r.length - k * Word) % Word = (HeaderSize + r.length) % Word
  BY SMT, <1>2 DEF Word, HeaderSize
<1> QED BY SMT, <1>1, <1>4, <1>5

\* A payload of any length: parse_packet refuses it, if its length modulo 2^16 is
\* less than a header's, or returns all of it but a multiple of 2^16 bytes at its end.
THEOREM WhatIsMissing == Spec => []MissingInWholeWords
<1>1. IInv => MissingInWholeWords
  <2> SUFFICES ASSUME IInv, Parsed, faults = {}
               PROVE  /\ stage = "refused" <=> (HeaderSize + asked.length) % Word < HeaderSize
                      /\ stage = "accepted"
                           => /\ payload.from = HeaderSize
                              /\ ((HeaderSize + asked.length) - payload.to) % Word = 0
    BY DEF MissingInWholeWords
  <2> DEFINE h == packet.header
             size == HeaderSize + asked.length
             total == size % Word
  <2>1. /\ asked \in Requests /\ MadeFor(h, asked) /\ validate_checksum(h)
        /\ packet.size = size
    BY DEF IInv, MadeIsKnown, Parsed
  <2>2. asked.length \in Nat
    BY <2>1, IPAssumption DEF Requests
  <2>3. total_length(h) = total
    BY <2>1, LengthModulo
  <2>4. get_version(h) = 4 /\ get_header_length(h) = HeaderSize
    <3>1. h[1] = 69
      BY <2>1 DEF MadeFor
    <3> QED BY SMT, <3>1 DEF get_version, get_header_length, HeaderSize
  <2>5. /\ size \in Nat /\ total \in Nat /\ total <= size
        /\ HeaderSize \in HeaderSize .. size
        /\ (size - total) % Word = 0
    BY SMT, <2>2 DEF HeaderSize, Word
  <2>6. total \in HeaderSize .. size <=> ~(total < HeaderSize)
    BY SMT, <2>5 DEF HeaderSize
  <2>7. Accepts(packet) <=> ~(total < HeaderSize)
    BY <2>1, <2>3, <2>4, <2>5, <2>6 DEF Accepts
  <2>8. stage = "refused" <=> total < HeaderSize
    BY <2>7 DEF IInv, VerdictIsKnown, Parsed
  <2>9. stage = "accepted" => payload.from = HeaderSize /\ payload.to = total
    BY <2>3, <2>4 DEF IInv, VerdictIsKnown, PayloadOf
  <2>10. stage = "accepted" => (size - payload.to) % Word = 0
    <3> HIDE DEF size, total
    <3> QED BY <2>5, <2>9
  <2> QED BY <2>8, <2>9, <2>10
<1> QED BY Invariance, <1>1, PTL
=============================================================================
