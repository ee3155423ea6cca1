--------------------------- MODULE OrderUidsProofs ---------------------------
(***************************************************************************)
(* Proofs about OrderUids, for any lengths, any base of a byte, and any    *)
(* orders, owners and chains.                                              *)
(***************************************************************************)
EXTENDS OrderUids, SequenceTheorems, TLAPS

-----------------------------------------------------------------------------
(* Numbers as bytes *)

\* Division with remainder.
LEMMA Division ==
  ASSUME NEW n \in Nat, NEW b \in Nat \ {0, 1}
  PROVE  /\ n \div b \in Nat /\ n % b \in Nat
         /\ n = (n \div b) * b + (n % b)
BY SMT

\* Four bytes hold each number below Base ^ 4.
LEMMA NumberRoundTrip ==
  ASSUME NEW n \in ValidTos
  PROVE  FromBytes(NumberBytes(n)) = n
<1> DEFINE q1 == n \div Base
           q2 == q1 \div Base
           q3 == q2 \div Base
<1>1. n \in Nat /\ Base \in Nat \ {0, 1} /\ n < Base * Base * Base * Base
  BY UidAssumption DEF ValidTos
<1>2. q1 \in Nat /\ n % Base \in Nat /\ n = q1 * Base + (n % Base)
  BY <1>1, Division, Zenon
<1>3. q2 \in Nat /\ q1 % Base \in Nat /\ q1 = q2 * Base + (q1 % Base)
  BY <1>1, <1>2, Division, Zenon
<1>4. q3 \in Nat /\ q2 % Base \in Nat /\ q2 = q3 * Base + (q2 % Base)
  BY <1>1, <1>3, Division, Zenon
<1>5. q3 \div Base \in Nat /\ q3 % Base \in Nat /\ q3 = (q3 \div Base) * Base + (q3 % Base)
  BY <1>1, <1>4, Division, Zenon
<1>6. NumberBytes(n) = <<q3 % Base, q2 % Base, q1 % Base, n % Base>>
  BY DEF NumberBytes
<1> HIDE DEF q1, q2, q3
<1>7. q3 < Base
  <2> SUFFICES ASSUME q3 >= Base
               PROVE  FALSE
    BY <1>1, <1>4
  <2>1. q2 >= Base * Base
    BY <1>1, <1>4
  <2>2. q1 >= Base * Base * Base
    BY <1>1, <1>3, <2>1
  <2>3. n >= Base * Base * Base * Base
    BY <1>1, <1>2, <2>2
  <2> QED
    BY <1>1, <2>3
<1>8. q3 % Base = q3
  BY <1>1, <1>4, <1>7
<1> QED
  BY <1>2, <1>3, <1>4, <1>6, <1>8 DEF FromBytes

\* A number of four bytes is a string of four numbers.
LEMMA NumberBytesLength ==
  ASSUME NEW n \in ValidTos
  PROVE  NumberBytes(n) \in Seq(Int) /\ Len(NumberBytes(n)) = 4
<1> DEFINE High(k) == k \div Base
<1>1. \A k \in Nat : High(k) \in Nat /\ k % Base \in Nat
  BY Division, UidAssumption, Zenon
<1>2. n \in Nat
  BY DEF ValidTos
<1> HIDE DEF High
<1>3. /\ High(High(High(n))) % Base \in Int /\ High(High(n)) % Base \in Int
      /\ High(n) % Base \in Int /\ n % Base \in Int
  BY <1>1, <1>2
<1>4. NumberBytes(n)
        = <<High(High(High(n))) % Base, High(High(n)) % Base, High(n) % Base, n % Base>>
  BY DEF NumberBytes, High
<1> QED
  BY <1>3, <1>4

-----------------------------------------------------------------------------
(* Uids *)

\* A digest and an address have as many bytes as they should have.
LEMMA BytesOfLength ==
  ASSUME NEW content, NEW len \in Nat, NEW S,
         \A i \in 1..len : [byte |-> i, of |-> content] \in S
  PROVE  BytesOf(content, len) \in Seq(S) /\ Len(BytesOf(content, len)) = len
<1>1. BytesOf(content, len) \in Seq(S)
  BY IsASeq DEF BytesOf
<1>2. DOMAIN BytesOf(content, len) = 1..len
  BY DEF BytesOf
<1> QED
  BY <1>1, <1>2, LenProperties

\* bytes.fromhex undoes bytes.hex, and the string has two digits for each byte.
LEMMA HexRoundTrip ==
  ASSUME NEW S, NEW bytes \in Seq(S)
  PROVE  /\ FromHex(HexString(bytes)) = bytes
         /\ Len(HexString(bytes)) = 2 * Len(bytes) + 2
<1> DEFINE n == Len(bytes)
           digits == HexDigits(bytes)
           D == {[digit |-> d, of |-> b] : d \in {0, 1}, b \in S} \cup {"0", "x"}
<1>1. n \in Nat /\ \A i \in 1..n : bytes[i] \in S
  BY LenProperties, ElementOfSeq
<1>2. digits \in Seq(D) /\ Len(digits) = 2 * n
  <2>1. \A i \in 1..(2 * n) : (i + 1) \div 2 \in 1..n /\ i % 2 \in {0, 1}
    BY <1>1
  <2>2. \A i \in 1..(2 * n) : [digit |-> i % 2, of |-> bytes[(i + 1) \div 2]] \in D
    BY <1>1, <2>1
  <2>3. digits \in Seq(D)
    <3> HIDE DEF D
    <3> QED
      BY <1>1, <2>2, IsASeq DEF HexDigits
  <2>4. DOMAIN digits = 1..(2 * n)
    BY DEF HexDigits
  <2> QED
    BY <1>1, <2>3, <2>4, LenProperties
<1>3. <<"0", "x">> \in Seq(D) /\ Len(<<"0", "x">>) = 2
  OBVIOUS
<1> DEFINE text == <<"0", "x">> \o digits
<1> HIDE DEF D, digits
<1>4. /\ Len(text) = 2 * n + 2
      /\ \A i \in 1..(2 * n) : text[i + 2] = digits[i]
  <2> DEFINE prefix == <<"0", "x">>
  <2>1. prefix \in Seq(D) /\ Len(prefix) = 2
    BY <1>3
  <2> HIDE DEF prefix
  <2>2. /\ Len(prefix \o digits) = 2 + 2 * n
        /\ \A i \in 1..(2 + 2 * n) : (prefix \o digits)[i] =
             IF i =< 2 THEN prefix[i] ELSE digits[i - 2]
    <3> HIDE DEF n, D
    <3>1. /\ Len(prefix \o digits) = Len(prefix) + Len(digits)
          /\ \A i \in 1..(Len(prefix) + Len(digits)) : (prefix \o digits)[i] =
               IF i =< Len(prefix) THEN prefix[i] ELSE digits[i - Len(prefix)]
      BY <1>2, <2>1, ConcatProperties
    <3> QED
      BY <1>2, <2>1, <3>1
  <2>3. \A i \in 1..(2 * n) : /\ i + 2 \in 1..(2 + 2 * n) /\ ~(i + 2 =< 2)
                              /\ (i + 2) - 2 = i
    BY <1>1
  <2>4. text = prefix \o digits
    BY DEF prefix
  <2> HIDE DEF text
  <2> QED
    BY <1>1, <2>2, <2>3, <2>4
<1>5. \A i \in 1..n : text[2 * i + 1].of = bytes[i]
  <2> SUFFICES ASSUME NEW i \in 1..n
               PROVE  text[2 * i + 1].of = bytes[i]
    OBVIOUS
  <2>1. /\ 2 * i - 1 \in 1..(2 * n) /\ (2 * i - 1) + 2 = 2 * i + 1
        /\ ((2 * i - 1) + 1) \div 2 = i
    BY <1>1
  <2>2. text[2 * i + 1] = digits[2 * i - 1]
    BY <1>4, <2>1
  <2>3. digits[2 * i - 1].of = bytes[i]
    BY <2>1 DEF digits, HexDigits
  <2> QED
    BY <2>2, <2>3
<1>6. (Len(text) - 2) \div 2 = n
  BY <1>1, <1>4
<1>7. FromHex(text) = [i \in 1..n |-> bytes[i]]
  <2> HIDE DEF text
  <2> QED
    BY <1>5, <1>6 DEF FromHex
<1>8. bytes = [i \in 1..n |-> bytes[i]]
  BY LenProperties
<1> QED
  BY <1>4, <1>7, <1>8 DEF HexString, text, digits

\* extract_order_uid_params undoes the packing of any digest and any owner, with each
\* validTo of four bytes.
LEMMA PackRoundTrip ==
  ASSUME NEW digest, NEW owner, NEW validTo \in ValidTos
  PROVE  /\ ExtractOrderUidParams(Pack(digest, owner, validTo))
              = [digest |-> BytesOf(digest, DigestLen),
                 owner |-> BytesOf(owner, OwnerLen),
                 validTo |-> validTo]
         /\ \E S : Pack(digest, owner, validTo) \in Seq(S)
         /\ Len(Pack(digest, owner, validTo)) = OrderUidLength
<1> DEFINE d == BytesOf(digest, DigestLen)
           o == BytesOf(owner, OwnerLen)
           v == NumberBytes(validTo)
           S == {[byte |-> i, of |-> content] : i \in Nat, content \in {digest, owner}}
                  \cup Int
<1>1. d \in Seq(S) /\ Len(d) = DigestLen
  <2>1. \A i \in 1..DigestLen : [byte |-> i, of |-> digest] \in S
    OBVIOUS
  <2> HIDE DEF S
  <2> QED
    BY <2>1, BytesOfLength, UidAssumption
<1>2. o \in Seq(S) /\ Len(o) = OwnerLen
  <2>1. \A i \in 1..OwnerLen : [byte |-> i, of |-> owner] \in S
    OBVIOUS
  <2> HIDE DEF S
  <2> QED
    BY <2>1, BytesOfLength, UidAssumption
<1>3. v \in Seq(S) /\ Len(v) = 4
  BY NumberBytesLength DEF S
<1> HIDE DEF d, o, v, S
<1> DEFINE do == d \o o
<1>4. /\ Len(d) \in Nat \ {0} /\ Len(o) \in Nat \ {0} /\ Len(v) \in Nat \ {0}
      /\ do \in Seq(S) /\ Len(do) = Len(d) + Len(o)
  <2>1. do \in Seq(S) /\ Len(do) = Len(d) + Len(o)
    BY <1>1, <1>2, ConcatProperties
  <2> QED
    BY <1>1, <1>2, <1>3, <2>1, UidAssumption
<1>5. /\ SubSeq(do, 1, Len(d)) = d
      /\ SubSeq(do, Len(d) + 1, Len(d) + Len(o)) = o
  BY <1>1, <1>2, <1>4, SubSeqOfConcat1, SubSeqOfConcat2, SubSeqFull
<1> HIDE DEF do
<1>6. Len(do \o v) = OrderUidLength /\ do \o v \in Seq(S)
  <2>1. Len(do \o v) = Len(do) + Len(v) /\ do \o v \in Seq(S)
    BY <1>3, <1>4, ConcatProperties
  <2> QED
    BY <1>1, <1>2, <1>3, <1>4, <2>1 DEF OrderUidLength
<1>7. SubSeq(do \o v, 1, Len(d)) = d
  BY <1>1, <1>3, <1>4, <1>5, SubSeqOfConcat1
<1>8. SubSeq(do \o v, Len(d) + 1, Len(d) + Len(o)) = o
  BY <1>2, <1>3, <1>4, <1>5, SubSeqOfConcat1
<1>9. SubSeq(do \o v, Len(d) + Len(o) + 1, Len(d) + Len(o) + Len(v)) = v
  <2>1. do \in Seq(S) /\ v \in Seq(S) /\ Len(do) \in Nat /\ Len(v) \in Nat \ {0}
    BY <1>3, <1>4
  <2>2. SubSeq(do \o v, Len(do) + 1, Len(do) + Len(v)) = SubSeq(v, 1, Len(v))
    BY <2>1, SubSeqOfConcat2
  <2> QED
    BY <1>3, <1>4, <2>2, SubSeqFull
<1>10. FromBytes(v) = validTo
  BY NumberRoundTrip DEF v
<1>11. Pack(digest, owner, validTo) = do \o v
  BY DEF Pack, do, d, o, v
<1>12. ExtractOrderUidParams(do \o v)
         = [digest |-> SubSeq(do \o v, 1, Len(d)),
            owner |-> SubSeq(do \o v, Len(d) + 1, Len(d) + Len(o)),
            validTo |-> FromBytes(SubSeq(do \o v, Len(d) + Len(o) + 1,
                                                  Len(d) + Len(o) + Len(v)))]
  BY <1>1, <1>2, <1>3, <1>6 DEF ExtractOrderUidParams, OrderUidLength
<1> QED
  BY <1>6, <1>7, <1>8, <1>9, <1>10, <1>11, <1>12 DEF d, o

\* The string of a uid is not one of bytes with the length of a uid; its bytes are.
LEMMA UidRoundTrips ==
  ASSUME NEW digest, NEW owner, NEW validTo \in ValidTos
  PROVE  /\ FromHex(HexString(Pack(digest, owner, validTo))) = Pack(digest, owner, validTo)
         /\ ExtractOrderUidParams(HexString(Pack(digest, owner, validTo))) = None
<1> DEFINE uid == Pack(digest, owner, validTo)
<1>1. PICK S : uid \in Seq(S)
  BY PackRoundTrip
<1>2. Len(uid) = OrderUidLength
  BY PackRoundTrip
<1> HIDE DEF uid
<1>3. FromHex(HexString(uid)) = uid /\ Len(HexString(uid)) = 2 * Len(uid) + 2
  BY <1>1, HexRoundTrip
<1>4. OrderUidLength \in Nat
  BY UidAssumption DEF OrderUidLength
<1>5. ExtractOrderUidParams(HexString(uid)) = None
  BY <1>2, <1>3, <1>4 DEF ExtractOrderUidParams
<1> QED
  BY <1>3, <1>5 DEF uid

\* The message of an order that the conversions accept.
LEMMA MessageOf ==
  ASSUME NEW o \in ChainOrder, Convertible(o)
  PROVE  Message(NormalizeOrder(o)) \in OrderMessages
<1>1. o.receiver \in Receivers \cup {None} /\ o.validTo \in ValidTos
  BY DEF ChainOrder
<1>2. ToWord(o.kind) \in Kinds /\ ToWord(o.sellTokenBalance) \in Balances
  BY DEF Convertible, Known, ToWord
<1>3. NormalizeOrder(o) \in [receiver : Receivers, validTo : ValidTos, kind : Kinds,
                              sellTokenBalance : Balances, buyTokenBalance : Balances]
  BY <1>1, <1>2, UidAssumption DEF NormalizeOrder
<1> QED
  BY <1>3 DEF OrderMessages

\* The standard gives the posted entry the uid that the agents have computed from the
\* order of the chain: the message is the same, although the strings of the one stand
\* for the hashes of the other.
LEMMA SameUid ==
  ASSUME NEW id \in ChainIds, NEW o \in ChainOrder, Convertible(o)
  PROVE  ApiUid(id, ReadyOrder(id, o)) = ComputeOrderUid(id, o)
<1> DEFINE posted == ReadyOrder(id, o)
           message == Message(NormalizeOrder(o))
<1>1. /\ posted.owner = o.owner /\ posted.receiver = o.receiver
      /\ posted.validTo = o.validTo /\ posted.kind = ToWord(o.kind)
      /\ posted.sellTokenBalance = ToWord(o.sellTokenBalance)
      /\ posted.buyTokenBalance = ToWord(o.sellTokenBalance)
  BY DEF ReadyOrder
<1>2. message \in OrderMessages
  BY MessageOf
<1> HIDE DEF posted
<1>3. ApiMessage(posted) = message
  BY <1>1 DEF ApiMessage, NormalizeOrder
<1> HIDE DEF message
<1>4. ApiStructHash("Order", message, ApiTypes) = HashOrder(o)
  BY <1>2, HashAssumption DEF HashOrder, OrderHashes, message
<1>5. ApiStructHash("EIP712Domain", GetDomain(id), ApiTypes)
        = HashDomain(GetDomain(id), DomainNames)
  BY HashAssumption DEF DomainHashes
<1> QED
  BY <1>1, <1>3, <1>4, <1>5 DEF ApiUid, ComputeOrderUid, OrderDigest, posted

\* A digest of hashes determines both.
LEMMA DigestIdentifies ==
  ASSUME NEW a, NEW b, NEW c, NEW d,
         a # Raised, b # Raised, c # Raised, d # Raised, Digest(a, b) = Digest(c, d)
  PROVE  a = c /\ b = d
<1>1. [prefix |-> "1901"] # Raised
  <2>1. DOMAIN [prefix |-> "1901"] = {"prefix"} /\ DOMAIN Raised = {"raised"}
    BY DEF Raised
  <2> QED
    BY <2>1
<1>2. ASSUME NEW x, NEW y, x # Raised, y # Raised
      PROVE  Digest(x, y) = [sha3 |-> <<[prefix |-> "1901"], x, y>>]
  BY <1>1, <1>2 DEF Digest, Sha3, Raises
<1>3. [sha3 |-> <<[prefix |-> "1901"], a, b>>] = [sha3 |-> <<[prefix |-> "1901"], c, d>>]
  BY <1>2, Zenon
<1>4. <<[prefix |-> "1901"], a, b>> = <<[prefix |-> "1901"], c, d>>
  BY <1>3
<1> QED
  BY <1>4

LEMMA BytesIdentify ==
  ASSUME NEW len \in Nat \ {0}, NEW x, NEW y, BytesOf(x, len) = BytesOf(y, len)
  PROVE  x = y
<1>1. /\ BytesOf(x, len)[1] = [byte |-> 1, of |-> x]
      /\ BytesOf(y, len)[1] = [byte |-> 1, of |-> y]
  BY DEF BytesOf
<1> QED
  BY <1>1

\* What is passed on as it is hides nothing of an order.
LEMMA MessageIdentifies ==
  ASSUME NEW o, NEW p, Message(NormalizeOrder(o)) = Message(NormalizeOrder(p))
  PROVE  NormalizeOrder(o) = NormalizeOrder(p)
<1> DEFINE fields == {"receiver", "validTo", "kind", "sellTokenBalance", "buyTokenBalance"}
<1>1. ASSUME NEW r
      PROVE  DOMAIN NormalizeOrder(r) = fields
  BY DEF NormalizeOrder
<1>2. fields \subseteq {OrderTypeFields[k].name : k \in DOMAIN OrderTypeFields}
  <2>1. /\ {3, 6, 9, 11, 12} \subseteq DOMAIN OrderTypeFields
        /\ OrderTypeFields[3].name = "receiver" /\ OrderTypeFields[6].name = "validTo"
        /\ OrderTypeFields[9].name = "kind"
        /\ OrderTypeFields[11].name = "sellTokenBalance"
        /\ OrderTypeFields[12].name = "buyTokenBalance"
    BY DEF OrderTypeFields, Field
  <2> QED
    BY <2>1
<1>3. ASSUME NEW r, NEW f \in fields
      PROVE  Message(NormalizeOrder(r))[f] = NormalizeOrder(r)[f]
  BY <1>1, <1>2, <1>3 DEF Message
<1>4. \A f \in fields : NormalizeOrder(o)[f] = NormalizeOrder(p)[f]
  BY <1>3
<1>5. ASSUME NEW r
      PROVE  NormalizeOrder(r) = [f \in fields |-> NormalizeOrder(r)[f]]
  BY DEF NormalizeOrder
<1> QED
  BY <1>4, <1>5

-----------------------------------------------------------------------------
(* The invariant *)

\* The entry of ready_orders and the uid of the API are those of the order that the chain
\* has returned.
UidInv ==
  /\ chainId \in ChainIds /\ order \in ChainOrder
  /\ state \in {"returned", "ready", "posted", "raised"}
  /\ state \in {"ready", "posted"} =>
       /\ Convertible(order)
       /\ ready = ReadyOrder(chainId, order)
  /\ state = "posted" => accepted = ApiUid(chainId, ready)

LEMMA InitUidInv == Init => UidInv
BY DEF Init, UidInv

LEMMA StepUidInv == UidInv /\ [Next]_vars => UidInv'
<1> SUFFICES ASSUME UidInv, [Next]_vars
             PROVE  UidInv'
  OBVIOUS
<1>1. CASE HandleTradeableOrder
  BY <1>1 DEF HandleTradeableOrder, UidInv
<1>2. CASE HandlerRaises
  BY <1>2 DEF HandlerRaises, UidInv
<1>3. CASE Post
  BY <1>3 DEF Post, UidInv
<1>4. CASE UNCHANGED vars
  BY <1>4 DEF vars, UidInv
<1> QED
  BY <1>1, <1>2, <1>3, <1>4 DEF Next

LEMMA AlwaysUidInv == Spec => []UidInv
BY InitUidInv, StepUidInv, PTL DEF Spec

-----------------------------------------------------------------------------
(* Theorems *)

\* For every length, base, chain, owner and order: the uid that the agents expect
\* (_handle_get_tradeable_order, compute_order_uid) is the one that the API gives to
\* what the keeper posts.
THEOREM ExpectedUidsAccepted == Spec => []ExpectedUidAccepted
<1>1. UidInv => ExpectedUidAccepted
  <2> SUFFICES ASSUME UidInv, state = "posted"
               PROVE  accepted = ready.order_uid
    BY DEF ExpectedUidAccepted
  <2>1. accepted = ApiUid(chainId, ReadyOrder(chainId, order))
    BY DEF UidInv
  <2>2. ApiUid(chainId, ReadyOrder(chainId, order)) = ComputeOrderUid(chainId, order)
    BY SameUid DEF UidInv
  <2>3. ready.order_uid = ComputeOrderUid(chainId, order)
    BY DEF UidInv, ReadyOrder
  <2> QED
    BY <2>1, <2>2, <2>3
<1> QED
  BY <1>1, AlwaysUidInv, PTL

\* For every length and base: the string of compute_order_uid, turned into bytes, gives
\* extract_order_uid_params what it was made of, up to the largest validTo of four bytes;
\* the string itself is rejected.
THEOREM UidsRoundTrip == Spec => []UidRoundTrip
<1>1. UidInv => UidRoundTrip
  <2> SUFFICES ASSUME UidInv, state \in {"ready", "posted"}
               PROVE  UidRoundTrip
    BY DEF UidRoundTrip
  <2> DEFINE uid == Pack(OrderDigest(chainId, order), order.owner, order.validTo)
  <2>1. ready.order_uid = HexString(uid)
    BY DEF UidInv, ReadyOrder, ComputeOrderUid
  <2>2. order.validTo \in ValidTos
    BY DEF UidInv, ChainOrder
  <2>3. FromHex(HexString(uid)) = uid /\ ExtractOrderUidParams(HexString(uid)) = None
    BY <2>2, UidRoundTrips
  <2> QED
    BY <2>1, <2>2, <2>3, PackRoundTrip DEF UidRoundTrip
<1> QED
  BY <1>1, AlwaysUidInv, PTL

\* The other modules take the uid of an order for the order itself, and they may: orders
\* with the same uid (compute_order_uid) are of one chain and one owner, and differ in
\* nothing that normalize_order keeps.  The balance of the buy side is not kept.
THEOREM UidsIdentifyOrders ==
  ASSUME NEW i \in ChainIds, NEW j \in ChainIds,
         NEW o \in ChainOrder, NEW p \in ChainOrder, Convertible(o), Convertible(p),
         ComputeOrderUid(i, o) = ComputeOrderUid(j, p)
  PROVE  i = j /\ o.owner = p.owner /\ NormalizeOrder(o) = NormalizeOrder(p)
<1> DEFINE message(r) == Message(NormalizeOrder(r))
<1>1. o.validTo \in ValidTos /\ p.validTo \in ValidTos
  BY DEF ChainOrder
<1>2. /\ BytesOf(OrderDigest(i, o), DigestLen) = BytesOf(OrderDigest(j, p), DigestLen)
      /\ BytesOf(o.owner, OwnerLen) = BytesOf(p.owner, OwnerLen)
  <2> DEFINE first == Pack(OrderDigest(i, o), o.owner, o.validTo)
             second == Pack(OrderDigest(j, p), p.owner, p.validTo)
  <2>1. /\ ExtractOrderUidParams(first)
             = [digest |-> BytesOf(OrderDigest(i, o), DigestLen),
                owner |-> BytesOf(o.owner, OwnerLen), validTo |-> o.validTo]
        /\ FromHex(HexString(first)) = first
    BY <1>1, PackRoundTrip, UidRoundTrips
  <2>2. /\ ExtractOrderUidParams(second)
             = [digest |-> BytesOf(OrderDigest(j, p), DigestLen),
                owner |-> BytesOf(p.owner, OwnerLen), validTo |-> p.validTo]
        /\ FromHex(HexString(second)) = second
    BY <1>1, PackRoundTrip, UidRoundTrips
  <2>3. HexString(first) = HexString(second)
    BY DEF ComputeOrderUid
  <2> HIDE DEF first, second
  <2>4. first = second
    BY <2>1, <2>2, <2>3
  <2> QED
    BY <2>1, <2>2, <2>4
<1>3. OrderDigest(i, o) = OrderDigest(j, p) /\ o.owner = p.owner
  BY <1>2, BytesIdentify, UidAssumption
<1>4. message(o) \in OrderMessages /\ message(p) \in OrderMessages
  BY MessageOf
<1>5. /\ OrderDigest(i, o) = Digest(DomainHashes[i], OrderHashes[message(o)])
      /\ OrderDigest(j, p) = Digest(DomainHashes[j], OrderHashes[message(p)])
  BY <1>4 DEF OrderDigest, DomainHashes, OrderHashes, HashOrder
<1> HIDE DEF message
<1>6. /\ DomainHashes[i] # Raised /\ DomainHashes[j] # Raised
      /\ OrderHashes[message(o)] # Raised /\ OrderHashes[message(p)] # Raised
  <2>1. /\ i \in DOMAIN DomainHashes /\ j \in DOMAIN DomainHashes
        /\ message(o) \in DOMAIN OrderHashes /\ message(p) \in DOMAIN OrderHashes
    BY <1>4 DEF DomainHashes, OrderHashes
  <2> QED
    BY <2>1, HashAssumption DEF Range
<1>7. /\ DomainHashes[i] = DomainHashes[j]
      /\ OrderHashes[message(o)] = OrderHashes[message(p)]
  <2> DEFINE a == DomainHashes[i]
             b == OrderHashes[message(o)]
             c == DomainHashes[j]
             d == OrderHashes[message(p)]
  <2>1. Digest(a, b) = Digest(c, d)
    BY <1>3, <1>5
  <2>2. a # Raised /\ b # Raised /\ c # Raised /\ d # Raised
    BY <1>6
  <2> HIDE DEF a, b, c, d
  <2>3. a = c /\ b = d
    BY <2>1, <2>2, DigestIdentifies
  <2> QED
    BY <2>3 DEF a, b, c, d
<1>8. i = j /\ message(o) = message(p)
  <2>1. DOMAIN DomainHashes = ChainIds /\ DOMAIN OrderHashes = OrderMessages
    BY DEF DomainHashes, OrderHashes
  <2> QED
    BY <1>4, <1>7, <2>1, HashAssumption DEF IsInjective
<1> QED
  BY <1>3, <1>8, MessageIdentifies DEF message

\* hash_domain hashes a dict in the order of DOMAIN_FIELD_NAMES: two dicts with the same
\* names have the same hash, in whatever order they were filled.
THEOREM DictOrderIrrelevant ==
  ASSUME NEW domain, NEW m, NEW n, ToSet(m) = ToSet(n)
  PROVE  HashDomain(domain, m) = HashDomain(domain, n)
<1> DEFINE Unknown(name) == \A j \in DOMAIN DomainFields : DomainFields[j].name # name
           Hash(names) ==
             StructHash("EIP712Domain", domain,
               ("EIP712Domain" :> SelectSeq(DomainFields, LAMBDA f : f.name \in names)))
<1>1. ASSUME NEW names
      PROVE  HashDomain(domain, names)
               = IF \E name \in ToSet(names) : Unknown(name)
                 THEN Raised
                 ELSE Hash(ToSet(names))
  <2>1. (\E i \in DOMAIN names : Unknown(names[i]))
          <=> \E name \in ToSet(names) : Unknown(name)
    <3> HIDE DEF Unknown
    <3> QED
      BY Zenon DEF ToSet
  <2> QED
    BY <2>1, Zenon DEF HashDomain
<1> HIDE DEF Unknown, Hash
<1> QED
  BY <1>1, Zenon

=============================================================================
