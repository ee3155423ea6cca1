------------------------------ MODULE OrderUids ------------------------------
(***************************************************************************)
(* How a discrete order that the chain returns becomes the order that the  *)
(* keeper posts, and the uid under which the agents look for it: the loop  *)
(* body of _handle_get_tradeable_order with the functions of order_utils.  *)
(*                                                                         *)
(* The uid is the hex string of these bytes: the digest of domain and      *)
(* order, the owner, and the four big-endian bytes of validTo.  The other  *)
(* lengths and the base of a byte are constants.                           *)
(***************************************************************************)
EXTENDS HashWords

CONSTANTS
  DigestLen, OwnerLen,  \* 32 and 20 bytes
  Base,                 \* 256
  Owners,
  ChainIds,
  Receivers,            \* addresses, with ZeroAddress
  ZeroAddress,
  None,
  \* The hash of a struct (its name, its fields' values, the schemas), as the agents
  \* compute it (CreateStructHash of TypedData), and as the CoW API does (the standard).
  StructHash(_, _, _), ApiStructHash(_, _, _)

Balances == {"erc20", "external", "internal"}
Kinds == {"sell", "buy"}

\* The chain returns the keccak hashes of these words, or of another one.
Marker(word) == [keccak |-> word]
Markers(words) == {Marker(w) : w \in words \cup {"unknown"}}

ValidTos == 0..(Base * Base * Base * Base - 1)

ASSUME UidAssumption ==
  /\ DigestLen \in Nat \ {0} /\ OwnerLen \in Nat \ {0}
  /\ Base \in Nat \ {0, 1}
  /\ ZeroAddress \in Receivers /\ None \notin Receivers

\* The fields of GPv2Order.Data that the conversions look at.
ChainOrder ==
  [owner : Owners, receiver : Receivers \cup {None}, validTo : ValidTos,
   kind : Markers(Kinds), sellTokenBalance : Markers(Balances),
   buyTokenBalance : Markers(Balances)]

VARIABLES
  chainId,   \* of the ledger connection
  order,     \* the order the chain has returned
  state,     \* "returned", "ready", "posted" or "raised"
  ready,     \* the entry of ready_orders, or None
  accepted   \* the uid the CoW API gives the posted order, or None

vars == <<chainId, order, state, ready, accepted>>

-----------------------------------------------------------------------------
(* order_utils *)

\* balance_to_string and kind_to_string raise for another hash.
Known(marker, words) == marker.keccak \in words

ToWord(marker) == marker.keccak

Convertible(o) ==
  /\ Known(o.sellTokenBalance, Balances)
  /\ Known(o.kind, Kinds)

\* normalize_order: an order without receiver gets the zero address.
NormalizeOrder(o) ==
  [receiver |-> IF o.receiver = None THEN ZeroAddress ELSE o.receiver,
   validTo |-> o.validTo,
   kind |-> ToWord(o.kind),
   sellTokenBalance |-> ToWord(o.sellTokenBalance),
   buyTokenBalance |-> ToWord(o.sellTokenBalance)]

\* Faulty variant of NumberBytes: the least significant byte first.
NumberBytesLittle(n) ==
  LET High(k) == k \div Base
  IN  <<n % Base, High(n) % Base, High(High(n)) % Base, High(High(High(n))) % Base>>

\* The bytes of a digest and of an address, and of a number below Base ^ 4.
BytesOf(content, len) == [i \in 1..len |-> [byte |-> i, of |-> content]]

NumberBytes(n) ==
  LET High(k) == k \div Base
  IN  <<High(High(High(n))) % Base, High(High(n)) % Base, High(n) % Base, n % Base>>

FromBytes(b) == ((b[1] * Base + b[2]) * Base + b[3]) * Base + b[4]

OrderTypeFields ==
  <<Field("sellToken", Type("address")), Field("buyToken", Type("address")),
    Field("receiver", Type("address")), Field("sellAmount", Type("uint256")),
    Field("buyAmount", Type("uint256")), Field("validTo", Type("uint32")),
    Field("appData", Type("bytes32")), Field("feeAmount", Type("uint256")),
    Field("kind", Type("string")), Field("partiallyFillable", Type("bool")),
    Field("sellTokenBalance", Type("string")), Field("buyTokenBalance", Type("string"))>>

\* A message has all the fields of the type; the others are passed on as they are.
Message(read) ==
  [f \in {OrderTypeFields[i].name : i \in DOMAIN OrderTypeFields} |->
     IF f \in DOMAIN read THEN read[f] ELSE "unread"]

DomainFields ==
  <<Field("name", Type("string")), Field("version", Type("string")),
    Field("chainId", Type("uint256")), Field("verifyingContract", Type("address")),
    Field("salt", Type("bytes32"))>>

GetDomain(id) ==
  [name |-> "Gnosis Protocol", version |-> "v2", chainId |-> id,
   verifyingContract |-> "GPv2Settlement"]

\* Faulty variant of HashDomain: the fields are taken in the order of the dict.
HashDomainUnsorted(domain, names) ==
  IF \E i \in DOMAIN names : \A j \in DOMAIN DomainFields : DomainFields[j].name # names[i]
  THEN Raised
  ELSE StructHash("EIP712Domain", domain,
         ("EIP712Domain" :>
            [i \in DOMAIN names |->
               SelectSeq(DomainFields, LAMBDA f : f.name = names[i])[1]]))

\* hash_domain of a dict with these names: the schema has its fields in the order of
\* DOMAIN_FIELD_NAMES, an unknown one raises.
HashDomain(domain, names) ==
  IF \E i \in DOMAIN names : \A j \in DOMAIN DomainFields : DomainFields[j].name # names[i]
  THEN Raised
  ELSE StructHash("EIP712Domain", domain,
         ("EIP712Domain" :>
            SelectSeq(DomainFields, LAMBDA f : f.name \in ToSet(names))))

HashOrder(o) ==
  StructHash("Order", Message(NormalizeOrder(o)), ("Order" :> OrderTypeFields))

\* The names in the order of the dict that get_domain returns.
DomainNames == <<"name", "version", "chainId", "verifyingContract">>

OrderDigest(id, o) == Digest(HashDomain(GetDomain(id), DomainNames), HashOrder(o))

\* encode_packed
Pack(digest, owner, validTo) ==
  BytesOf(digest, DigestLen) \o BytesOf(owner, OwnerLen) \o NumberBytes(validTo)

\* The two hex digits of each byte, the high one and the low one.
HexDigits(bytes) ==
  [i \in 1..(2 * Len(bytes)) |-> [digit |-> i % 2, of |-> bytes[(i + 1) \div 2]]]

HexString(bytes) == <<"0", "x">> \o HexDigits(bytes)

\* bytes.fromhex, without the prefix.
FromHex(text) == [i \in 1..((Len(text) - 2) \div 2) |-> text[2 * i + 1].of]

\* compute_order_uid returns the string, not the bytes of its annotation.
ComputeOrderUid(id, o) == HexString(Pack(OrderDigest(id, o), o.owner, o.validTo))

OrderUidLength == DigestLen + OwnerLen + 4

\* extract_order_uid_params is for the bytes.  It raises for another length, that of the
\* string among them; here it returns None.  Nothing but the tests calls it.
ExtractOrderUidParams(uid) ==
  IF Len(uid) # OrderUidLength
  THEN None
  ELSE [digest |-> SubSeq(uid, 1, DigestLen),
        owner |-> SubSeq(uid, DigestLen + 1, DigestLen + OwnerLen),
        validTo |-> FromBytes(SubSeq(uid, DigestLen + OwnerLen + 1, OrderUidLength))]

-----------------------------------------------------------------------------
(* The handler and the API *)

\* Faulty variant of ReadyOrder: the buy side's own balance, unlike the uid.
ReadyOrderOwnBalance(id, o) ==
  [owner |-> o.owner,
   receiver |-> o.receiver,
   validTo |-> o.validTo,
   kind |-> ToWord(o.kind),
   sellTokenBalance |-> ToWord(o.sellTokenBalance),
   buyTokenBalance |-> ToWord(o.buyTokenBalance),
   order_uid |-> ComputeOrderUid(id, o)]

\* The entry of ready_orders: the fields as strings, and the uid.
ReadyOrder(id, o) ==
  [owner |-> o.owner,
   receiver |-> o.receiver,
   validTo |-> o.validTo,
   kind |-> ToWord(o.kind),
   sellTokenBalance |-> ToWord(o.sellTokenBalance),
   buyTokenBalance |-> ToWord(o.sellTokenBalance),
   order_uid |-> ComputeOrderUid(id, o)]

\* The API computes the uid from the fields of the posted order, by the standard.
ApiTypes ==
  ("Order" :> OrderTypeFields) @@ ("EIP712Domain" :> SubSeq(DomainFields, 1, 4))

ApiMessage(posted) ==
  Message([receiver |-> IF posted.receiver = None THEN ZeroAddress ELSE posted.receiver,
           validTo |-> posted.validTo,
           kind |-> posted.kind,
           sellTokenBalance |-> posted.sellTokenBalance,
           buyTokenBalance |-> posted.buyTokenBalance])

ApiUid(id, posted) ==
  HexString(Pack(Digest(ApiStructHash("EIP712Domain", GetDomain(id), ApiTypes),
                        ApiStructHash("Order", ApiMessage(posted), ApiTypes)),
                 posted.owner, posted.validTo))

\* The messages of orders, and the hashes of the agents that a uid is made of.
OrderMessages ==
  {Message(m) : m \in [receiver : Receivers, validTo : ValidTos, kind : Kinds,
                         sellTokenBalance : Balances, buyTokenBalance : Balances]}

OrderHashes ==
  [m \in OrderMessages |-> StructHash("Order", m, ("Order" :> OrderTypeFields))]

DomainHashes == [id \in ChainIds |-> HashDomain(GetDomain(id), DomainNames)]

\* The hash of the agents follows the standard where the uid needs it: for the domain,
\* whose names get_domain gives in any order, and for the messages of orders, which
\* have no nested structs and no arrays.  It is taken to determine what is hashed.
ASSUME HashAssumption ==
  /\ \A id \in ChainIds :
       DomainHashes[id] = ApiStructHash("EIP712Domain", GetDomain(id), ApiTypes)
  /\ \A m \in OrderMessages : OrderHashes[m] = ApiStructHash("Order", m, ApiTypes)
  /\ IsInjective(DomainHashes) /\ IsInjective(OrderHashes)
  /\ Raised \notin Range(DomainHashes) \cup Range(OrderHashes)

Init ==
  /\ chainId \in ChainIds
  /\ order \in ChainOrder
  /\ state = "returned"
  /\ ready = None
  /\ accepted = None

\* The handler appends the order to the ready orders.
HandleTradeableOrder ==
  /\ state = "returned"
  /\ Convertible(order)
  /\ ready' = ReadyOrder(chainId, order)
  /\ state' = "ready"
  /\ UNCHANGED <<chainId, order, accepted>>

\* ValueError ends the process.
HandlerRaises ==
  /\ state = "returned"
  /\ ~Convertible(order)
  /\ state' = "raised"
  /\ UNCHANGED <<chainId, order, ready, accepted>>

\* The keeper posts the entry and the API accepts it.
Post ==
  /\ state = "ready"
  /\ accepted' = ApiUid(chainId, ready)
  /\ state' = "posted"
  /\ UNCHANGED <<chainId, order, ready>>

Next == HandleTradeableOrder \/ HandlerRaises \/ Post

Spec == Init /\ [][Next]_vars

-----------------------------------------------------------------------------
(* Properties *)

\* The uid that the agents expect in VerifyExecutionRound is the uid that the API
\* gives to what the keeper posts, although one is computed from the hashes of the
\* chain and the other from the strings of the entry.
ExpectedUidAccepted == state = "posted" => accepted = ready.order_uid

\* The uid of a ready order keeps what it was made of, as test_extract_order_uid_params
\* reads it: extract_order_uid_params undoes compute_order_uid for each validTo up to the
\* largest one, if the string is turned into bytes first, and rejects the string itself.
UidRoundTrip ==
  state \in {"ready", "posted"} =>
    /\ ExtractOrderUidParams(FromHex(ready.order_uid)) =
         [digest |-> BytesOf(OrderDigest(chainId, order), DigestLen),
          owner |-> BytesOf(order.owner, OwnerLen),
          validTo |-> order.validTo]
    /\ ExtractOrderUidParams(ready.order_uid) = None

=============================================================================
