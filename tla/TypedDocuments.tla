--------------------------- MODULE TypedDocuments ---------------------------
(***************************************************************************)
(* Besides the orders of OrderUids, other documents that are hashed as     *)
(* structured data: nested structs, arrays, domains with other fields.     *)
(***************************************************************************)
EXTENDS OrderUids, TypedData

VARIABLES
  document,    \* the document to be hashed, or None
  digest,      \* encode_typed_data of it, or None
  domainHash   \* hash_domain of its domain, or None

typedVars == <<document, digest, domainHash>>

\* Either an order comes from the chain or there is a document to hash.
TypedInit ==
  \/ Init /\ document = None /\ digest = None /\ domainHash = None
  \/ /\ document \in Documents /\ digest = None /\ domainHash = None
     /\ chainId \in ChainIds /\ order \in ChainOrder
     /\ chainId = CHOOSE id \in ChainIds : TRUE
     /\ order = CHOOSE o \in ChainOrder : TRUE
     /\ state = "none" /\ ready = None /\ accepted = None

HashDocument ==
  /\ document # None /\ digest = None
  /\ digest' = EncodeTypedData(document)
  /\ domainHash' = HashDomain(document.domain, document.names)
  /\ UNCHANGED <<vars, document>>

TypedNext == (Next /\ UNCHANGED typedVars) \/ HashDocument

TypedSpec == TypedInit /\ [][TypedNext]_<<vars, typedVars>>

-----------------------------------------------------------------------------
(* Properties *)

\* The fields of the structs have no array types.
NoArrays(d) ==
  \A name \in DOMAIN d.types : \A i \in DOMAIN d.types[name] :
    /\ ~d.types[name][i].type.array
    /\ d.types[name][i].type # Type("bytes")

\* Without arrays the hash is that of the standard, however the structs are nested and
\* shared: definitions are collected transitively, once each, and sorted
\* (create_schema).
StandardDigests ==
  digest # None /\ NoArrays(document) => digest = StandardDigest(document)

\* The hash of a domain depends neither on the order of its dict nor on which of the
\* fields it has (hash_domain).
StandardDomains ==
  domainHash # None =>
    \/ domainHash = Raised /\ ~(ToSet(document.names) \subseteq
                                  {DomainFields[i].name : i \in DOMAIN DomainFields})
    \/ domainHash = StandardHash("EIP712Domain", document.domain, document.types)

\* Documents with the same digest agree in domain, primary type and message, arrays or
\* not.  Types that the primary type does not refer to are not part of the digest.
DigestsIdentify ==
  digest \notin {None, Raised} =>
    \A d \in Documents :
      EncodeTypedData(d) = digest =>
        /\ d.domain = document.domain
        /\ d.primaryType = document.primaryType
        /\ d.message = document.message

=============================================================================
