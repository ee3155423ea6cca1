-------------------------- MODULE MCTypedDocuments --------------------------
(***************************************************************************)
(* OrderUids and TypedDocuments with small orders, and with documents      *)
(* about mails: their structs nested twice, shared, extended, in arrays.   *)
(***************************************************************************)
EXTENDS TypedDocuments

MCStructNames == <<"EIP712Domain", "Mail", "Person", "Wallet">>

Person == Type("Person")
Text == Type("string")

\* The fields of a mail: senders and recipients as structs, as an array of structs, a
\* thread of mails, an array of texts, and raw bytes.
MailFields ==
  {<<Field("from", Person), Field("to", Person)>>,
   <<Field("to", Person), Field("from", Person)>>,
   <<Field("from", Person), Field("to", ArrayOf("Person"))>>,
   <<Field("text", Text), Field("replies", ArrayOf("Mail"))>>,
   <<Field("text", Text), Field("tags", ArrayOf("string"))>>,
   <<Field("text", Type("bytes"))>>}

PersonFields ==
  {<<Field("name", Text)>>,
   <<Field("name", Text), Field("wallet", Type("Wallet"))>>}

\* The part of a record that a schema has fields for.
Fitted(record, fields) ==
  [n \in {fields[i].name : i \in DOMAIN fields} |-> record[n]]

Persons(fields) ==
  {Fitted([name |-> n, wallet |-> [account |-> a]], fields) :
     n \in {"Bob", "Eve"}, a \in {"0xa", "0xb"}}

Replies == {<<>>, <<[text |-> "re", replies |-> <<>>]>>}

Messages(fields, persons) ==
  {Fitted([from |-> p,
           to |-> IF Field("to", Person) \in ToSet(fields) THEN q ELSE <<q, p>>,
           text |-> "hi", replies |-> r, tags |-> <<"x">>], fields) :
     p, q \in persons, r \in Replies}

\* Mails under one domain.
Mails ==
  UNION {{[types |-> ("EIP712Domain" :> <<Field("name", Text)>>) @@ ("Mail" :> f)
                       @@ ("Person" :> g) @@ ("Wallet" :> <<Field("account", Text)>>),
           primaryType |-> "Mail",
           names |-> <<"name">>,
           domain |-> [name |-> "mail"],
           message |-> m] : m \in Messages(f, Persons(g))} :
         f \in MailFields, g \in PersonFields}

\* A wallet under domains with any of the fields, named in any order, and one field
\* that no domain has.
MCDomainFields == <<Field("name", Text), Field("chainId", Type("uint256")),
                    Field("salt", Type("bytes32")), Field("colour", Text)>>

Domains ==
  UNION {{[types |-> ("EIP712Domain" :> SelectSeq(MCDomainFields, LAMBDA f : f.name \in names))
                       @@ ("Wallet" :> <<Field("account", Text)>>),
           primaryType |-> "Wallet",
           names |-> order_of_dict,
           domain |-> [n \in names |-> "value"],
           message |-> [account |-> "0xa"]] : order_of_dict \in SetToSeqs(names)} :
           names \in (SUBSET {"name", "chainId", "salt", "colour"}) \ {{}}}

MCDocuments == Mails \cup Domains

=============================================================================
