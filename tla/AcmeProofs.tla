----------------------------- MODULE AcmeProofs -----------------------------
(***************************************************************************)
(* Machine-checked proofs about Acme, for any number of clients of either  *)
(* kind, any number of calls, faults and nonces.                           *)
(***************************************************************************)
EXTENDS Acme, FiniteSetTheorems, TLAPS

-----------------------------------------------------------------------------
(* The inductive invariant.                                                 *)

\* A request carries a nonce of the client that sent it, and only an
\* AcmeClient waits for its answer; the CSR of an AcmeClient has its own key.
RequestOK(r) ==
    /\ r.nonce[1] = r.from
    /\ r.live => r.from \in AcmeClients
    /\ r.kind = "new_order" => r.identifier \in Nids
    /\ r.from \in AcmeClients => r.csr_key = r.from

\* The requests a client waits for the answer of.
Live(c) == {r \in wire : r.from = c /\ r.live}

\* An AcmeClient has one request out at a time, and only in a call.
ClientInv(c) ==
    /\ last_nonce[c][1] = c
    /\ reply[c].ok => reply[c].nonce[1] = c
    /\ Waiting(c) => /\ pc[c] \in Stages \ {"directory"}
                     /\ pc[c] = "new_nonce" \/ last_nonce[c] # NoNonce(c)
    /\ reply[c] # NoReply => Live(c) = {}
    /\ \A r, s \in Live(c) : r = s

\* An order belongs to an account. The certificates issued for it are fewer
\* than the answers to its challenge while it is ready.
OrderInv(o) ==
    /\ orders[o].account \in DOMAIN account_jwks
    /\ answers[o] <= minted[account_jwks[orders[o].account]]
    /\ CertsOf(o) <= answers[o]
    /\ orders[o].status = "ready" => CertsOf(o) < answers[o]
    /\ orders[o].certificate # None =>
          /\ orders[o].certificate \in DOMAIN certs
          /\ certs[orders[o].certificate].order = o

\* A certificate names its order and what the order says, and the key of the
\* AcmeClient the order belongs to, if it belongs to one.
CertInv(k) ==
    /\ certs[k].order \in DOMAIN orders
    /\ certs[k].subject = orders[certs[k].order].identifier
    /\ account_jwks[orders[certs[k].order].account] \in AcmeClients =>
          certs[k].key = account_jwks[orders[certs[k].order].account]

\* Every effect has used up a nonce of its own.
PaidFor == \A c \in Clients : Effects(c) <= Spent(c)

IndInv ==
    /\ TypeOK
    /\ \A r \in wire : RequestOK(r)
    /\ \A c \in AcmeClients : ClientInv(c)
    /\ \A o \in DOMAIN orders : OrderInv(o)
    /\ \A k \in DOMAIN certs : CertInv(k)
    /\ PaidFor

-----------------------------------------------------------------------------
(* Counting.                                                                *)

LEMMA NoMore ==
    ASSUME NEW S, IsFiniteSet(S), NEW T, T \subseteq S
    PROVE  /\ IsFiniteSet(T) /\ Cardinality(T) \in Nat /\ Cardinality(S) \in Nat
           /\ Cardinality(T) <= Cardinality(S)
BY FS_Subset, FS_CardinalityType

LEMMA OneMore ==
    ASSUME NEW S, IsFiniteSet(S), NEW x, NEW T, T \subseteq S \cup {x}
    PROVE  /\ IsFiniteSet(T) /\ Cardinality(T) \in Nat /\ Cardinality(S) \in Nat
           /\ Cardinality(T) <= Cardinality(S) + 1
<1>1. /\ IsFiniteSet(S \cup {x}) /\ Cardinality(S) \in Nat
      /\ Cardinality(S \cup {x}) = IF x \in S THEN Cardinality(S) ELSE Cardinality(S) + 1
  BY FS_AddElement, FS_CardinalityType
<1>2. Cardinality(S \cup {x}) \in Nat /\ Cardinality(S) \in Nat
  BY <1>1, FS_CardinalityType
<1>3. IsFiniteSet(T) /\ Cardinality(T) <= Cardinality(S \cup {x}) /\ Cardinality(T) \in Nat
  BY <1>1, NoMore
<1> QED
  BY <1>1, <1>2, <1>3

LEMMA FiniteUpTo ==
    ASSUME NEW n \in Nat
    PROVE  IsFiniteSet(1..n)
<1>1. 1 \in Int /\ n \in Int
  OBVIOUS
<1> QED
  BY <1>1, FS_Interval, Zenon

\* The tables are finite, and so is what is counted in them.
LEMMA EffectsFinite ==
    ASSUME TypeOK, NEW c \in Clients
    PROVE  /\ IsFiniteSet(AccountsOf(c)) /\ IsFiniteSet(OrdersOf(c))
           /\ IsFiniteSet(IssuedTo(c)) /\ IsFiniteSet(MetBy(c))
<1>1. /\ DOMAIN account_jwks = 1..Len(account_jwks) /\ Len(account_jwks) \in Nat
      /\ DOMAIN orders = 1..Len(orders) /\ Len(orders) \in Nat
      /\ DOMAIN certs = 1..Len(certs) /\ Len(certs) \in Nat
      /\ minted[c] \in Nat
  BY DEF TypeOK
<1>2. /\ IsFiniteSet(1..Len(account_jwks)) /\ IsFiniteSet(1..Len(orders))
      /\ IsFiniteSet(1..Len(certs)) /\ IsFiniteSet(1..minted[c])
  BY <1>1, FiniteUpTo
<1>3. IsFiniteSet(AccountsOf(c)) /\ IsFiniteSet(OrdersOf(c)) /\ IsFiniteSet(IssuedTo(c))
  BY <1>1, <1>2, FS_Subset DEF AccountsOf, OrdersOf, IssuedTo
<1>4. IsFiniteSet(OrdersOf(c) \X (1..minted[c]))
  BY <1>2, <1>3, FS_Product
<1>5. MetBy(c) \subseteq OrdersOf(c) \X (1..minted[c])
  BY DEF MetBy
<1> QED
  BY <1>3, <1>4, <1>5, FS_Subset

LEMMA HeldFinite ==
    ASSUME TypeOK, NEW c \in Clients
    PROVE  /\ IsFiniteSet(Held(c)) /\ Cardinality(Held(c)) \in Nat /\ minted[c] \in Nat
           /\ \A n \in Held(c) : n = <<c, n[2]>> /\ n[2] \in 1..minted[c]
<1>1. minted[c] \in Nat
  BY DEF TypeOK
<1>2. \A n \in Held(c) : n = <<c, n[2]>> /\ n[2] \in 1..minted[c]
  BY DEF Held, TypeOK, Nonces
<1>3. IsFiniteSet({c} \X (1..minted[c]))
  <2>1. IsFiniteSet(1..minted[c]) /\ IsFiniteSet({c})
    BY <1>1, FiniteUpTo, FS_Singleton
  <2> QED
    BY <2>1, FS_Product
<1>4. Held(c) \subseteq {c} \X (1..minted[c])
  BY <1>2
<1> QED
  BY <1>1, <1>2, <1>3, <1>4, FS_Subset, FS_CardinalityType

-----------------------------------------------------------------------------
(* Nonces.                                                                  *)

LEMMA MintedNext ==
    ASSUME TypeOK, NEW r \in Requests, minted' = [minted EXCEPT ![r.from] = @ + 1],
           nonces' \subseteq nonces \cup {NewNonce(r)}
    PROVE  /\ minted' \in [Clients -> Nat] /\ r.from \in Clients
           /\ minted'[r.from] = minted[r.from] + 1
           /\ \A c \in Clients \ {r.from} : minted'[c] = minted[c]
           /\ \A c \in Clients : minted[c] <= minted'[c] /\ minted[c] \in Nat
           /\ nonces' \subseteq Nonces /\ \A n \in nonces' : n[2] \in 1..minted'[n[1]]
           /\ NewNonce(r) \notin nonces /\ NewNonce(r)[1] = r.from /\ NewNonce(r) \in Nonces
<1>1. r.from \in Clients
  BY DEF Requests
<1>2. minted \in [Clients -> Nat] /\ minted[r.from] \in Nat
  BY <1>1 DEF TypeOK
<1>3. /\ minted' \in [Clients -> Nat]
      /\ minted'[r.from] = minted[r.from] + 1
      /\ \A c \in Clients \ {r.from} : minted'[c] = minted[c]
      /\ \A c \in Clients : minted[c] <= minted'[c] /\ minted[c] \in Nat
  BY <1>1, <1>2
<1>4. NewNonce(r) = <<r.from, minted[r.from] + 1>> /\ NewNonce(r) \in Nonces
      /\ NewNonce(r)[1] = r.from /\ NewNonce(r)[2] = minted[r.from] + 1
  BY <1>1, <1>2 DEF NewNonce, Nonces
<1>5. NewNonce(r) \notin nonces
  BY <1>2, <1>4 DEF TypeOK
<1>6. ASSUME NEW n \in nonces' PROVE n \in Nonces /\ n[2] \in 1..minted'[n[1]]
  <2>1. CASE n = NewNonce(r)
    BY <1>2, <1>3, <1>4, <2>1
  <2>2. CASE n \in nonces
    <3>1. n \in Nonces /\ n[2] \in 1..minted[n[1]] /\ n[1] \in Clients
      BY <2>2 DEF TypeOK, Nonces
    <3>2. minted[n[1]] <= minted'[n[1]] /\ minted[n[1]] \in Nat /\ minted'[n[1]] \in Nat
      BY <1>3, <3>1
    <3> QED
      BY <3>1, <3>2
  <2> QED
    BY <2>1, <2>2
<1> QED
  BY <1>1, <1>3, <1>4, <1>5, <1>6

\* A request that succeeds uses up the nonce it carries.
LEMMA SpentByGrant ==
    ASSUME TypeOK, NEW r \in Requests, RequestOK(r), NonceFresh(r),
           minted' = [minted EXCEPT ![r.from] = @ + 1],
           nonces' = NoncesAfter(r) \cup {NewNonce(r)}, NEW c \in Clients
    PROVE  /\ Spent(c) \in Int /\ Spent(c)' \in Int
           /\ Spent(c)' = IF c = r.from THEN Spent(c) + 1 ELSE Spent(c)
<1>1. /\ minted'[r.from] = minted[r.from] + 1 /\ r.from \in Clients
      /\ \A d \in Clients \ {r.from} : minted'[d] = minted[d]
      /\ NewNonce(r) \notin nonces /\ NewNonce(r)[1] = r.from
  BY MintedNext DEF NoncesAfter
<1>2. IsFiniteSet(Held(c)) /\ Cardinality(Held(c)) \in Nat /\ minted[c] \in Nat
  BY HeldFinite
<1>3. CASE c = r.from
  <2>1. r.nonce \in Held(c)
    BY <1>3 DEF Held, NonceFresh, RequestOK
  <2>2. Held(c)' = (Held(c) \ {r.nonce}) \cup {NewNonce(r)} /\ NewNonce(r) \notin Held(c)
    BY <1>1, <1>3 DEF Held, NoncesAfter
  <2>3. IsFiniteSet(Held(c) \ {r.nonce}) /\ Cardinality(Held(c) \ {r.nonce}) = Cardinality(Held(c)) - 1
    BY <1>2, <2>1, FS_RemoveElement
  <2>4. Cardinality(Held(c)') = Cardinality(Held(c))
    <3>1. NewNonce(r) \notin Held(c) \ {r.nonce}
      BY <2>2
    <3>2. Cardinality(Held(c)') = Cardinality(Held(c) \ {r.nonce}) + 1
      BY <2>2, <2>3, <3>1, FS_AddElement
    <3> QED
      BY <1>2, <2>3, <3>2
  <2> QED
    BY <1>1, <1>2, <1>3, <2>4 DEF Spent
<1>4. CASE c # r.from
  <2>1. Held(c)' = Held(c)
    BY <1>1, <1>4 DEF Held, NoncesAfter, RequestOK
  <2>2. minted'[c] = minted[c]
    BY <1>1, <1>4
  <2> QED
    BY <1>2, <1>4, <2>1, <2>2 DEF Spent
<1> QED
  BY <1>3, <1>4

\* A nonce that is only fetched is not spent.
LEMMA SpentByNewNonce ==
    ASSUME TypeOK, NEW r \in Requests,
           minted' = [minted EXCEPT ![r.from] = @ + 1],
           nonces' = nonces \cup {NewNonce(r)}, NEW c \in Clients
    PROVE  Spent(c) \in Int /\ Spent(c)' = Spent(c)
<1>1. /\ minted'[r.from] = minted[r.from] + 1 /\ r.from \in Clients
      /\ \A d \in Clients \ {r.from} : minted'[d] = minted[d]
      /\ NewNonce(r) \notin nonces /\ NewNonce(r)[1] = r.from
  BY MintedNext
<1>2. IsFiniteSet(Held(c)) /\ Cardinality(Held(c)) \in Nat /\ minted[c] \in Nat
  BY HeldFinite
<1>3. CASE c = r.from
  <2>1. Held(c)' = Held(c) \cup {NewNonce(r)} /\ NewNonce(r) \notin Held(c)
    BY <1>1, <1>3 DEF Held
  <2>2. Cardinality(Held(c)') = Cardinality(Held(c)) + 1
    BY <1>2, <2>1, FS_AddElement
  <2> QED
    BY <1>1, <1>2, <1>3, <2>2 DEF Spent
<1>4. CASE c # r.from
  <2>1. Held(c)' = Held(c)
    BY <1>1, <1>4 DEF Held
  <2>2. minted'[c] = minted[c]
    BY <1>1, <1>4
  <2> QED
    BY <1>2, <1>4, <2>1, <2>2 DEF Spent
<1> QED
  BY <1>3, <1>4

\* A refused request has at most used up its nonce.
LEMMA SpentByRefusal ==
    ASSUME TypeOK, minted' = minted, nonces' \subseteq nonces, NEW c \in Clients
    PROVE  Spent(c) \in Int /\ Spent(c)' \in Int /\ Spent(c)' >= Spent(c)
<1>1. IsFiniteSet(Held(c)) /\ Cardinality(Held(c)) \in Nat /\ minted[c] \in Nat
  BY HeldFinite
<1>2. Held(c)' \subseteq Held(c)
  BY DEF Held
<1>3. Cardinality(Held(c)') \in Nat /\ Cardinality(Held(c)') <= Cardinality(Held(c))
  BY <1>1, <1>2, NoMore
<1> QED
  BY <1>1, <1>3 DEF Spent

-----------------------------------------------------------------------------
(* What a step adds to the effects of a client.                             *)

LEMMA EffectsTyped ==
    ASSUME TypeOK, NEW c \in Clients
    PROVE  /\ Cardinality(AccountsOf(c)) \in Nat /\ Cardinality(OrdersOf(c)) \in Nat
           /\ Cardinality(IssuedTo(c)) \in Nat /\ Cardinality(MetBy(c)) \in Nat
           /\ Effects(c) \in Nat
<1>1. /\ Cardinality(AccountsOf(c)) \in Nat /\ Cardinality(OrdersOf(c)) \in Nat
      /\ Cardinality(IssuedTo(c)) \in Nat /\ Cardinality(MetBy(c)) \in Nat
  BY EffectsFinite, FS_CardinalityType
<1> QED
  BY <1>1 DEF Effects

LEMMA NoEffect ==
    ASSUME TypeOK, NEW c \in Clients,
           AccountsOf(c)' \subseteq AccountsOf(c), OrdersOf(c)' \subseteq OrdersOf(c),
           IssuedTo(c)' \subseteq IssuedTo(c), MetBy(c)' \subseteq MetBy(c)
    PROVE  Effects(c)' \in Nat /\ Effects(c)' <= Effects(c)
<1>1. /\ IsFiniteSet(AccountsOf(c)) /\ IsFiniteSet(OrdersOf(c))
      /\ IsFiniteSet(IssuedTo(c)) /\ IsFiniteSet(MetBy(c))
  BY EffectsFinite
<1>2. Cardinality(AccountsOf(c)') \in Nat /\ Cardinality(AccountsOf(c)') <= Cardinality(AccountsOf(c))
  BY <1>1, NoMore
<1>3. Cardinality(OrdersOf(c)') \in Nat /\ Cardinality(OrdersOf(c)') <= Cardinality(OrdersOf(c))
  BY <1>1, NoMore
<1>4. Cardinality(IssuedTo(c)') \in Nat /\ Cardinality(IssuedTo(c)') <= Cardinality(IssuedTo(c))
  BY <1>1, NoMore
<1>5. Cardinality(MetBy(c)') \in Nat /\ Cardinality(MetBy(c)') <= Cardinality(MetBy(c))
  BY <1>1, NoMore
<1> QED
  BY <1>2, <1>3, <1>4, <1>5, EffectsTyped DEF Effects

LEMMA OneEffect ==
    ASSUME TypeOK, NEW c \in Clients, NEW x,
           \/ /\ AccountsOf(c)' \subseteq AccountsOf(c) \cup {x} /\ OrdersOf(c)' \subseteq OrdersOf(c)
              /\ IssuedTo(c)' \subseteq IssuedTo(c) /\ MetBy(c)' \subseteq MetBy(c)
           \/ /\ AccountsOf(c)' \subseteq AccountsOf(c) /\ OrdersOf(c)' \subseteq OrdersOf(c) \cup {x}
              /\ IssuedTo(c)' \subseteq IssuedTo(c) /\ MetBy(c)' \subseteq MetBy(c)
           \/ /\ AccountsOf(c)' \subseteq AccountsOf(c) /\ OrdersOf(c)' \subseteq OrdersOf(c)
              /\ IssuedTo(c)' \subseteq IssuedTo(c) \cup {x} /\ MetBy(c)' \subseteq MetBy(c)
           \/ /\ AccountsOf(c)' \subseteq AccountsOf(c) /\ OrdersOf(c)' \subseteq OrdersOf(c)
              /\ IssuedTo(c)' \subseteq IssuedTo(c) /\ MetBy(c)' \subseteq MetBy(c) \cup {x}
    PROVE  Effects(c)' \in Nat /\ Effects(c)' <= Effects(c) + 1
<1> DEFINE a == Cardinality(AccountsOf(c)) b == Cardinality(OrdersOf(c))
           d == Cardinality(IssuedTo(c)) e == Cardinality(MetBy(c))
<1>1. /\ IsFiniteSet(AccountsOf(c)) /\ IsFiniteSet(OrdersOf(c))
      /\ IsFiniteSet(IssuedTo(c)) /\ IsFiniteSet(MetBy(c))
      /\ a \in Nat /\ b \in Nat /\ d \in Nat /\ e \in Nat
  BY EffectsFinite, EffectsTyped
<1>2. AccountsOf(c)' \subseteq AccountsOf(c) => Cardinality(AccountsOf(c)') \in Nat /\ Cardinality(AccountsOf(c)') <= a
  BY <1>1, NoMore
<1>3. OrdersOf(c)' \subseteq OrdersOf(c) => Cardinality(OrdersOf(c)') \in Nat /\ Cardinality(OrdersOf(c)') <= b
  BY <1>1, NoMore
<1>4. IssuedTo(c)' \subseteq IssuedTo(c) => Cardinality(IssuedTo(c)') \in Nat /\ Cardinality(IssuedTo(c)') <= d
  BY <1>1, NoMore
<1>5. MetBy(c)' \subseteq MetBy(c) => Cardinality(MetBy(c)') \in Nat /\ Cardinality(MetBy(c)') <= e
  BY <1>1, NoMore
<1>6. AccountsOf(c)' \subseteq AccountsOf(c) \cup {x} =>
         Cardinality(AccountsOf(c)') \in Nat /\ Cardinality(AccountsOf(c)') <= a + 1
  BY <1>1, OneMore
<1>7. OrdersOf(c)' \subseteq OrdersOf(c) \cup {x} =>
         Cardinality(OrdersOf(c)') \in Nat /\ Cardinality(OrdersOf(c)') <= b + 1
  BY <1>1, OneMore
<1>8. IssuedTo(c)' \subseteq IssuedTo(c) \cup {x} =>
         Cardinality(IssuedTo(c)') \in Nat /\ Cardinality(IssuedTo(c)') <= d + 1
  BY <1>1, OneMore
<1>9. MetBy(c)' \subseteq MetBy(c) \cup {x} =>
         Cardinality(MetBy(c)') \in Nat /\ Cardinality(MetBy(c)') <= e + 1
  BY <1>1, OneMore
<1>10. /\ Cardinality(AccountsOf(c)') \in Nat /\ Cardinality(OrdersOf(c)') \in Nat
       /\ Cardinality(IssuedTo(c)') \in Nat /\ Cardinality(MetBy(c)') \in Nat
       /\ Cardinality(AccountsOf(c)') + Cardinality(OrdersOf(c)') + Cardinality(IssuedTo(c)')
            + Cardinality(MetBy(c)') <= a + b + d + e + 1
  BY <1>1, <1>2, <1>3, <1>4, <1>5, <1>6, <1>7, <1>8, <1>9
<1>11. Effects(c) = a + b + d + e
  BY DEF Effects
<1>12. Effects(c)' = Cardinality(AccountsOf(c)') + Cardinality(OrdersOf(c)')
                       + Cardinality(IssuedTo(c)') + Cardinality(MetBy(c)')
  BY DEF Effects
<1> QED
  BY <1>10, <1>11, <1>12

\* The challenges met by a client do not change when a nonce is handed to it
\* or when it opens an order.
LEMMA MetSame ==
    ASSUME IndInv, NEW c \in Clients,
           \A o \in OrdersOf(c)' : \/ o \in OrdersOf(c) /\ answers'[o] = answers[o]
                                   \/ answers'[o] = 0
    PROVE  MetBy(c)' \subseteq MetBy(c)
<1> SUFFICES ASSUME NEW m \in MetBy(c)' PROVE m \in MetBy(c)
  OBVIOUS
<1>1. m \in OrdersOf(c)' \X (1..minted'[c]) /\ m[2] <= answers'[m[1]]
  BY DEF MetBy
<1>2. m = <<m[1], m[2]>> /\ m[1] \in OrdersOf(c)' /\ m[2] \in 1..minted'[c]
  BY <1>1
<1>3. m[1] \in OrdersOf(c) /\ answers'[m[1]] = answers[m[1]]
  BY <1>1, <1>2
<1>4. m[1] \in DOMAIN orders /\ account_jwks[orders[m[1]].account] = c
  BY <1>3 DEF OrdersOf
<1>5. answers[m[1]] <= minted[c]
  BY <1>4 DEF IndInv, OrderInv
<1>6. answers[m[1]] \in Nat /\ minted[c] \in Nat
  BY <1>4 DEF IndInv, TypeOK
<1> QED
  BY <1>1, <1>2, <1>3, <1>5, <1>6 DEF MetBy

LEMMA MetOnce ==
    ASSUME IndInv, NEW c \in Clients, NEW o \in DOMAIN orders,
           \A x \in OrdersOf(c)' :
              /\ x \in OrdersOf(c)
              /\ answers'[x] = IF x = o THEN answers[x] + 1 ELSE answers[x]
    PROVE  MetBy(c)' \subseteq MetBy(c) \cup {<<o, answers[o] + 1>>}
<1> SUFFICES ASSUME NEW m \in MetBy(c)', m # <<o, answers[o] + 1>> PROVE m \in MetBy(c)
  OBVIOUS
<1>1. m \in OrdersOf(c)' \X (1..minted'[c]) /\ m[2] <= answers'[m[1]]
  BY DEF MetBy
<1>2. m = <<m[1], m[2]>> /\ m[1] \in OrdersOf(c)' /\ m[2] \in 1..minted'[c]
  BY <1>1
<1>3. m[1] \in OrdersOf(c)
  BY <1>2
<1>4. m[1] \in DOMAIN orders /\ account_jwks[orders[m[1]].account] = c
  BY <1>3 DEF OrdersOf
<1>5. answers[m[1]] <= minted[c]
  BY <1>4 DEF IndInv, OrderInv
<1>6. answers[m[1]] \in Nat /\ minted[c] \in Nat
  BY <1>4, SMTT(20) DEF IndInv, TypeOK
<1>7. m[2] <= answers[m[1]]
  <2>1. CASE m[1] = o
    BY <1>1, <1>2, <1>6, <2>1
  <2>2. CASE m[1] # o
    BY <1>1, <1>2, <2>2
  <2> QED
    BY <2>1, <2>2
<1> QED
  BY <1>2, <1>3, <1>5, <1>6, <1>7 DEF MetBy

\* A step that leaves the tables alone has no effect, and breaks nothing that
\* is known of them.
TablesKept ==
    /\ account_jwks' = account_jwks /\ orders' = orders /\ certs' = certs
    /\ answers' = answers

LEMMA TablesSame ==
    ASSUME IndInv, TablesKept, minted' \in [Clients -> Nat],
           \A c \in Clients : minted[c] <= minted'[c]
    PROVE  /\ \A o \in DOMAIN orders' : OrderInv(o)'
           /\ \A k \in DOMAIN certs' : CertInv(k)'
           /\ \A c \in Clients : Effects(c)' \in Nat /\ Effects(c)' <= Effects(c)
<1>1. TypeOK
  BY DEF IndInv
<1>2. \A k \in DOMAIN certs' : CertInv(k)'
  BY DEF IndInv, CertInv, TablesKept
<1>3. ASSUME NEW o \in DOMAIN orders' PROVE OrderInv(o)'
  <2>1. OrderInv(o) /\ answers[o] \in Nat /\ o \in DOMAIN orders
    BY <1>1, <1>3 DEF IndInv, TablesKept, TypeOK
  <2>2. account_jwks[orders[o].account] \in Clients
    BY <1>1, <2>1, SMTT(20) DEF OrderInv, TypeOK
  <2>3. answers[o] <= minted'[account_jwks[orders[o].account]]
    BY <1>1, <2>1, <2>2, SMTT(20) DEF OrderInv, TypeOK
  <2> QED
    BY <2>1, <2>3 DEF OrderInv, CertsOf, TablesKept
<1>4. ASSUME NEW c \in Clients PROVE Effects(c)' \in Nat /\ Effects(c)' <= Effects(c)
  <2>1. /\ AccountsOf(c)' = AccountsOf(c) /\ OrdersOf(c)' = OrdersOf(c)
        /\ IssuedTo(c)' = IssuedTo(c)
    BY DEF AccountsOf, OrdersOf, IssuedTo, TablesKept
  <2>2. \A o \in OrdersOf(c)' : o \in OrdersOf(c) /\ answers'[o] = answers[o]
    BY <2>1 DEF TablesKept
  <2>3. MetBy(c)' \subseteq MetBy(c)
    BY <1>4, <2>2, MetSame
  <2> QED
    BY <1>1, <1>4, <2>1, <2>3, NoEffect
<1> QED
  BY <1>2, <1>3, <1>4

-----------------------------------------------------------------------------
(* Messages.                                                                *)

\* What follows of the answer to a request, for who sent it and for others.
LEMMA Responded ==
    ASSUME IndInv, NEW r \in Requests, RequestOK(r), r.live => r \in wire,
           NEW answer \in Replies, answer.ok => answer.nonce[1] = r.from,
           Respond(r, answer), UNCHANGED client
    PROVE  /\ wire' \subseteq Requests /\ reply' \in [AcmeClients -> Replies]
           /\ \A s \in wire' : RequestOK(s)
           /\ \A c \in AcmeClients : ClientInv(c)'
<1>1. wire \subseteq Requests /\ reply \in [AcmeClients -> Replies] /\ wire' = wire \ {r}
      /\ pc' = pc /\ last_nonce' = last_nonce
  BY DEF IndInv, TypeOK, Respond, client
<1>2. r.live => r.from \in AcmeClients
  BY DEF RequestOK
<1>3. reply' \in [AcmeClients -> Replies]
  BY <1>1, <1>2 DEF Respond
<1>4. \A s \in wire' : RequestOK(s)
  BY <1>1 DEF IndInv
<1>5. ASSUME NEW c \in AcmeClients PROVE ClientInv(c)'
  <2>1. ClientInv(c)
    BY DEF IndInv
  <2>2. Live(c)' \subseteq Live(c)
    BY <1>1 DEF Live
  <2>3. CASE r.live /\ r.from = c
    <3>1. r \in Live(c)
      BY <2>3 DEF Live
    <3>2. Live(c)' = {}
      BY <1>1, <2>1, <2>2, <3>1 DEF Live, ClientInv
    <3>3. reply'[c] = answer
      BY <1>1, <1>2, <2>3 DEF Respond
    <3>4. Waiting(c)
      BY <2>3 DEF Waiting
    <3> QED
      BY <1>1, <2>1, <2>3, <3>2, <3>3, <3>4 DEF ClientInv, Waiting, Live, NoNonce
  <2>4. CASE ~(r.live /\ r.from = c)
    <3>1. reply'[c] = reply[c]
      BY <1>1, <1>2, <2>4 DEF Respond
    <3>2. Waiting(c)' => Waiting(c)
      BY <1>1, <3>1 DEF Waiting
    <3>3. \A s, t \in Live(c)' : s = t
      BY <2>1, <2>2 DEF ClientInv
    <3>4. reply'[c] # NoReply => Live(c)' = {}
      BY <2>1, <2>2, <3>1 DEF ClientInv
    <3> QED
      BY <1>1, <2>1, <3>1, <3>2, <3>3, <3>4 DEF ClientInv, NoNonce
  <2> QED
    BY <2>3, <2>4
<1> QED
  BY <1>1, <1>3, <1>4, <1>5

\* What a handler has to show of the tables.
ServerTyped ==
    /\ minted \in [Clients -> Nat]
    /\ nonces \subseteq Nonces /\ \A n \in nonces : n[2] \in 1..minted[n[1]]
    /\ account_jwks \in Seq(Clients)
    /\ orders \in Seq(Orders)
    /\ authzs \in Seq(Statuses) /\ Len(authzs) = Len(orders)
    /\ challenges \in Seq(Statuses) /\ Len(challenges) = Len(orders)
    /\ answers \in Seq(Nat) /\ Len(answers) = Len(orders)
    /\ certs \in Seq(Certificates)

ServerInv ==
    /\ \A o \in DOMAIN orders : OrderInv(o)
    /\ \A k \in DOMAIN certs : CertInv(k)
    /\ PaidFor

LEMMA ServedKept ==
    ASSUME IndInv, NEW r \in Requests, RequestOK(r), r.live => r \in wire,
           NEW answer \in Replies, answer.ok => answer.nonce[1] = r.from,
           Respond(r, answer), UNCHANGED client, ServerTyped', ServerInv'
    PROVE  IndInv'
<1>1. /\ wire' \subseteq Requests /\ reply' \in [AcmeClients -> Replies]
      /\ \A s \in wire' : RequestOK(s)
      /\ \A c \in AcmeClients : ClientInv(c)'
  BY Responded
<1>2. TypeOK'
  BY <1>1 DEF IndInv, TypeOK, ServerTyped, client
<1> QED
  BY <1>1, <1>2 DEF IndInv, ServerInv

LEMMA TypedAgain == TypeOK => ServerTyped
BY DEF TypeOK, ServerTyped

-----------------------------------------------------------------------------
(* The handlers.                                                            *)

LEMMA RefusalKept ==
    ASSUME IndInv, NEW r \in Requests, RequestOK(r), r.live => r \in wire,
           TablesKept, minted' = minted, nonces' = NoncesAfter(r), authzs' = authzs,
           challenges' \in Seq(Statuses), Len(challenges') = Len(challenges),
           Respond(r, Problem), UNCHANGED client
    PROVE  IndInv'
<1>1. TypeOK /\ ServerTyped
  BY TypedAgain DEF IndInv
<1>2. Problem \in Replies /\ Problem.ok = FALSE
  BY DEF Replies, Problem
<1>3. ServerTyped'
  BY <1>1 DEF ServerTyped, TablesKept, NoncesAfter
<1>4. /\ \A o \in DOMAIN orders' : OrderInv(o)'
      /\ \A k \in DOMAIN certs' : CertInv(k)'
      /\ \A c \in Clients : Effects(c)' \in Nat /\ Effects(c)' <= Effects(c)
  <2>1. minted' \in [Clients -> Nat] /\ \A c \in Clients : minted[c] <= minted'[c]
    BY <1>1 DEF TypeOK
  <2> QED
    BY <2>1, TablesSame
<1>5. ASSUME NEW c \in Clients PROVE Effects(c)' <= Spent(c)'
  <2>1. Spent(c) \in Int /\ Spent(c)' \in Int /\ Spent(c)' >= Spent(c)
    BY <1>1, <1>5, SpentByRefusal DEF NoncesAfter
  <2>2. Effects(c) \in Nat /\ Effects(c) <= Spent(c)
    BY <1>1, <1>5, EffectsTyped DEF IndInv, PaidFor
  <2> QED
    BY <1>4, <1>5, <2>1, <2>2
<1>6. PaidFor'
  BY <1>5 DEF PaidFor
<1> QED
  BY <1>2, <1>3, <1>4, <1>6, ServedKept DEF ServerInv

LEMMA RefuseKept ==
    ASSUME IndInv, NEW r \in Requests, RequestOK(r), r.live => r \in wire, Refuse(r)
    PROVE  IndInv'
<1>1. challenges \in Seq(Statuses)
  BY DEF IndInv, TypeOK
<1> QED
  BY <1>1, RefusalKept DEF Refuse, TablesKept

\* A request that succeeds pays for one effect with its nonce.
LEMMA GrantKept ==
    ASSUME IndInv, NEW r \in Requests, RequestOK(r), r.live => r \in wire, NonceFresh(r),
           NEW value \in Nat, Grant(r, value),
           account_jwks' \in Seq(Clients), orders' \in Seq(Orders),
           authzs' \in Seq(Statuses), Len(authzs') = Len(orders'),
           challenges' \in Seq(Statuses), Len(challenges') = Len(orders'),
           answers' \in Seq(Nat), Len(answers') = Len(orders'),
           certs' \in Seq(Certificates),
           \A o \in DOMAIN orders' : OrderInv(o)',
           \A k \in DOMAIN certs' : CertInv(k)',
           \A c \in Clients :
              /\ Effects(c)' \in Nat
              /\ Effects(c)' <= Effects(c) + (IF c = r.from THEN 1 ELSE 0)
    PROVE  IndInv'
<1>1. TypeOK
  BY DEF IndInv
<1>2. /\ minted' = [minted EXCEPT ![r.from] = @ + 1]
      /\ nonces' = NoncesAfter(r) \cup {NewNonce(r)}
      /\ Respond(r, Success(r, value)) /\ UNCHANGED client
  BY DEF Grant
<1>3. nonces' \subseteq nonces \cup {NewNonce(r)}
  BY <1>2 DEF NoncesAfter
<1>4. /\ minted' \in [Clients -> Nat]
      /\ nonces' \subseteq Nonces /\ \A n \in nonces' : n[2] \in 1..minted'[n[1]]
      /\ NewNonce(r)[1] = r.from /\ NewNonce(r) \in Nonces
  BY <1>1, <1>2, <1>3, MintedNext
<1>5. Success(r, value) \in Replies /\ Success(r, value).nonce[1] = r.from
  BY <1>4 DEF Success, Replies
<1>6. ServerTyped'
  BY <1>4 DEF ServerTyped
<1>7. ASSUME NEW c \in Clients PROVE Effects(c)' <= Spent(c)'
  <2>1. /\ Spent(c) \in Int /\ Spent(c)' \in Int
        /\ Spent(c)' = IF c = r.from THEN Spent(c) + 1 ELSE Spent(c)
    BY <1>1, <1>2, <1>7, SpentByGrant
  <2>2. Effects(c) \in Nat /\ Effects(c) <= Spent(c)
    BY <1>1, <1>7, EffectsTyped DEF IndInv, PaidFor
  <2>3. Effects(c)' \in Nat /\ Effects(c)' <= Effects(c) + (IF c = r.from THEN 1 ELSE 0)
    BY <1>7
  <2> QED
    BY <2>1, <2>2, <2>3
<1>8. ServerInv'
  BY <1>7 DEF ServerInv, PaidFor
<1> QED
  BY <1>2, <1>5, <1>6, <1>8, ServedKept

LEMMA NewNonceKept ==
    ASSUME IndInv, NEW r \in Requests, RequestOK(r), r.live => r \in wire, HandleNewNonce(r)
    PROVE  IndInv'
<1>1. TypeOK /\ ServerTyped
  BY TypedAgain DEF IndInv
<1>2. /\ minted' = [minted EXCEPT ![r.from] = @ + 1]
      /\ nonces' = nonces \cup {NewNonce(r)}
      /\ Respond(r, Success(r, 0)) /\ UNCHANGED client
      /\ TablesKept /\ authzs' = authzs /\ challenges' = challenges
  BY DEF HandleNewNonce, TablesKept, None
<1>4. /\ minted' \in [Clients -> Nat] /\ \A c \in Clients : minted[c] <= minted'[c]
      /\ nonces' \subseteq Nonces /\ \A n \in nonces' : n[2] \in 1..minted'[n[1]]
      /\ NewNonce(r)[1] = r.from /\ NewNonce(r) \in Nonces
  BY <1>1, <1>2, MintedNext
<1>5. Success(r, 0) \in Replies /\ Success(r, 0).nonce[1] = r.from
  BY <1>4 DEF Success, Replies
<1>6. ServerTyped'
  BY <1>1, <1>2, <1>4 DEF ServerTyped, TablesKept
<1>7. /\ \A o \in DOMAIN orders' : OrderInv(o)'
      /\ \A k \in DOMAIN certs' : CertInv(k)'
      /\ \A c \in Clients : Effects(c)' \in Nat /\ Effects(c)' <= Effects(c)
  BY <1>2, <1>4, TablesSame
<1>8. ASSUME NEW c \in Clients PROVE Effects(c)' <= Spent(c)'
  <2>1. Spent(c) \in Int /\ Spent(c)' = Spent(c)
    BY <1>1, <1>2, <1>8, SpentByNewNonce
  <2>2. Effects(c) \in Nat /\ Effects(c) <= Spent(c)
    BY <1>1, <1>8, EffectsTyped DEF IndInv, PaidFor
  <2> QED
    BY <1>7, <1>8, <2>1, <2>2
<1>9. ServerInv'
  BY <1>7, <1>8 DEF ServerInv, PaidFor
<1> QED
  BY <1>2, <1>5, <1>6, <1>9, ServedKept

\* handle_authz, handle_order and handle_cert.
LEMMA LookupsKept ==
    ASSUME IndInv, NEW r \in Requests, RequestOK(r), r.live => r \in wire,
           HandleLookup(r) \/ HandleCert(r)
    PROVE  IndInv'
<1>1. CASE Refuse(r)
  BY <1>1, RefuseKept
<1>2. CASE /\ NonceFresh(r) /\ Grant(r, r.order)
           /\ UNCHANGED <<account_jwks, orders, authzs, challenges, certs, answers>>
  <2>1. TypeOK /\ ServerTyped /\ r.order \in Nat
    BY TypedAgain DEF IndInv, Requests
  <2>2. TablesKept /\ authzs' = authzs /\ challenges' = challenges
    BY <1>2 DEF TablesKept
  <2>3. minted' \in [Clients -> Nat] /\ \A c \in Clients : minted[c] <= minted'[c]
    BY <1>2, <2>1, MintedNext DEF Grant, NoncesAfter
  <2>4. /\ \A o \in DOMAIN orders' : OrderInv(o)'
        /\ \A k \in DOMAIN certs' : CertInv(k)'
        /\ \A c \in Clients : Effects(c)' \in Nat /\ Effects(c)' <= Effects(c)
    BY <2>2, <2>3, TablesSame
  <2>5. \A c \in Clients : Effects(c) \in Nat
    BY <2>1, EffectsTyped
  <2>6. \A c \in Clients :
           Effects(c)' \in Nat /\ Effects(c)' <= Effects(c) + (IF c = r.from THEN 1 ELSE 0)
    BY <2>4, <2>5
  <2>7. /\ account_jwks' \in Seq(Clients) /\ orders' \in Seq(Orders)
        /\ authzs' \in Seq(Statuses) /\ Len(authzs') = Len(orders')
        /\ challenges' \in Seq(Statuses) /\ Len(challenges') = Len(orders')
        /\ answers' \in Seq(Nat) /\ Len(answers') = Len(orders')
        /\ certs' \in Seq(Certificates)
    BY <2>1, <2>2 DEF ServerTyped, TablesKept
  <2> QED
    BY <1>2, <2>1, <2>4, <2>6, <2>7, GrantKept
<1> QED
  BY <1>1, <1>2 DEF HandleLookup, HandleCert

\* The account a request names is its sender's.
LEMMA Owner ==
    ASSUME TypeOK, NEW r \in Requests, VerifyAccount(r)
    PROVE  /\ r.from \in Clients /\ r.kid \in DOMAIN account_jwks /\ account_jwks[r.kid] = r.from
           /\ r.kid \in Nat /\ DOMAIN account_jwks = 1..Len(account_jwks)
BY DEF TypeOK, VerifyAccount, Requests

\* handle_new_account: an account more for the client.
LEMMA NewAccountKept ==
    ASSUME IndInv, NEW r \in Requests, RequestOK(r), r.live => r \in wire, HandleNewAccount(r)
    PROVE  IndInv'
<1>1. CASE Refuse(r)
  BY <1>1, RefuseKept
<1>2. CASE ~Refuse(r)
  <2> DEFINE n == Len(account_jwks) + 1
  <2>1. TypeOK /\ ServerTyped /\ r.from \in Clients
    BY TypedAgain DEF IndInv, Requests
  <2>2. /\ NonceFresh(r) /\ Grant(r, n) /\ account_jwks' = Append(account_jwks, r.from)
        /\ orders' = orders /\ authzs' = authzs /\ challenges' = challenges
        /\ certs' = certs /\ answers' = answers
    BY <1>2 DEF HandleNewAccount
  <2>3. /\ n \in Nat /\ account_jwks' \in Seq(Clients)
        /\ DOMAIN account_jwks = 1..Len(account_jwks) /\ DOMAIN account_jwks' = 1..n
        /\ account_jwks'[n] = r.from
        /\ \A a \in DOMAIN account_jwks : account_jwks'[a] = account_jwks[a]
        /\ \A a \in DOMAIN account_jwks' : a \in DOMAIN account_jwks \/ a = n
        /\ DOMAIN account_jwks \subseteq DOMAIN account_jwks'
    BY <2>1, <2>2 DEF ServerTyped
  <2> HIDE DEF n
  <2>4. minted' \in [Clients -> Nat] /\ \A c \in Clients : minted[c] <= minted'[c]
    BY <2>1, <2>2, MintedNext DEF Grant, NoncesAfter
  <2>5. \A o \in DOMAIN orders : /\ orders[o].account \in DOMAIN account_jwks
                                 /\ account_jwks'[orders[o].account] = account_jwks[orders[o].account]
                                 /\ account_jwks[orders[o].account] \in Clients
    BY <2>1, <2>3 DEF IndInv, OrderInv, ServerTyped
  <2>6. ASSUME NEW o \in DOMAIN orders' PROVE OrderInv(o)'
    <3>1. OrderInv(o) /\ answers[o] \in Nat /\ o \in DOMAIN orders
      BY <2>1, <2>2, <2>6 DEF IndInv, ServerTyped
    <3>2. minted[account_jwks[orders[o].account]] \in Nat
      BY <2>1, <2>5, <3>1 DEF ServerTyped
    <3>3. answers[o] <= minted'[account_jwks'[orders[o].account]]
      BY <2>4, <2>5, <3>1, <3>2 DEF OrderInv
    <3> QED
      BY <2>2, <2>3, <3>1, <3>3 DEF OrderInv, CertsOf
  <2>7. \A k \in DOMAIN certs' : CertInv(k)'
    BY <2>2, <2>5 DEF IndInv, CertInv
  <2>8. ASSUME NEW c \in Clients
        PROVE  /\ Effects(c)' \in Nat
               /\ Effects(c)' <= Effects(c) + (IF c = r.from THEN 1 ELSE 0)
    <3>1. OrdersOf(c)' = OrdersOf(c) /\ IssuedTo(c)' = IssuedTo(c)
      <4>1. OrdersOf(c)' = OrdersOf(c)
        BY <2>2, <2>5 DEF OrdersOf
      <4> QED
        BY <2>2, <4>1 DEF IssuedTo
    <3>2. MetBy(c)' \subseteq MetBy(c)
      BY <2>2, <2>8, <3>1, MetSame
    <3>3. Effects(c) \in Nat
      BY <2>1, <2>8, EffectsTyped
    <3>4. CASE c = r.from
      <4>1. AccountsOf(c)' \subseteq AccountsOf(c) \cup {n}
        BY <2>3 DEF AccountsOf
      <4> QED
        BY <2>1, <2>8, <3>1, <3>2, <3>4, <4>1, OneEffect
    <3>5. CASE c # r.from
      <4>1. AccountsOf(c)' \subseteq AccountsOf(c)
        BY <2>3, <3>5 DEF AccountsOf
      <4>2. Effects(c)' \in Nat /\ Effects(c)' <= Effects(c)
        BY <2>1, <2>8, <3>1, <3>2, <4>1, NoEffect
      <4> QED
        BY <3>3, <3>5, <4>2
    <3> QED
      BY <3>4, <3>5
  <2>9. /\ orders' \in Seq(Orders)
        /\ authzs' \in Seq(Statuses) /\ Len(authzs') = Len(orders')
        /\ challenges' \in Seq(Statuses) /\ Len(challenges') = Len(orders')
        /\ answers' \in Seq(Nat) /\ Len(answers') = Len(orders')
        /\ certs' \in Seq(Certificates)
    BY <2>1, <2>2 DEF ServerTyped
  <2> QED
    BY <2>2, <2>3, <2>6, <2>7, <2>8, <2>9, GrantKept
<1> QED
  BY <1>1, <1>2

\* handle_new_order: an order more for the client, nothing issued or met.
LEMMA NewOrderKept ==
    ASSUME IndInv, NEW r \in Requests, RequestOK(r), r.live => r \in wire, HandleNewOrder(r)
    PROVE  IndInv'
<1>1. CASE Refuse(r)
  BY <1>1, RefuseKept
<1>2. CASE ~Refuse(r)
  <2> DEFINE n == Len(orders) + 1
             new == [identifier |-> r.identifier, account |-> r.kid, status |-> "pending",
                     certificate |-> None]
  <2>1. TypeOK /\ ServerTyped
    BY TypedAgain DEF IndInv
  <2>2. /\ NonceFresh(r) /\ VerifyAccount(r) /\ Grant(r, n)
        /\ orders' = Append(orders, new)
        /\ authzs' = Append(authzs, "pending") /\ challenges' = Append(challenges, "pending")
        /\ answers' = Append(answers, 0)
        /\ certs' = certs /\ account_jwks' = account_jwks
    BY <1>2 DEF HandleNewOrder
  <2>3. /\ r.from \in Clients /\ r.kid \in DOMAIN account_jwks /\ account_jwks[r.kid] = r.from
        /\ r.kid \in Nat
    BY <2>1, <2>2, Owner
  <2>4. r.identifier \in Nids
    BY <1>2 DEF HandleNewOrder, RequestOK
  <2>5. new \in Orders
    BY <2>3, <2>4 DEF Orders, Statuses, None
  <2>6. new.account = r.kid /\ new.status = "pending" /\ new.certificate = None
    OBVIOUS
  <2> HIDE DEF new
  <2>7. /\ n \in Nat /\ orders' \in Seq(Orders) /\ Len(orders') = n
        /\ DOMAIN orders = 1..Len(orders) /\ DOMAIN orders' = 1..n
        /\ orders'[n] = new
        /\ \A o \in DOMAIN orders : orders'[o] = orders[o]
    BY <2>1, <2>2, <2>5 DEF ServerTyped
  <2>8. /\ answers' \in Seq(Nat) /\ Len(answers') = n /\ answers'[n] = 0
        /\ \A o \in DOMAIN orders : answers'[o] = answers[o] /\ answers[o] \in Nat
    BY <2>1, <2>2, <2>7 DEF ServerTyped
  <2>9. /\ authzs' \in Seq(Statuses) /\ Len(authzs') = n
        /\ challenges' \in Seq(Statuses) /\ Len(challenges') = n
    BY <2>1, <2>2 DEF ServerTyped, Statuses
  <2>10. /\ \A o \in DOMAIN orders' : o \in DOMAIN orders \/ o = n
         /\ DOMAIN orders \subseteq DOMAIN orders' /\ n \notin DOMAIN orders
    BY <2>7
  <2> HIDE DEF n
  <2>11. /\ minted' \in [Clients -> Nat]
         /\ \A c \in Clients : minted[c] <= minted'[c] /\ minted[c] \in Nat
    BY <2>1, <2>2, MintedNext DEF Grant, NoncesAfter
  <2>12. \A k \in DOMAIN certs : certs[k].order \in DOMAIN orders
    BY DEF IndInv, CertInv
  <2>13. ASSUME NEW o \in DOMAIN orders' PROVE OrderInv(o)'
    <3>1. CASE o = n
      <4>1. {k \in DOMAIN certs' : certs'[k].order = o} = {}
        BY <2>2, <2>10, <2>12, <3>1
      <4>2. CertsOf(o)' = 0
        BY <4>1, FS_EmptySet DEF CertsOf
      <4>3. minted'[r.from] \in Nat
        BY <2>3, <2>11
      <4> QED
        BY <2>2, <2>3, <2>6, <2>7, <2>8, <3>1, <4>2, <4>3 DEF OrderInv
    <3>2. CASE o \in DOMAIN orders
      <4>1. OrderInv(o)
        BY <3>2 DEF IndInv
      <4>2. account_jwks[orders[o].account] \in Clients
        BY <2>1, <4>1 DEF OrderInv, ServerTyped
      <4>3. answers[o] <= minted'[account_jwks[orders[o].account]]
        BY <2>8, <2>11, <3>2, <4>1, <4>2 DEF OrderInv
      <4>4. CertsOf(o)' = CertsOf(o)
        BY <2>2 DEF CertsOf
      <4> QED
        BY <2>2, <2>7, <2>8, <3>2, <4>1, <4>3, <4>4 DEF OrderInv
    <3> QED
      BY <2>10, <3>1, <3>2
  <2>14. \A k \in DOMAIN certs' : CertInv(k)'
    BY <2>2, <2>7, <2>10 DEF IndInv, CertInv
  <2>15. ASSUME NEW c \in Clients
         PROVE  /\ Effects(c)' \in Nat
                /\ Effects(c)' <= Effects(c) + (IF c = r.from THEN 1 ELSE 0)
    <3>1. AccountsOf(c)' = AccountsOf(c)
      BY <2>2 DEF AccountsOf
    <3>2. \A o \in OrdersOf(c)' : (o \in OrdersOf(c) /\ o \in DOMAIN orders) \/ (o = n /\ c = r.from)
      BY <2>2, <2>3, <2>6, <2>7, <2>10 DEF OrdersOf
    <3>7. IssuedTo(c)' \subseteq IssuedTo(c)
      BY <2>2, <2>10, <2>12, <3>2 DEF IssuedTo
    <3>3. MetBy(c)' \subseteq MetBy(c)
      BY <2>8, <2>15, <3>2, MetSame
    <3>4. Effects(c) \in Nat
      BY <2>1, <2>15, EffectsTyped
    <3>5. CASE c = r.from
      <4>1. OrdersOf(c)' \subseteq OrdersOf(c) \cup {n}
        BY <3>2
      <4> QED
        BY <2>1, <2>15, <3>1, <3>3, <3>5, <3>7, <4>1, OneEffect
    <3>6. CASE c # r.from
      <4>1. OrdersOf(c)' \subseteq OrdersOf(c)
        BY <3>2, <3>6
      <4>2. Effects(c)' \in Nat /\ Effects(c)' <= Effects(c)
        BY <2>1, <2>15, <3>1, <3>3, <3>7, <4>1, NoEffect
      <4> QED
        BY <3>4, <3>6, <4>2
    <3> QED
      BY <3>5, <3>6
  <2>16. account_jwks' \in Seq(Clients) /\ certs' \in Seq(Certificates)
    BY <2>1, <2>2 DEF ServerTyped
  <2> QED
    BY <2>2, <2>7, <2>8, <2>9, <2>13, <2>14, <2>15, <2>16, GrantKept
<1> QED
  BY <1>1, <1>2

\* An order with another status, is an order.
LEMMA OrderUpdated ==
    ASSUME NEW x \in Orders, NEW status \in Statuses, NEW y, y = [x EXCEPT !.status = status]
    PROVE  /\ y \in Orders /\ y.status = status /\ y.account = x.account
           /\ y.identifier = x.identifier /\ y.certificate = x.certificate
BY DEF Orders

\* A sequence with one entry replaced.
LEMMA EntryReplaced ==
    ASSUME NEW S, NEW s \in Seq(S), NEW i \in DOMAIN s, NEW v \in S, NEW t, t = [s EXCEPT ![i] = v]
    PROVE  /\ t \in Seq(S) /\ Len(t) = Len(s) /\ DOMAIN t = DOMAIN s
           /\ t[i] = v /\ \A j \in DOMAIN s \ {i} : t[j] = s[j]
<1>1. s \in [1..Len(s) -> S] /\ Len(s) \in Nat /\ DOMAIN s = 1..Len(s)
  OBVIOUS
<1>2. t \in [1..Len(s) -> S]
  BY <1>1
<1>3. t \in Seq(S)
  BY <1>1, <1>2
<1> QED
  BY <1>1, <1>2, <1>3

LEMMA OrderReplaced ==
    ASSUME TypeOK, NEW o \in DOMAIN orders, NEW new \in Orders, orders' = [orders EXCEPT ![o] = new]
    PROVE  /\ orders' \in Seq(Orders) /\ Len(orders') = Len(orders)
           /\ DOMAIN orders' = DOMAIN orders
           /\ orders'[o] = new /\ \A x \in DOMAIN orders \ {o} : orders'[x] = orders[x]
<1>1. orders \in [1..Len(orders) -> Orders] /\ Len(orders) \in Nat /\ DOMAIN orders = 1..Len(orders)
  BY DEF TypeOK
<1>2. orders' \in [1..Len(orders) -> Orders]
  BY <1>1
<1>3. orders' \in Seq(Orders)
  BY <1>1, <1>2
<1> QED
  BY <1>1, <1>2, <1>3

\* The certificates of an order can be counted.
LEMMA CertsCounted ==
    ASSUME TypeOK, NEW o
    PROVE  /\ IsFiniteSet({k \in DOMAIN certs : certs[k].order = o}) /\ CertsOf(o) \in Nat
<1>1. DOMAIN certs = 1..Len(certs) /\ Len(certs) \in Nat
  BY DEF TypeOK
<1>2. IsFiniteSet(DOMAIN certs)
  BY <1>1, FiniteUpTo
<1>3. {k \in DOMAIN certs : certs[k].order = o} \subseteq DOMAIN certs
  OBVIOUS
<1> QED
  BY <1>2, <1>3, NoMore DEF CertsOf

\* handle_challenge: the order is ready once more, at the price of a signature.
LEMMA ChallengeMetKept ==
    ASSUME IndInv, NEW r \in Requests, RequestOK(r), r.live => r \in wire,
           NonceFresh(r), VerifyAccount(r), OwnsOrder(r), Grant(r, r.order),
           challenges' = [challenges EXCEPT ![r.order] = "valid"],
           authzs' = [authzs EXCEPT ![r.order] = "valid"],
           orders' = [orders EXCEPT ![r.order].status = "ready"],
           answers' = [answers EXCEPT ![r.order] = @ + 1],
           account_jwks' = account_jwks, certs' = certs
    PROVE  IndInv'
<1>1. TypeOK /\ ServerTyped
  BY TypedAgain DEF IndInv
<1>2. /\ r.from \in Clients /\ r.kid \in DOMAIN account_jwks /\ account_jwks[r.kid] = r.from
      /\ r.order \in DOMAIN orders /\ orders[r.order].account = r.kid /\ r.order \in Nat
  BY <1>1, Owner DEF OwnsOrder, Requests
<1>3. PICK o : o = r.order
  OBVIOUS
<1>4. PICK new : new = [orders[o] EXCEPT !.status = "ready"]
  OBVIOUS
<1>5. orders[o] \in Orders /\ o \in DOMAIN orders
  BY <1>1, <1>2, <1>3 DEF ServerTyped
<1>6. /\ new \in Orders /\ new.account = orders[o].account
      /\ new.identifier = orders[o].identifier /\ new.certificate = orders[o].certificate
  <2>1. "ready" \in Statuses /\ 0 \in Nat
    BY DEF Statuses
  <2> QED
    BY <1>4, <1>5, <2>1, OrderUpdated
<1>7. orders' = [orders EXCEPT ![o] = new]
  BY <1>3, <1>4
<1>8. /\ orders' \in Seq(Orders) /\ Len(orders') = Len(orders) /\ DOMAIN orders' = DOMAIN orders
      /\ orders'[o] = new /\ \A x \in DOMAIN orders \ {o} : orders'[x] = orders[x]
  BY <1>1, <1>5, <1>6, <1>7, OrderReplaced
<1>9. \A x \in DOMAIN orders : /\ orders'[x].account = orders[x].account
                               /\ orders'[x].identifier = orders[x].identifier
                               /\ orders'[x].certificate = orders[x].certificate
  BY <1>6, <1>8
<1>10. /\ challenges' \in Seq(Statuses) /\ Len(challenges') = Len(orders)
       /\ authzs' \in Seq(Statuses) /\ Len(authzs') = Len(orders)
  <2>1. /\ challenges \in Seq(Statuses) /\ authzs \in Seq(Statuses)
        /\ DOMAIN challenges = DOMAIN orders /\ DOMAIN authzs = DOMAIN orders
        /\ Len(challenges) = Len(orders) /\ Len(authzs) = Len(orders)
    BY <1>1 DEF ServerTyped
  <2>2. "valid" \in Statuses /\ o \in DOMAIN challenges /\ o \in DOMAIN authzs
    BY <1>5, <2>1 DEF Statuses
  <2> QED
    BY <1>3, <2>1, <2>2, EntryReplaced
<1>11. /\ answers' \in Seq(Nat) /\ Len(answers') = Len(orders)
       /\ \A x \in DOMAIN orders :
             answers[x] \in Nat /\ answers'[x] = IF x = o THEN answers[x] + 1 ELSE answers[x]
  <2>1. answers \in Seq(Nat) /\ DOMAIN answers = DOMAIN orders /\ Len(answers) = Len(orders)
    BY <1>1 DEF ServerTyped
  <2>2. PICK v : v = answers[o] + 1
    OBVIOUS
  <2>3. v \in Nat /\ o \in DOMAIN answers /\ answers' = [answers EXCEPT ![o] = v]
    BY <1>3, <1>5, <2>1, <2>2
  <2> QED
    BY <2>1, <2>2, <2>3, EntryReplaced
<1>12. /\ minted' \in [Clients -> Nat] /\ minted'[r.from] = minted[r.from] + 1
       /\ \A c \in Clients : minted[c] <= minted'[c] /\ minted[c] \in Nat
  BY <1>1, MintedNext DEF Grant, NoncesAfter
<1>13. ASSUME NEW x \in DOMAIN orders' PROVE OrderInv(x)'
  <2>1. OrderInv(x) /\ x \in DOMAIN orders
    BY <1>8, <1>13 DEF IndInv
  <2>2. CertsOf(x)' = CertsOf(x) /\ CertsOf(x) \in Nat /\ answers[x] \in Nat
    BY <1>1, <1>11, <2>1, CertsCounted DEF CertsOf
  <2>3. account_jwks[orders[x].account] \in Clients
    BY <1>1, <2>1 DEF OrderInv, ServerTyped
  <2>4. CASE x = o
    <3>1. answers'[x] = answers[x] + 1 /\ account_jwks[orders[x].account] = r.from
      BY <1>2, <1>3, <1>11, <2>1, <2>4
    <3>2. answers[x] <= minted[r.from] /\ minted[r.from] \in Nat
      BY <1>2, <1>12, <2>1, <3>1 DEF OrderInv
    <3>3. answers'[x] <= minted'[r.from] /\ CertsOf(x)' <= answers'[x] /\ CertsOf(x)' < answers'[x]
      BY <1>12, <2>1, <2>2, <3>1, <3>2 DEF OrderInv
    <3> QED
      BY <1>9, <2>1, <3>1, <3>3 DEF OrderInv
  <2>5. CASE x # o
    <3>1. answers'[x] = answers[x] /\ orders'[x] = orders[x]
      BY <1>8, <1>11, <2>1, <2>5
    <3>2. answers[x] <= minted'[account_jwks[orders[x].account]]
      BY <1>12, <2>1, <2>2, <2>3 DEF OrderInv
    <3> QED
      BY <2>1, <2>2, <3>1, <3>2 DEF OrderInv
  <2> QED
    BY <2>4, <2>5
<1>14. \A k \in DOMAIN certs' : CertInv(k)'
  BY <1>8, <1>9 DEF IndInv, CertInv
<1>15. ASSUME NEW c \in Clients
       PROVE  /\ Effects(c)' \in Nat
              /\ Effects(c)' <= Effects(c) + (IF c = r.from THEN 1 ELSE 0)
  <2>1. /\ AccountsOf(c)' = AccountsOf(c) /\ IssuedTo(c)' = IssuedTo(c)
        /\ OrdersOf(c)' = OrdersOf(c) /\ OrdersOf(c) \subseteq DOMAIN orders
    <3>1. OrdersOf(c)' = OrdersOf(c) /\ OrdersOf(c) \subseteq DOMAIN orders
      BY <1>8, <1>9 DEF OrdersOf
    <3> QED
      BY <3>1 DEF AccountsOf, IssuedTo
  <2>2. Effects(c) \in Nat
    BY <1>1, <1>15, EffectsTyped
  <2>3. CASE c = r.from
    <3>1. MetBy(c)' \subseteq MetBy(c) \cup {<<o, answers[o] + 1>>}
      BY <1>5, <1>11, <1>15, <2>1, MetOnce
    <3> QED
      BY <1>1, <1>15, <2>1, <2>3, <3>1, OneEffect
  <2>4. CASE c # r.from
    <3>1. o \notin OrdersOf(c)
      BY <1>2, <1>3, <2>4 DEF OrdersOf
    <3>2. MetBy(c)' \subseteq MetBy(c)
      BY <1>11, <1>15, <2>1, <3>1, MetSame
    <3>3. Effects(c)' \in Nat /\ Effects(c)' <= Effects(c)
      BY <1>1, <1>15, <2>1, <3>2, NoEffect
    <3> QED
      BY <2>2, <2>4, <3>3
  <2> QED
    BY <2>3, <2>4
<1>16. account_jwks' \in Seq(Clients) /\ certs' \in Seq(Certificates)
  BY <1>1 DEF ServerTyped
<1> QED
  BY <1>2, <1>8, <1>10, <1>11, <1>13, <1>14, <1>15, <1>16, GrantKept

LEMMA ChallengeKept ==
    ASSUME IndInv, NEW r \in Requests, RequestOK(r), r.live => r \in wire, HandleChallenge(r)
    PROVE  IndInv'
<1>1. CASE Refuse(r)
  BY <1>1, RefuseKept
<1>2. CASE /\ OwnsOrder(r) /\ challenges' = [challenges EXCEPT ![r.order] = "invalid"]
           /\ nonces' = NoncesAfter(r) /\ Respond(r, Problem)
           /\ UNCHANGED <<minted, account_jwks, orders, authzs, certs, answers, client>>
  <2>1. challenges' \in Seq(Statuses) /\ Len(challenges') = Len(challenges)
    <3>1. challenges \in Seq(Statuses) /\ r.order \in DOMAIN challenges
      BY <1>2 DEF IndInv, TypeOK, OwnsOrder
    <3>2. "invalid" \in Statuses
      BY DEF Statuses
    <3> QED
      BY <1>2, <3>1, <3>2, EntryReplaced
  <2> QED
    BY <1>2, <2>1, RefusalKept DEF TablesKept
<1>3. CASE /\ NonceFresh(r) /\ VerifyAccount(r) /\ OwnsOrder(r) /\ r.signature = "good"
  BY <1>3, ChallengeMetKept DEF HandleChallenge
<1> QED
  BY <1>1, <1>2, <1>3 DEF HandleChallenge

\* handle_finalize: the certificate uses up the order's readiness.
LEMMA IssueKept ==
    ASSUME IndInv, NEW r \in Requests, RequestOK(r), r.live => r \in wire,
           NonceFresh(r), VerifyAccount(r), OwnsOrder(r), FinalizeReady(r), CsrAccepted(r),
           Grant(r, Len(certs) + 1),
           certs' = Append(certs, [order |-> r.order, key |-> r.csr_key, subject |-> r.identifier]),
           orders' = [orders EXCEPT ![r.order].status = "valid",
                                    ![r.order].certificate = Len(certs) + 1],
           account_jwks' = account_jwks, authzs' = authzs, challenges' = challenges,
           answers' = answers
    PROVE  IndInv'
<1>1. TypeOK /\ ServerTyped
  BY TypedAgain DEF IndInv
<1>2. /\ r.from \in Clients /\ r.kid \in DOMAIN account_jwks /\ account_jwks[r.kid] = r.from
      /\ r.order \in DOMAIN orders /\ orders[r.order].account = r.kid /\ r.order \in Nat
  BY <1>1, Owner DEF OwnsOrder, Requests
<1>3. PICK o : o = r.order
  OBVIOUS
<1>4. PICK n : n = Len(certs) + 1
  OBVIOUS
<1>5. PICK new : new = [orders[o] EXCEPT !.status = "valid", !.certificate = n]
  OBVIOUS
<1>6. PICK cert : cert = [order |-> o, key |-> r.csr_key, subject |-> r.identifier]
  OBVIOUS
<1>7. orders[o] \in Orders /\ o \in DOMAIN orders /\ n \in Nat
  BY <1>1, <1>2, <1>3, <1>4 DEF ServerTyped
<1>8. /\ new \in Orders /\ new.account = orders[o].account /\ new.status = "valid"
      /\ new.identifier = orders[o].identifier /\ new.certificate = n
  <2>1. "valid" \in Statuses
    BY DEF Statuses
  <2>2. new \in Orders /\ new.status = "valid"
    BY <1>5, <1>7, <2>1 DEF Orders
  <2> QED
    BY <1>5, <1>7, <2>2 DEF Orders
<1>9. orders' = [orders EXCEPT ![o] = new]
  BY <1>3, <1>4, <1>5, <1>7
<1>10. /\ orders' \in Seq(Orders) /\ Len(orders') = Len(orders) /\ DOMAIN orders' = DOMAIN orders
       /\ orders'[o] = new /\ \A x \in DOMAIN orders \ {o} : orders'[x] = orders[x]
  BY <1>1, <1>7, <1>8, <1>9, OrderReplaced
<1>11. \A x \in DOMAIN orders : /\ orders'[x].account = orders[x].account
                                /\ orders'[x].identifier = orders[x].identifier
  BY <1>8, <1>10
<1>12. /\ cert \in Certificates /\ cert.order = o /\ cert.subject = orders[o].identifier
       /\ r.from \in AcmeClients => cert.key = r.from
  BY <1>2, <1>3, <1>6, <1>7 DEF Certificates, Orders, CsrAccepted, RequestOK
<1>13. /\ certs' \in Seq(Certificates) /\ DOMAIN certs' = DOMAIN certs \cup {n}
       /\ n \notin DOMAIN certs /\ certs'[n] = cert
       /\ \A k \in DOMAIN certs : certs'[k] = certs[k]
  <2>1. certs \in Seq(Certificates) /\ certs' = Append(certs, cert)
    BY <1>1, <1>3, <1>6 DEF ServerTyped
  <2> QED
    BY <1>4, <1>12, <2>1
<1>14. /\ minted' \in [Clients -> Nat]
       /\ \A c \in Clients : minted[c] <= minted'[c] /\ minted[c] \in Nat
  BY <1>1, MintedNext DEF Grant, NoncesAfter
<1>15. ASSUME NEW x \in DOMAIN orders' PROVE OrderInv(x)'
  <2>1. OrderInv(x) /\ x \in DOMAIN orders
    BY <1>10, <1>15 DEF IndInv
  <2>2. CertsOf(x) \in Nat /\ answers[x] \in Nat
    <3>1. answers[x] \in Nat
      BY <1>1, <2>1 DEF ServerTyped
    <3> QED
      BY <1>1, <3>1, CertsCounted
  <2>3. account_jwks[orders[x].account] \in Clients
    BY <1>1, <2>1 DEF OrderInv, ServerTyped
  <2>4. answers'[x] <= minted'[account_jwks'[orders'[x].account]]
    BY <1>11, <1>14, <2>1, <2>2, <2>3 DEF OrderInv
  <2>5. CASE x = o
    <3>1. {k \in DOMAIN certs' : certs'[k].order = x}
             = {k \in DOMAIN certs : certs[k].order = x} \cup {n}
      BY <1>12, <1>13, <2>5
    <3>2. n \notin {k \in DOMAIN certs : certs[k].order = x}
      BY <1>13
    <3>3. CertsOf(x)' = CertsOf(x) + 1
      <4>1. IsFiniteSet({k \in DOMAIN certs : certs[k].order = x})
        BY <1>1, CertsCounted
      <4>2. Cardinality({k \in DOMAIN certs : certs[k].order = x} \cup {n})
               = Cardinality({k \in DOMAIN certs : certs[k].order = x}) + 1
        BY <3>2, <4>1, FS_AddElement
      <4> QED
        BY <3>1, <4>2 DEF CertsOf
    <3>4. CertsOf(x) < answers[x]
      BY <1>3, <2>1, <2>5 DEF OrderInv, FinalizeReady
    <3>5. CertsOf(x)' <= answers'[x]
      BY <2>2, <3>3, <3>4
    <3> QED
      BY <1>8, <1>10, <1>12, <1>13, <2>1, <2>4, <2>5, <3>5 DEF OrderInv
  <2>6. CASE x # o
    <3>1. {k \in DOMAIN certs' : certs'[k].order = x} = {k \in DOMAIN certs : certs[k].order = x}
      BY <1>12, <1>13, <2>6
    <3>2. CertsOf(x)' = CertsOf(x) /\ orders'[x] = orders[x]
      BY <1>10, <2>1, <2>6, <3>1 DEF CertsOf
    <3> QED
      BY <1>13, <2>1, <2>4, <3>2 DEF OrderInv
  <2> QED
    BY <2>5, <2>6
<1>16. ASSUME NEW k \in DOMAIN certs' PROVE CertInv(k)'
  <2>1. CASE k = n
    BY <1>2, <1>3, <1>7, <1>8, <1>10, <1>12, <1>13, <2>1 DEF CertInv
  <2>2. CASE k \in DOMAIN certs
    <3>1. CertInv(k)
      BY <2>2 DEF IndInv
    <3> QED
      BY <1>10, <1>11, <1>13, <2>2, <3>1, SMTT(20) DEF CertInv
  <2> QED
    BY <1>13, <1>16, <2>1, <2>2
<1>17. ASSUME NEW c \in Clients
       PROVE  /\ Effects(c)' \in Nat
              /\ Effects(c)' <= Effects(c) + (IF c = r.from THEN 1 ELSE 0)
  <2>1. AccountsOf(c)' = AccountsOf(c) /\ OrdersOf(c)' = OrdersOf(c)
    BY <1>10, <1>11 DEF AccountsOf, OrdersOf
  <2>2. Effects(c) \in Nat
    BY <1>1, <1>17, EffectsTyped
  <2>3. MetBy(c)' \subseteq MetBy(c)
    BY <1>17, <2>1, MetSame
  <2>4. CASE c = r.from
    <3>1. IssuedTo(c)' \subseteq IssuedTo(c) \cup {n}
      BY <1>13, <2>1 DEF IssuedTo
    <3> QED
      BY <1>1, <1>17, <2>1, <2>3, <2>4, <3>1, OneEffect
  <2>5. CASE c # r.from
    <3>1. o \notin OrdersOf(c)
      BY <1>2, <1>3, <2>5 DEF OrdersOf
    <3>2. IssuedTo(c)' \subseteq IssuedTo(c)
      BY <1>12, <1>13, <2>1, <3>1 DEF IssuedTo
    <3>3. Effects(c)' \in Nat /\ Effects(c)' <= Effects(c)
      BY <1>1, <1>17, <2>1, <2>3, <3>2, NoEffect
    <3> QED
      BY <2>2, <2>5, <3>3
  <2> QED
    BY <2>4, <2>5
<1>18. /\ account_jwks' \in Seq(Clients)
       /\ challenges' \in Seq(Statuses) /\ Len(challenges') = Len(orders')
       /\ authzs' \in Seq(Statuses) /\ Len(authzs') = Len(orders')
       /\ answers' \in Seq(Nat) /\ Len(answers') = Len(orders')
  BY <1>1, <1>10 DEF ServerTyped
<1>19. Grant(r, n)
  BY <1>4
<1> QED
  BY <1>7, <1>10, <1>13, <1>15, <1>16, <1>17, <1>18, <1>19, GrantKept

LEMMA FinalizeKept ==
    ASSUME IndInv, NEW r \in Requests, RequestOK(r), r.live => r \in wire, HandleFinalize(r)
    PROVE  IndInv'
<1>1. CASE Refuse(r)
  BY <1>1, RefuseKept
<1>2. CASE ~Refuse(r)
  BY <1>2, IssueKept DEF HandleFinalize
<1> QED
  BY <1>1, <1>2

LEMMA HandleKept ==
    ASSUME IndInv, NEW r \in Requests, RequestOK(r), r.live => r \in wire, HandleRequest(r)
    PROVE  IndInv'
BY NewNonceKept, NewAccountKept, NewOrderKept, LookupsKept, ChallengeKept, FinalizeKept
   DEF HandleRequest

\* What another client sends is a request, of its own.
LEMMA OtherRequestsOK ==
    ASSUME IndInv, NEW c \in OtherClients, NEW r \in OtherRequests(c)
    PROVE  r \in Requests /\ RequestOK(r) /\ ~r.live
<1> DEFINE nonce == <<c, minted[c]>>
           mine == {a \in DOMAIN account_jwks : account_jwks[a] = c}
           kid == IF mine = {} THEN None ELSE CHOOSE a \in mine : TRUE
<1>1. c \in Clients /\ nonce \in Nonces /\ nonce[1] = c
  BY DEF IndInv, TypeOK, Clients, Nonces
<1>2. kid \in Nat
  <2>1. mine \subseteq Nat
    BY DEF IndInv, TypeOK
  <2>2. mine # {} => (CHOOSE a \in mine : TRUE) \in mine
    OBVIOUS
  <2> QED
    BY <2>1, <2>2 DEF None
<1>3. DOMAIN orders \subseteq Nat /\ DOMAIN certs \subseteq Nat
  BY DEF IndInv, TypeOK
<1>4. PICK kind, about, n, s, k :
         /\ r = [from |-> c, live |-> FALSE, kind |-> kind, nonce |-> nonce, kid |-> kid,
                 order |-> about, identifier |-> n, signature |-> s, csr_key |-> k]
         /\ kind \in {"new_nonce", "new_order", "new_account", "order", "challenge", "finalize", "cert"}
         /\ about \in Nat /\ n \in Nids \cup {None} /\ s \in {"good", "bad"}
         /\ k \in Clients \cup {None}
         /\ kind = "new_order" => n \in Nids
  <2> HIDE DEF nonce, kid
  <2> DEFINE AskFor(kind, about, n, s, k) ==
               [from |-> c, live |-> FALSE, kind |-> kind, nonce |-> nonce, kid |-> kid,
                order |-> about, identifier |-> n, signature |-> s, csr_key |-> k]
             Ask(kind, about, n, s) == AskFor(kind, about, n, s, None)
  <2>1. \/ r \in {Ask("new_nonce", None, None, "bad")}
        \/ r \in {Ask("new_order", None, n, "bad") : n \in Nids}
        \/ r \in {Ask("new_account", None, None, "bad")}
        \/ r \in {Ask("order", o, None, "bad") : o \in DOMAIN orders}
        \/ r \in {Ask("challenge", o, None, s) : o \in DOMAIN orders, s \in {"good", "bad"}}
        \/ r \in {AskFor("finalize", o, n, "bad", k) :
                    o \in DOMAIN orders, n \in Nids \cup {None}, k \in Clients \cup {None}}
        \/ r \in {Ask("cert", k, None, "bad") : k \in DOMAIN certs}
    BY DEF OtherRequests, nonce, kid
  <2>2. None \in Nat
    BY DEF None
  <2> QED
    BY <1>3, <2>1, <2>2
<1> HIDE DEF nonce, kid
<1>5. r \in Requests
  BY <1>1, <1>2, <1>4 DEF Requests, Stages
<1> QED
  BY <1>1, <1>4, <1>5, AcmeAssumption DEF RequestOK

-----------------------------------------------------------------------------
(* The steps of an AcmeClient.                                              *)

LEMMA ServerSame ==
    ASSUME IndInv, UNCHANGED server
    PROVE  ServerTyped' /\ ServerInv'
<1>1. ServerTyped /\ ServerInv
  BY TypedAgain DEF IndInv, ServerInv
<1>2. ServerTyped'
  BY <1>1 DEF ServerTyped, server
<1>3. /\ minted' = minted /\ nonces' = nonces /\ account_jwks' = account_jwks /\ orders' = orders
      /\ certs' = certs /\ answers' = answers
  BY DEF server
<1>4. (\A o \in DOMAIN orders' : OrderInv(o)') /\ (\A k \in DOMAIN certs' : CertInv(k)')
  BY <1>1, <1>3 DEF ServerInv, OrderInv, CertInv, CertsOf
<1>5. ASSUME NEW c \in Clients PROVE Effects(c)' <= Spent(c)'
  <2>1. AccountsOf(c)' = AccountsOf(c) /\ OrdersOf(c)' = OrdersOf(c) /\ IssuedTo(c)' = IssuedTo(c)
    BY <1>3 DEF AccountsOf, OrdersOf, IssuedTo
  <2>2. MetBy(c)' = MetBy(c)
    BY <1>3, <2>1 DEF MetBy
  <2>3. Effects(c)' = Effects(c)
    BY <2>1, <2>2 DEF Effects
  <2>4. Spent(c)' = Spent(c)
    BY <1>3 DEF Spent, Held
  <2> QED
    BY <1>1, <1>5, <2>3, <2>4 DEF ServerInv, PaidFor
<1> QED
  BY <1>2, <1>4, <1>5 DEF ServerInv, PaidFor

\* What a step of a client has to show: the types of what it changes, and that
\* it is left with at most one request out.
LEMMA ClientKept ==
    ASSUME IndInv, UNCHANGED server, NEW c \in AcmeClients,
           wire' \subseteq Requests, \A r \in wire' : RequestOK(r),
           reply' \in [AcmeClients -> Replies],
           pc' \in [AcmeClients -> Stages \cup {"idle", "done", "failed"}],
           last_nonce' \in [AcmeClients -> Nonces],
           account_url' \in [AcmeClients -> Nat], order' \in [AcmeClients -> Nat],
           nid' \in [AcmeClients -> Nids],
           ClientInv(c)',
           \A d \in AcmeClients \ {c} :
              /\ reply'[d] = reply[d] /\ pc'[d] = pc[d] /\ last_nonce'[d] = last_nonce[d]
              /\ Live(d)' = Live(d)
    PROVE  IndInv'
<1>1. ServerTyped' /\ ServerInv'
  BY ServerSame
<1>2. TypeOK'
  BY <1>1 DEF TypeOK, ServerTyped
<1>3. ASSUME NEW d \in AcmeClients, d # c PROVE ClientInv(d)'
  <2>1. /\ reply'[d] = reply[d] /\ pc'[d] = pc[d] /\ last_nonce'[d] = last_nonce[d]
        /\ Live(d)' = Live(d)
    BY <1>3
  <2>2. /\ Waiting(d) <=> (reply[d] # NoReply \/ Live(d) # {})
        /\ Waiting(d)' <=> (reply'[d] # NoReply \/ Live(d)' # {})
    BY DEF Waiting, Live
  <2>3. ClientInv(d)
    BY <1>3 DEF IndInv
  <2> QED
    BY <2>1, <2>2, <2>3 DEF ClientInv, NoNonce
<1>4. \A d \in AcmeClients : ClientInv(d)'
  BY <1>3
<1> QED
  BY <1>1, <1>2, <1>4 DEF IndInv, ServerInv

\* A client with nothing out is in order whatever it does next.
LEMMA IdleInv ==
    ASSUME NEW c, ~Waiting(c)', reply'[c] = NoReply, last_nonce'[c][1] = c
    PROVE  ClientInv(c)'
<1>1. Live(c)' = {}
  BY DEF Waiting, Live
<1> QED
  BY <1>1 DEF ClientInv, NoReply

LEMMA NextStageTyped ==
    ASSUME NEW c, NEW stage \in Stages
    PROVE  NextStage(c, stage) \in Stages \cup {"idle", "done", "failed"}
BY DEF NextStage, Stages

LEMMA ClientTyped ==
    IndInv => /\ wire \subseteq Requests /\ (\A r \in wire : RequestOK(r))
              /\ reply \in [AcmeClients -> Replies]
              /\ pc \in [AcmeClients -> Stages \cup {"idle", "done", "failed"}]
              /\ last_nonce \in [AcmeClients -> Nonces]
              /\ account_url \in [AcmeClients -> Nat] /\ order \in [AcmeClients -> Nat]
              /\ nid \in [AcmeClients -> Nids]
              /\ \A c \in AcmeClients : ClientInv(c)
BY DEF IndInv, TypeOK

LEMMA IssueAgentCertKept ==
    ASSUME IndInv, NEW c \in AcmeClients, NEW n \in Nids, IssueAgentCert(c, n)
    PROVE  IndInv'
<1>1. /\ UNCHANGED server /\ wire' = wire /\ reply' = reply /\ last_nonce' = last_nonce
      /\ account_url' = account_url /\ order' = order /\ nid' = [nid EXCEPT ![c] = n]
      /\ pc' = [pc EXCEPT ![c] = IF ~directory[c] THEN "directory" ELSE NextStage(c, "new_nonce")]
      /\ pc[c] \in {"idle", "done", "failed"}
  BY DEF IssueAgentCert
<1>2. ClientInv(c) /\ ~Waiting(c)
  BY <1>1, ClientTyped DEF ClientInv, Stages
<1>3. ~Waiting(c)' /\ reply'[c] = NoReply /\ last_nonce'[c][1] = c
  BY <1>1, <1>2 DEF Waiting, ClientInv
<1>4. ClientInv(c)'
  BY <1>3, IdleInv
<1>5. "new_nonce" \in Stages /\ "directory" \in Stages
  BY DEF Stages
<1>6. pc' \in [AcmeClients -> Stages \cup {"idle", "done", "failed"}]
  BY <1>1, <1>5, ClientTyped, NextStageTyped
<1>7. \A d \in AcmeClients \ {c} : pc'[d] = pc[d] /\ Live(d)' = Live(d)
  BY <1>1, ClientTyped DEF Live
<1> QED
  BY <1>1, <1>4, <1>6, <1>7, ClientTyped, ClientKept

LEMMA EnsureDirectoryKept ==
    ASSUME IndInv, NEW c \in AcmeClients, EnsureDirectory(c)
    PROVE  IndInv'
<1>1. /\ UNCHANGED server /\ wire' = wire /\ reply' = reply /\ last_nonce' = last_nonce
      /\ account_url' = account_url /\ order' = order /\ nid' = nid
      /\ pc' = [pc EXCEPT ![c] = NextStage(c, "directory")] /\ pc[c] = "directory"
  BY DEF EnsureDirectory
<1>2. ClientInv(c) /\ ~Waiting(c)
  BY <1>1, ClientTyped DEF ClientInv, Stages
<1>3. ~Waiting(c)' /\ reply'[c] = NoReply /\ last_nonce'[c][1] = c
  BY <1>1, <1>2 DEF Waiting, ClientInv
<1>4. ClientInv(c)'
  BY <1>3, IdleInv
<1>5. "directory" \in Stages
  BY DEF Stages
<1>6. pc' \in [AcmeClients -> Stages \cup {"idle", "done", "failed"}]
  BY <1>1, <1>5, ClientTyped, NextStageTyped
<1>7. \A d \in AcmeClients \ {c} : pc'[d] = pc[d] /\ Live(d)' = Live(d)
  BY <1>1, ClientTyped DEF Live
<1> QED
  BY <1>1, <1>4, <1>6, <1>7, ClientTyped, ClientKept

LEMMA ClientNoNonceKept ==
    ASSUME IndInv, NEW c \in AcmeClients, ClientNoNonce(c)
    PROVE  IndInv'
<1>1. /\ UNCHANGED server /\ wire' = wire /\ reply' = reply /\ last_nonce' = last_nonce
      /\ account_url' = account_url /\ order' = order /\ nid' = nid
      /\ pc' = [pc EXCEPT ![c] = "failed"] /\ pc[c] # "new_nonce"
      /\ last_nonce[c] = NoNonce(c)
  BY DEF ClientNoNonce
<1>2. ClientInv(c) /\ ~Waiting(c)
  BY <1>1, ClientTyped DEF ClientInv
<1>3. ~Waiting(c)' /\ reply'[c] = NoReply /\ last_nonce'[c][1] = c
  BY <1>1, <1>2 DEF Waiting, ClientInv
<1>4. ClientInv(c)'
  BY <1>3, IdleInv
<1>5. pc' \in [AcmeClients -> Stages \cup {"idle", "done", "failed"}]
  BY <1>1, ClientTyped
<1>6. \A d \in AcmeClients \ {c} : pc'[d] = pc[d] /\ Live(d)' = Live(d)
  BY <1>1, ClientTyped DEF Live
<1> QED
  BY <1>1, <1>4, <1>5, <1>6, ClientTyped, ClientKept

LEMMA ClientSendKept ==
    ASSUME IndInv, NEW c \in AcmeClients, ClientSend(c)
    PROVE  IndInv'
<1>1. PICK r : r = Request(c, pc[c], account_url[c], order[c], nid[c], "good")
  OBVIOUS
<1>2. /\ UNCHANGED server /\ wire' = wire \cup {r} /\ reply' = reply /\ last_nonce' = last_nonce
      /\ account_url' = account_url /\ order' = order /\ nid' = nid /\ pc' = pc
      /\ pc[c] \in Stages \ {"directory"} /\ ~Waiting(c)
      /\ pc[c] = "new_nonce" \/ last_nonce[c] # NoNonce(c)
  BY <1>1 DEF ClientSend, client
<1>3. /\ r.from = c /\ r.live = TRUE /\ r.kind = pc[c] /\ r.nonce = last_nonce[c]
      /\ r.kid = account_url[c] /\ r.order = order[c] /\ r.identifier = nid[c]
      /\ r.signature = "good" /\ r.csr_key = c
  BY <1>1 DEF Request
<1>4. r \in Requests
  <2>1. /\ c \in Clients /\ pc[c] \in (Stages \ {"directory"}) \cup {"order"} /\ last_nonce[c] \in Nonces
        /\ account_url[c] \in Nat /\ order[c] \in Nat /\ nid[c] \in Nids \cup {None}
    BY <1>2, ClientTyped DEF Clients
  <2> QED
    BY <1>1, <2>1 DEF Requests, Request
<1>5. ClientInv(c)
  BY ClientTyped
<1>6. RequestOK(r)
  BY <1>3, <1>5, ClientTyped DEF RequestOK, ClientInv
<1>7. reply[c] = NoReply /\ Live(c) = {}
  BY <1>2 DEF Waiting, Live
<1>8. Live(c)' = {r}
  BY <1>2, <1>3, <1>7 DEF Live
<1>9. ClientInv(c)'
  BY <1>2, <1>5, <1>7, <1>8 DEF ClientInv, NoReply, NoNonce
<1>10. \A d \in AcmeClients \ {c} : Live(d)' = Live(d)
  BY <1>2, <1>3 DEF Live
<1>11. wire' \subseteq Requests /\ \A s \in wire' : RequestOK(s)
  BY <1>2, <1>4, <1>6, ClientTyped
<1> QED
  BY <1>2, <1>9, <1>10, <1>11, ClientTyped, ClientKept

LEMMA ClientReceiveKept ==
    ASSUME IndInv, NEW c \in AcmeClients, ClientReceive(c)
    PROVE  IndInv'
<1>1. /\ UNCHANGED server /\ wire' = wire /\ reply' = [reply EXCEPT ![c] = NoReply]
      /\ nid' = nid /\ reply[c] # NoReply
  BY DEF ClientReceive
<1>2. ClientInv(c) /\ Waiting(c) /\ Live(c) = {} /\ pc[c] \in Stages
  BY <1>1, ClientTyped DEF ClientInv, Waiting
<1>3. NoReply \in Replies
  BY DEF Replies
<1>4. reply' \in [AcmeClients -> Replies] /\ reply'[c] = NoReply
      /\ \A d \in AcmeClients \ {c} : reply'[d] = reply[d]
  BY <1>1, <1>3, ClientTyped
<1>5. ~Waiting(c)'
  BY <1>1, <1>2, <1>4 DEF Waiting, Live
<1>6. reply[c].ok => reply[c].nonce \in Nonces /\ reply[c].value \in Nat /\ reply[c].nonce[1] = c
  <2>1. reply[c] \in Replies
    BY ClientTyped
  <2> QED
    <3>1. CASE reply[c] \in {NoReply, Problem}
      <4>1. reply[c].ok = FALSE
        BY <3>1 DEF NoReply, Problem
      <4> QED
        BY <4>1
    <3>2. CASE reply[c] \in [ok : {TRUE}, none : {FALSE}, nonce : Nonces, value : Nat]
      BY <1>2, <3>2 DEF ClientInv
    <3> QED
      BY <2>1, <3>1, <3>2 DEF Replies
<1>7. /\ pc' \in [AcmeClients -> Stages \cup {"idle", "done", "failed"}]
      /\ \A d \in AcmeClients \ {c} : pc'[d] = pc[d]
  <2>1. PICK p : p = NextStage(c, pc[c])
    OBVIOUS
  <2>2. p \in Stages \cup {"idle", "done", "failed"}
    BY <1>2, <2>1, NextStageTyped
  <2>3. pc' = [pc EXCEPT ![c] = p] \/ pc' = [pc EXCEPT ![c] = "failed"]
    BY <2>1 DEF ClientReceive
  <2> QED
    BY <2>2, <2>3, ClientTyped
<1>8. /\ last_nonce' \in [AcmeClients -> Nonces]
      /\ \A d \in AcmeClients \ {c} : last_nonce'[d] = last_nonce[d]
      /\ last_nonce'[c][1] = c
  BY <1>2, <1>6, ClientTyped DEF ClientReceive, ClientInv
<1>9. account_url' \in [AcmeClients -> Nat] /\ order' \in [AcmeClients -> Nat]
  BY <1>6, ClientTyped DEF ClientReceive
<1>10. ClientInv(c)'
  BY <1>4, <1>5, <1>8, IdleInv
<1>11. \A d \in AcmeClients \ {c} : Live(d)' = Live(d)
  BY <1>1 DEF Live
<1> QED
  BY <1>1, <1>4, <1>7, <1>8, <1>9, <1>10, <1>11, ClientTyped, ClientKept

\* A request nobody waits for is a request still.
LEMMA Abandoned ==
    ASSUME NEW r \in Requests, RequestOK(r), NEW s, s = [r EXCEPT !.live = FALSE]
    PROVE  s \in Requests /\ RequestOK(s) /\ s.live = FALSE /\ s.from = r.from
BY DEF Requests, RequestOK

LEMMA ClientTimeoutKept ==
    ASSUME IndInv, NEW c \in AcmeClients, ClientTimeout(c)
    PROVE  IndInv'
<1>1. /\ UNCHANGED server /\ reply' = [reply EXCEPT ![c] = NoReply]
      /\ wire' = {IF r.from = c THEN [r EXCEPT !.live = FALSE] ELSE r : r \in wire}
      /\ last_nonce' = last_nonce /\ account_url' = account_url /\ order' = order /\ nid' = nid
      /\ pc' = [pc EXCEPT ![c] = "failed"]
  BY DEF ClientTimeout
<1>2. NoReply \in Replies
  BY DEF Replies
<1>3. reply' \in [AcmeClients -> Replies] /\ reply'[c] = NoReply
      /\ \A d \in AcmeClients \ {c} : reply'[d] = reply[d]
  BY <1>1, <1>2, ClientTyped
<1>4. ASSUME NEW s \in wire' PROVE s \in Requests /\ RequestOK(s) /\ (s.from = c => ~s.live)
                                   /\ (s.from # c => s \in wire)
  <2>1. PICK r \in wire : s = IF r.from = c THEN [r EXCEPT !.live = FALSE] ELSE r
    BY <1>1, <1>4
  <2>2. r \in Requests /\ RequestOK(r)
    BY <2>1, ClientTyped
  <2>3. CASE r.from = c
    BY <2>1, <2>2, <2>3, Abandoned
  <2>4. CASE r.from # c
    BY <2>1, <2>2, <2>4
  <2> QED
    BY <2>3, <2>4
<1>5. \A r \in wire : r.from # c => r \in wire'
  BY <1>1
<1>6. ~Waiting(c)'
  BY <1>3, <1>4 DEF Waiting
<1>7. \A d \in AcmeClients \ {c} : Live(d)' = Live(d)
  BY <1>4, <1>5 DEF Live
<1>8. /\ pc' \in [AcmeClients -> Stages \cup {"idle", "done", "failed"}]
      /\ \A d \in AcmeClients \ {c} : pc'[d] = pc[d]
  BY <1>1, ClientTyped
<1>9. last_nonce'[c][1] = c
  BY <1>1, ClientTyped DEF ClientInv
<1>10. ClientInv(c)'
  BY <1>3, <1>6, <1>9, IdleInv
<1> QED
  BY <1>1, <1>3, <1>4, <1>7, <1>8, <1>10, ClientTyped, ClientKept

-----------------------------------------------------------------------------
LEMMA InitHolds == Init => IndInv
<1> SUFFICES ASSUME Init PROVE IndInv
  OBVIOUS
<1>1. /\ wire = {} /\ orders = <<>> /\ certs = <<>> /\ answers = <<>> /\ account_jwks = <<>>
      /\ nonces = {} /\ minted = [c \in Clients |-> 0]
      /\ DOMAIN orders = {} /\ DOMAIN certs = {} /\ DOMAIN account_jwks = {}
  BY DEF Init
<1>2. TypeOK
  <2>1. (CHOOSE n \in Nids : TRUE) \in Nids
    BY AcmeAssumption
  <2>2. nid \in [AcmeClients -> Nids]
    BY <2>1 DEF Init
  <2>3. NoReply \in Replies /\ \A c \in AcmeClients : NoNonce(c) \in Nonces
    BY DEF Replies, NoNonce, Nonces, Clients
  <2>4. reply \in [AcmeClients -> Replies] /\ last_nonce \in [AcmeClients -> Nonces]
    BY <2>3 DEF Init
  <2> QED
    BY <2>2, <2>4 DEF Init, TypeOK, None
<1>3. ASSUME NEW c \in AcmeClients PROVE ClientInv(c)
  <2>1. reply[c] = NoReply /\ last_nonce[c] = NoNonce(c) /\ last_nonce[c][1] = c
    BY <1>3 DEF Init, NoNonce
  <2>2. Live(c) = {} /\ ~Waiting(c)
    BY <1>1, <2>1 DEF Live, Waiting
  <2> QED
    BY <2>1, <2>2 DEF ClientInv, NoReply
<1>4. ASSUME NEW c \in Clients PROVE Effects(c) <= Spent(c)
  <2>1. AccountsOf(c) = {} /\ OrdersOf(c) = {} /\ IssuedTo(c) = {} /\ Held(c) = {} /\ minted[c] = 0
    BY <1>1, <1>4 DEF AccountsOf, OrdersOf, IssuedTo, Held
  <2>2. MetBy(c) = {}
    BY <2>1 DEF MetBy
  <2>3. Effects(c) = 0 /\ Spent(c) = 0
    BY <2>1, <2>2, FS_EmptySet DEF Effects, Spent
  <2> QED
    BY <2>3
<1> QED
  BY <1>1, <1>2, <1>3, <1>4 DEF IndInv, PaidFor

LEMMA NextKept ==
    ASSUME IndInv, Next
    PROVE  IndInv'
<1>1. CASE \E r \in wire : HandleRequest(r)
  BY <1>1, ClientTyped, HandleKept
<1>2. ASSUME NEW c \in AcmeClients,
             \/ \E n \in Nids : IssueAgentCert(c, n)
             \/ ClientStep(c)
             \/ ClientTimeout(c)
      PROVE  IndInv'
  BY <1>2, IssueAgentCertKept, EnsureDirectoryKept, ClientSendKept, ClientNoNonceKept,
     ClientReceiveKept, ClientTimeoutKept DEF ClientStep
<1>3. ASSUME NEW c \in OtherClients, OtherRequest(c) PROVE IndInv'
  <2>1. PICK r \in OtherRequests(c) : HandleRequest(r)
    BY <1>3 DEF OtherRequest
  <2>2. r \in Requests /\ RequestOK(r) /\ ~r.live
    BY <1>3, <2>1, OtherRequestsOK
  <2> QED
    BY <2>1, <2>2, HandleKept
<1> QED
  BY <1>1, <1>2, <1>3 DEF Next

LEMMA StutterKept ==
    ASSUME IndInv, UNCHANGED vars
    PROVE  IndInv'
<1>1. /\ UNCHANGED server /\ wire' = wire /\ reply' = reply /\ pc' = pc
      /\ last_nonce' = last_nonce /\ account_url' = account_url /\ order' = order /\ nid' = nid
  BY DEF vars, client
<1>2. ServerTyped' /\ ServerInv'
  BY <1>1, ServerSame
<1>3. TypeOK'
  BY <1>1, <1>2, ClientTyped DEF TypeOK, ServerTyped
<1>4. \A c \in AcmeClients : ClientInv(c)'
  BY <1>1, ClientTyped DEF ClientInv, Waiting, Live, NoNonce
<1> QED
  BY <1>1, <1>2, <1>3, <1>4, ClientTyped DEF IndInv, ServerInv

\* The invariant holds in every state the server and its clients reach,
\* whatever is lost or handled late.
THEOREM Inductive == Spec => []IndInv
<1>1. IndInv /\ [Next]_vars => IndInv'
  BY NextKept, StutterKept
<1> QED
  BY InitHolds, <1>1, PTL DEF Spec

\* The server's tables, the messages and what each client holds keep their
\* types, and the nonces on the books are ones that were handed out.
THEOREM TypeCorrect == Spec => []TypeOK
<1>1. IndInv => TypeOK
  BY DEF IndInv
<1> QED
  BY <1>1, Inductive, PTL

\* Every certificate is paid for by a challenge met for its order, says what
\* the order says, and no request takes effect twice (handle_finalize,
\* handle_challenge, consume_nonce).
THEOREM CertPerAnswerHolds == Spec => []CertPerAnswer
<1>1. IndInv => CertPerAnswer
  <2> SUFFICES ASSUME IndInv PROVE CertPerAnswer
    OBVIOUS
  <2>1. (\A o \in DOMAIN orders : OrderInv(o)) /\ (\A k \in DOMAIN certs : CertInv(k)) /\ PaidFor
    BY DEF IndInv
  <2> QED
    BY <2>1 DEF OrderInv, CertInv, PaidFor, CertPerAnswer
<1> QED
  BY <1>1, Inductive, PTL
=============================================================================
