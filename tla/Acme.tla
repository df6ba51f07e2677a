-------------------------------- MODULE Acme --------------------------------
(***************************************************************************)
(* The in-process ACME server of nps-nip (acme/server.rs) and the clients  *)
(* that talk to it over HTTP: the AcmeClient of acme/client.rs, which      *)
(* walks through one certificate order per call, and any other ACME        *)
(* client, which sends the requests the protocol has in an order of its    *)
(* own.  The server handles one request at a time, on one thread.  A       *)
(* request may be answered after its client has stopped waiting, or never. *)
(*                                                                         *)
(* Keys, accounts and signatures: a client is its key; an account, an      *)
(* order and a certificate are numbered in the order they were made; an    *)
(* order, its authorization and its challenge are made together and share  *)
(* a number.  A nonce is the client it was handed to and a number; None    *)
(* (0) stands for an absent value.  The public key of a certificate        *)
(* request (CSR) is a field of its own: it need not be the sender's.       *)
(***************************************************************************)
EXTENDS Integers, Sequences, FiniteSets

CONSTANTS AcmeClients,   \* clients that run issue_agent_cert
          OtherClients,  \* clients that send what they like
          Nids,          \* the identifiers certificates are ordered for
          MaxCalls,      \* bound: calls of issue_agent_cert per client
          MaxFaults,     \* bound: requests whose answer does not arrive
          MaxNonces      \* bound: nonces handed to each other client

None == 0
Clients == AcmeClients \cup OtherClients

ASSUME AcmeAssumption ==
    /\ AcmeClients \cap OtherClients = {}
    /\ Nids # {}
    /\ MaxCalls \in Nat /\ MaxFaults \in Nat /\ MaxNonces \in Nat

VARIABLES
    minted,        \* how many nonces the server has handed to each client
    nonces,        \* State.nonces: made and not yet consumed
    account_jwks,  \* State.account_jwks: account -> the key that opened it
    orders,        \* State.orders
    authzs,        \* State.authzs: the status of each order's authorization
    challenges,    \* State.challenges: the status of each order's challenge
    certs,         \* State.certs: what each certificate was issued for
    answers,       \* history: how often each order's challenge was met
    wire,          \* requests sent and not yet handled
    reply,         \* the answer on its way to each client
    pc,            \* where each AcmeClient is in issue_agent_cert
    directory,     \* AcmeClient.directory is set
    last_nonce,    \* AcmeClient.last_nonce
    account_url,   \* AcmeClient.account_url
    order,         \* the order of the current call
    nid,           \* the identifier of the current call
    calls,         \* history: calls made
    faults,        \* history: answers that did not arrive
    hurtNow,       \* history: the current call lost an answer
    hurtEver       \* history: some call of this client lost an answer

server == <<minted, nonces, account_jwks, orders, authzs, challenges, certs,
            answers>>
client == <<pc, directory, last_nonce, account_url, order, nid, calls,
            faults, hurtNow, hurtEver>>
vars == <<server, client, wire, reply>>

-----------------------------------------------------------------------------
(***************************************************************************)
(* The server.  Every handler of a signed request consumes the nonce       *)
(* before it looks at anything else, and hands out a new nonce only with a *)
(* success: an error answer carries none.                                  *)
(***************************************************************************)
\* mint_nonce: one that was never handed out.
NewNonce(r) == <<r.from, minted[r.from] + 1>>

NoNonce(c) == <<c, 0>>
NoReply == [ok |-> FALSE, none |-> TRUE]
Problem == [ok |-> FALSE, none |-> FALSE]
Success(r, value) == [ok |-> TRUE, none |-> FALSE, nonce |-> NewNonce(r),
                      value |-> value]

\* consume_nonce: the set the request's nonce is removed from.
NoncesAfter(r) == nonces \ {r.nonce}

\* handle_request: the answer goes to the client if it still waits for it.
Respond(r, answer) ==
    /\ wire' = wire \ {r}
    /\ reply' = IF r.live THEN [reply EXCEPT ![r.from] = answer] ELSE reply

\* An error answer of a signed request: only the nonce is gone.
Refuse(r) ==
    /\ nonces' = NoncesAfter(r)
    /\ Respond(r, Problem)
    /\ UNCHANGED <<minted, account_jwks, orders, authzs, challenges, certs,
                   answers, client>>

\* mint_nonce answering with a nonce it did not store.
Grant_Faulty(r, value) ==
    /\ minted' = [minted EXCEPT ![r.from] = @ + 1]
    /\ nonces' = NoncesAfter(r)
    /\ Respond(r, Success(r, value))
    /\ UNCHANGED client

\* mint_nonce at the end of a handler that succeeds.
Grant(r, value) ==
    /\ minted' = [minted EXCEPT ![r.from] = @ + 1]
    /\ nonces' = NoncesAfter(r) \cup {NewNonce(r)}
    /\ Respond(r, Success(r, value))
    /\ UNCHANGED client

\* verify_account: the account is known and its key signed the envelope.
VerifyAccount(r) ==
    r.kid \in DOMAIN account_jwks /\ account_jwks[r.kid] = r.from

\* The nonce is one the server handed out and nobody has used.
NonceFresh(r) == r.nonce \in nonces

\* The order (or its authorization or challenge) exists and is the account's.
OwnsOrder(r) == r.order \in DOMAIN orders /\ orders[r.order].account = r.kid

HandleNewNonce(r) ==
    /\ r.kind = "new_nonce"
    /\ minted' = [minted EXCEPT ![r.from] = @ + 1]
    /\ nonces' = nonces \cup {NewNonce(r)}
    /\ Respond(r, Success(r, None))
    /\ UNCHANGED <<account_jwks, orders, authzs, challenges, certs, answers,
                   client>>

HandleNewAccount(r) ==
    /\ r.kind = "new_account"
    /\ IF NonceFresh(r)
       THEN /\ account_jwks' = Append(account_jwks, r.from)
            /\ Grant(r, Len(account_jwks) + 1)
            /\ UNCHANGED <<orders, authzs, challenges, certs, answers>>
       ELSE Refuse(r)

HandleNewOrder(r) ==
    /\ r.kind = "new_order"
    /\ IF NonceFresh(r) /\ VerifyAccount(r)
       THEN /\ orders' = Append(orders, [identifier |-> r.identifier,
                                         account |-> r.kid,
                                         status |-> "pending",
                                         certificate |-> None])
            /\ authzs' = Append(authzs, "pending")
            /\ challenges' = Append(challenges, "pending")
            /\ answers' = Append(answers, 0)
            /\ Grant(r, Len(orders) + 1)
            /\ UNCHANGED <<account_jwks, certs>>
       ELSE Refuse(r)

\* handle_authz and handle_order answer with what they find.
HandleLookup(r) ==
    /\ r.kind \in {"authz", "order"}
    /\ IF NonceFresh(r) /\ VerifyAccount(r) /\ OwnsOrder(r)
       THEN /\ Grant(r, r.order)
            /\ UNCHANGED <<account_jwks, orders, authzs, challenges, certs,
                           answers>>
       ELSE Refuse(r)

\* A signature over the challenge token that does not verify, or is not
\* there, marks the challenge; one that does sets the order to "ready"
\* whatever its status was.
HandleChallenge(r) ==
    /\ r.kind = "challenge"
    /\ IF NonceFresh(r) /\ VerifyAccount(r) /\ OwnsOrder(r)
       THEN IF r.signature = "good"
            THEN /\ challenges' = [challenges EXCEPT ![r.order] = "valid"]
                 /\ authzs' = [authzs EXCEPT ![r.order] = "valid"]
                 /\ orders' = [orders EXCEPT ![r.order].status = "ready"]
                 /\ answers' = [answers EXCEPT ![r.order] = @ + 1]
                 /\ Grant(r, r.order)
                 /\ UNCHANGED <<account_jwks, certs>>
            ELSE /\ challenges' = [challenges EXCEPT ![r.order] = "invalid"]
                 /\ nonces' = NoncesAfter(r)
                 /\ Respond(r, Problem)
                 /\ UNCHANGED <<minted, account_jwks, orders, authzs, certs,
                                answers, client>>
       ELSE Refuse(r)

\* handle_finalize without its look at the order's status.
FinalizeReady_Faulty(r) == TRUE
\* handle_finalize: only an order whose challenge has been met is issued.
FinalizeReady(r) == orders[r.order].status = "ready"

\* The CSR names the identifier of the order, and an Ed25519 key: any, since
\* neither the key that signed the CSR nor that of the account is looked at.
CsrAccepted(r) ==
    /\ r.identifier = orders[r.order].identifier
    /\ r.csr_key \in Clients

HandleFinalize(r) ==
    /\ r.kind = "finalize"
    /\ IF /\ NonceFresh(r) /\ VerifyAccount(r) /\ OwnsOrder(r)
          /\ FinalizeReady(r) /\ CsrAccepted(r)
       THEN /\ certs' = Append(certs, [order |-> r.order, key |-> r.csr_key,
                                       subject |-> r.identifier])
            /\ orders' = [orders EXCEPT
                            ![r.order].status = "valid",
                            ![r.order].certificate = Len(certs) + 1]
            /\ Grant(r, Len(certs) + 1)
            /\ UNCHANGED <<account_jwks, authzs, challenges, answers>>
       ELSE Refuse(r)

\* handle_cert asks for an account, not for the one that ordered it.
HandleCert(r) ==
    /\ r.kind = "cert"
    /\ IF NonceFresh(r) /\ VerifyAccount(r) /\ r.order \in DOMAIN certs
       THEN /\ Grant(r, r.order)
            /\ UNCHANGED <<account_jwks, orders, authzs, challenges, certs,
                           answers>>
       ELSE Refuse(r)

HandleRequest(r) ==
    \/ HandleNewNonce(r)
    \/ HandleNewAccount(r)
    \/ HandleNewOrder(r)
    \/ HandleLookup(r)
    \/ HandleChallenge(r)
    \/ HandleFinalize(r)
    \/ HandleCert(r)

-----------------------------------------------------------------------------
(***************************************************************************)
(* AcmeClient.  pc names the request the call makes next.                  *)
(***************************************************************************)
Stages == {"directory", "new_nonce", "new_account", "new_order", "authz",
           "challenge", "finalize", "cert"}

\* What follows a stage that succeeded.
NextStage(c, stage) ==
    CASE stage = "directory"   -> "new_nonce"
      [] stage = "new_nonce"   -> IF account_url[c] = None THEN "new_account"
                                  ELSE "new_order"
      [] stage = "new_account" -> "new_order"
      [] stage = "new_order"   -> "authz"
      [] stage = "authz"       -> "challenge"
      [] stage = "challenge"   -> "finalize"
      [] stage = "finalize"    -> "cert"
      [] stage = "cert"        -> "done"

\* The request is out: sent, and neither handled nor answered.
Waiting(c) == reply[c] # NoReply \/ \E r \in wire : r.from = c /\ r.live

\* build_csr puts the client's own key into the CSR.
Request(c, kind, kid, about, identifier, signature) ==
    [from |-> c, live |-> TRUE, kind |-> kind, nonce |-> last_nonce[c],
     kid |-> kid, order |-> about, identifier |-> identifier,
     signature |-> signature, csr_key |-> c]

\* issue_agent_cert is called: the directory is fetched once per client, and
\* so is the first nonce.
IssueAgentCert(c, n) ==
    /\ pc[c] \in {"idle", "done", "failed"}
    /\ calls[c] < MaxCalls
    /\ calls' = [calls EXCEPT ![c] = @ + 1]
    /\ nid' = [nid EXCEPT ![c] = n]
    /\ hurtNow' = [hurtNow EXCEPT ![c] = FALSE]
    /\ pc' = [pc EXCEPT ![c] = IF ~directory[c] THEN "directory"
                               ELSE NextStage(c, "new_nonce")]
    /\ UNCHANGED <<server, wire, reply, directory, last_nonce, account_url,
                   order, faults, hurtEver>>

\* ensure_directory: the GET of the directory, which the server answers from
\* constants.
EnsureDirectory(c) ==
    /\ pc[c] = "directory"
    /\ directory' = [directory EXCEPT ![c] = TRUE]
    /\ pc' = [pc EXCEPT ![c] = NextStage(c, "directory")]
    /\ UNCHANGED <<server, wire, reply, last_nonce, account_url, order, nid,
                   calls, faults, hurtNow, hurtEver>>

\* new_account, new_order, fetch_authz, respond_agent_01, finalize_order,
\* download_pem and refresh_nonce up to the POST: consume_last_nonce copies
\* the nonce the client holds and leaves it there.
ClientSend(c) ==
    /\ pc[c] \in Stages \ {"directory"}
    /\ ~Waiting(c)
    /\ pc[c] = "new_nonce" \/ last_nonce[c] # NoNonce(c)
    /\ wire' = wire \cup {Request(c, pc[c], account_url[c], order[c], nid[c],
                                  "good")}
    /\ UNCHANGED <<server, client, reply>>

\* consume_last_nonce with no nonce: the call fails before it sends.
ClientNoNonce(c) ==
    /\ pc[c] \in Stages \ {"directory", "new_nonce"}
    /\ last_nonce[c] = NoNonce(c)
    /\ pc' = [pc EXCEPT ![c] = "failed"]
    /\ UNCHANGED <<server, wire, reply, directory, last_nonce, account_url,
                   order, nid, calls, faults, hurtNow, hurtEver>>

\* The answer: capture_nonce and the next stage, or an error to the caller.
ClientReceive(c) ==
    /\ reply[c] # NoReply
    /\ reply' = [reply EXCEPT ![c] = NoReply]
    /\ IF reply[c].ok
       THEN /\ last_nonce' = [last_nonce EXCEPT ![c] = reply[c].nonce]
            /\ account_url' = IF pc[c] = "new_account"
                              THEN [account_url EXCEPT ![c] = reply[c].value]
                              ELSE account_url
            /\ order' = IF pc[c] \in {"new_order", "finalize"}
                        THEN [order EXCEPT ![c] = reply[c].value]
                        ELSE order
            /\ pc' = [pc EXCEPT ![c] = NextStage(c, pc[c])]
       ELSE /\ pc' = [pc EXCEPT ![c] = "failed"]
            /\ UNCHANGED <<last_nonce, account_url, order>>
    /\ UNCHANGED <<server, wire, directory, nid, calls, faults, hurtNow,
                   hurtEver>>

\* The HTTP client gives up (30 seconds, a broken connection): the call
\* fails.  The request may still reach the server, or have been handled.
ClientTimeout(c) ==
    /\ pc[c] = "directory" \/ Waiting(c)
    /\ faults < MaxFaults
    /\ faults' = faults + 1
    /\ hurtNow' = [hurtNow EXCEPT ![c] = TRUE]
    /\ hurtEver' = [hurtEver EXCEPT ![c] = TRUE]
    /\ pc' = [pc EXCEPT ![c] = "failed"]
    /\ reply' = [reply EXCEPT ![c] = NoReply]
    /\ wire' = { IF r.from = c THEN [r EXCEPT !.live = FALSE] ELSE r : r \in wire }
    /\ UNCHANGED <<server, directory, last_nonce, account_url, order, nid,
                   calls>>

-----------------------------------------------------------------------------
(***************************************************************************)
(* Another ACME client: any request about any order or certificate there   *)
(* is.  It uses the last nonce it was handed, fetches one when that is     *)
(* spent, and opens one account.  Its request is handled when it is sent:  *)
(* what it says does not depend on how long it travels.                    *)
(***************************************************************************)
OtherRequests(c) ==
    LET nonce == <<c, minted[c]>>
        mine == { a \in DOMAIN account_jwks : account_jwks[a] = c }
        kid == IF mine = {} THEN None ELSE CHOOSE a \in mine : TRUE
        AskFor(kind, about, n, s, k) ==
            [from |-> c, live |-> FALSE, kind |-> kind, nonce |-> nonce,
             kid |-> kid, order |-> about, identifier |-> n, signature |-> s,
             csr_key |-> k]
        Ask(kind, about, n, s) == AskFor(kind, about, n, s, None)
    IN  IF nonce \notin nonces THEN { Ask("new_nonce", None, None, "bad") }
        ELSE { Ask("new_order", None, n, "bad") : n \in Nids }
             \cup (IF mine = {} THEN { Ask("new_account", None, None, "bad") } ELSE {})
             \cup { Ask("order", o, None, "bad") : o \in DOMAIN orders }
             \cup { Ask("challenge", o, None, s) : o \in DOMAIN orders, s \in {"good", "bad"} }
             \cup { AskFor("finalize", o, n, "bad", k) :
                      o \in DOMAIN orders, n \in Nids \cup {None}, k \in Clients \cup {None} }
             \cup { Ask("cert", k, None, "bad") : k \in DOMAIN certs }

OtherRequest(c) ==
    /\ minted[c] < MaxNonces
    /\ \E r \in OtherRequests(c) : HandleRequest(r)

-----------------------------------------------------------------------------
Init ==
    /\ minted = [c \in Clients |-> 0] /\ nonces = {}
    /\ account_jwks = <<>> /\ orders = <<>> /\ authzs = <<>>
    /\ challenges = <<>> /\ certs = <<>> /\ answers = <<>>
    /\ wire = {}
    /\ reply = [c \in AcmeClients |-> NoReply]
    /\ pc = [c \in AcmeClients |-> "idle"]
    /\ directory = [c \in AcmeClients |-> FALSE]
    /\ last_nonce = [c \in AcmeClients |-> NoNonce(c)]
    /\ account_url = [c \in AcmeClients |-> None]
    /\ order = [c \in AcmeClients |-> None]
    /\ nid = [c \in AcmeClients |-> CHOOSE n \in Nids : TRUE]
    /\ calls = [c \in AcmeClients |-> 0]
    /\ faults = 0
    /\ hurtNow = [c \in AcmeClients |-> FALSE]
    /\ hurtEver = [c \in AcmeClients |-> FALSE]

ClientStep(c) ==
    EnsureDirectory(c) \/ ClientSend(c) \/ ClientNoNonce(c) \/ ClientReceive(c)

Next ==
    \/ \E r \in wire : HandleRequest(r)
    \/ \E c \in AcmeClients :
         \/ \E n \in Nids : IssueAgentCert(c, n)
         \/ ClientStep(c)
         \/ ClientTimeout(c)
    \/ \E c \in OtherClients : OtherRequest(c)

\* The calling task polls its future, and the server thread takes the next
\* request of the connections that are open.
Spec ==
    /\ Init /\ [][Next]_vars
    /\ \A c \in AcmeClients :
         /\ WF_vars(ClientStep(c))
         /\ WF_vars(\E r \in wire : r.from = c /\ r.live /\ HandleRequest(r))

-----------------------------------------------------------------------------
Statuses == {"pending", "ready", "valid", "invalid"}

Nonces == Clients \X Nat

Orders == [identifier : Nids, account : Nat, status : Statuses, certificate : Nat]

Certificates == [order : Nat, key : Clients, subject : Nids]

Requests ==
    [from : Clients, live : BOOLEAN, kind : (Stages \ {"directory"}) \cup {"order"},
     nonce : Nonces, kid : Nat, order : Nat, identifier : Nids \cup {None},
     signature : {"good", "bad"}, csr_key : Clients \cup {None}]

Replies ==
    {NoReply, Problem} \cup [ok : {TRUE}, none : {FALSE}, nonce : Nonces, value : Nat]

\* The server's tables, the messages and what each client holds have their
\* types; a nonce the server knows was handed out; the entries of an order are
\* made together (server.rs:33-68, 296-380).
TypeOK ==
    /\ minted \in [Clients -> Nat]
    /\ nonces \subseteq Nonces /\ \A n \in nonces : n[2] \in 1..minted[n[1]]
    /\ account_jwks \in Seq(Clients)
    /\ orders \in Seq(Orders)
    /\ authzs \in Seq(Statuses) /\ Len(authzs) = Len(orders)
    /\ challenges \in Seq(Statuses) /\ Len(challenges) = Len(orders)
    /\ answers \in Seq(Nat) /\ Len(answers) = Len(orders)
    /\ certs \in Seq(Certificates)
    /\ wire \subseteq Requests
    /\ reply \in [AcmeClients -> Replies]
    /\ pc \in [AcmeClients -> Stages \cup {"idle", "done", "failed"}]
    /\ last_nonce \in [AcmeClients -> Nonces]
    /\ account_url \in [AcmeClients -> Nat] /\ order \in [AcmeClients -> Nat]
    /\ nid \in [AcmeClients -> Nids]

CertsOf(o) == Cardinality({ k \in DOMAIN certs : certs[k].order = o })

\* The nonces handed to a client that its requests have not used up, and those
\* they have.
Held(c) == { n \in nonces : n[1] = c }
Spent(c) == minted[c] - Cardinality(Held(c))

\* What the requests of a client have brought about: accounts, orders,
\* certificates and challenges met.
AccountsOf(c) == { a \in DOMAIN account_jwks : account_jwks[a] = c }
OrdersOf(c) == { o \in DOMAIN orders : account_jwks[orders[o].account] = c }
IssuedTo(c) == { k \in DOMAIN certs : certs[k].order \in OrdersOf(c) }
MetBy(c) == { m \in OrdersOf(c) \X (1..minted[c]) : m[2] <= answers[m[1]] }

Effects(c) ==
    Cardinality(AccountsOf(c)) + Cardinality(OrdersOf(c))
        + Cardinality(IssuedTo(c)) + Cardinality(MetBy(c))

\* A certificate is paid for by a signature over the challenge token
\* (handle_challenge), one signature for each certificate, even though a
\* challenge can be answered again after its order was issued and the order
\* then goes back from "valid" to "ready"; the subject is the identifier the
\* order was opened for; an order of an AcmeClient yields certificates for
\* that client's key only, although handle_finalize takes the key from the CSR
\* and compares it with nothing (of other clients' orders no such thing holds:
\* they may have any key certified); an order that points to a certificate
\* points to one of its own.  No request takes effect twice, however often it
\* is delivered: each effect has used up a nonce of its own (consume_nonce
\* runs before anything else).
CertPerAnswer ==
    /\ \A o \in DOMAIN orders : CertsOf(o) <= answers[o]
    /\ \A k \in DOMAIN certs :
         /\ certs[k].subject = orders[certs[k].order].identifier
         /\ account_jwks[orders[certs[k].order].account] \in AcmeClients =>
               certs[k].key = account_jwks[orders[certs[k].order].account]
    /\ \A o \in DOMAIN orders :
         orders[o].certificate # None => certs[orders[o].certificate].order = o
    /\ \A c \in Clients : Effects(c) <= Spent(c)

\* A client none of whose answers was ever lost ends each call of
\* issue_agent_cert with a certificate, whatever other clients do.
CallSucceeds ==
    \A c \in AcmeClients :
        (pc[c] \in Stages /\ ~hurtEver[c]) ~> (pc[c] = "done" \/ hurtEver[c])

\* The same of a call during which nothing is lost, whatever happened to the
\* calls before it: each call runs the flow from newNonce on.
RetrySucceeds ==
    \A c \in AcmeClients :
        (pc[c] \in Stages /\ ~hurtNow[c]) ~> (pc[c] = "done" \/ hurtNow[c])
=============================================================================
