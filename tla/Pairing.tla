------------------------------ MODULE Pairing ------------------------------
(***************************************************************************)
(* What a node keeps in its state directory to be recognised by            *)
(* (internal/identity, internal/console/auth.go, main.go): the pairing     *)
(* token of the Control Room, on disk and in the process, with the session *)
(* cookies signed by it; and the key pair the gateway knows the node by,   *)
(* which several agents started on one directory may all try to create.    *)
(*                                                                         *)
(* A token is also the key that signs; a cookie is the token that signed   *)
(* it.  Token number 0 is the one the environment configures.              *)
(***************************************************************************)
EXTENDS Naturals, FiniteSets

CONSTANTS
    Browser,    \* browsers of the operator
    MaxTokens,  \* bound on rotations
    Agent,      \* agents started on one state directory; each would create its own key
    NoKey

Token == 0..MaxTokens
ASSUME PairingAssumption ==
    /\ MaxTokens \in Nat
    /\ Agent \cap {NoKey, "absent", "created"} = {}

VARIABLES
    stored,     \* token file: the token rotated to last, 0 if there is no file
    running,    \* token the process accepts and signs with
    cookie,     \* each browser's cookie: the token that signed it, or none
    expired,    \* browsers whose cookie is past its lifetime
    rotation,   \* rotation requests in progress: browser, its new token, and whether stored
    drawn,      \* tokens drawn so far
    overlapped, \* history: a rotation began beside another since the process started
    keyFile,    \* identity file: absent, created but not written, or a key
    agent       \* each agent: how far it is, and its key

pairing  == <<stored, running, cookie, expired, rotation, drawn, overlapped>>
identity == <<keyFile, agent>>
pairingVars == <<pairing, identity>>

NoCookie == MaxTokens + 1
Authenticated(b) == cookie[b] = running /\ b \notin expired
Rotating == {r.by : r \in rotation}

-----------------------------------------------------------------------------
\* login: the token typed in is the running one, or nothing happens.
Login(b, t) ==
    /\ t = running /\ b \notin Rotating
    /\ cookie' = [cookie EXCEPT ![b] = running]
    /\ expired' = expired \ {b}
    /\ UNCHANGED <<stored, running, rotation, drawn, overlapped, identity>>

\* The browser drops its cookie; the node remembers no sessions and so forgets none.
Logout(b) ==
    /\ cookie' = [cookie EXCEPT ![b] = NoCookie]
    /\ UNCHANGED <<stored, running, expired, rotation, drawn, overlapped, identity>>

Age(b) ==
    /\ cookie[b] # NoCookie
    /\ expired' = expired \cup {b}
    /\ UNCHANGED <<stored, running, cookie, rotation, drawn, overlapped, identity>>

\* /api/session/rotate: only an authenticated browser gets in, and what can fail is drawn.
\* Nothing keeps another browser's request out until this one is answered.
BeginRotate(b) ==
    /\ Authenticated(b) /\ b \notin Rotating
    /\ drawn < MaxTokens
    /\ drawn' = drawn + 1
    /\ overlapped' = (overlapped \/ rotation # {})
    /\ rotation' = rotation \cup {[by |-> b, token |-> drawn + 1, kept |-> FALSE]}
    /\ UNCHANGED <<stored, running, cookie, expired, identity>>

\* Deviation: the process takes the token first, and the write may fail after it.
PersistLate(r) ==
    /\ r \in rotation /\ ~r.kept
    /\ \/ stored' = r.token
       \/ UNCHANGED stored
    /\ rotation' = (rotation \ {r}) \cup {[r EXCEPT !.kept = TRUE]}
    /\ UNCHANGED <<running, cookie, expired, drawn, overlapped, identity>>

\* rotateConsoleToken: a file beside it, renamed; if any of that fails the request does.
Persist(r) ==
    /\ r \in rotation /\ ~r.kept
    /\ \/ /\ stored' = r.token
          /\ rotation' = (rotation \ {r}) \cup {[r EXCEPT !.kept = TRUE]}
       \/ rotation' = rotation \ {r} /\ UNCHANGED stored
    /\ UNCHANGED <<running, cookie, expired, drawn, overlapped, identity>>

\* sessionAuthenticator.rotate: one lock for the swap and the rotator's new cookie.
Swap(r) ==
    /\ r \in rotation /\ r.kept
    /\ running' = r.token
    /\ cookie' = [cookie EXCEPT ![r.by] = r.token]
    /\ expired' = expired \ {r.by}
    /\ rotation' = rotation \ {r}
    /\ UNCHANGED <<stored, drawn, overlapped, identity>>

\* The process ends, in the middle of a request or not, and the next loads the file.
RestartConsole ==
    /\ running' = stored
    /\ rotation' = {} /\ overlapped' = FALSE
    /\ UNCHANGED <<stored, cookie, expired, drawn, identity>>

-----------------------------------------------------------------------------
AgentAt(a, p, k) == agent' = [agent EXCEPT ![a] = [at |-> p, key |-> k]]

\* LoadOrGenerate: a file is decoded, a half-written one is a hard error; none, generate.
LoadIdentity(a) ==
    /\ agent[a].at = "off"
    /\ CASE keyFile = "absent"  -> AgentAt(a, "generating", a)
         [] keyFile = "created" -> AgentAt(a, "failed", NoKey)
         [] OTHER               -> AgentAt(a, "running", keyFile)
    /\ UNCHANGED <<keyFile, pairing>>

\* O_EXCL: the loser of the race reads what the winner has written so far.
CreateIdentity(a) ==
    /\ agent[a].at = "generating"
    /\ CASE keyFile = "absent"  -> keyFile' = "created" /\ AgentAt(a, "writing", a)
         [] keyFile = "created" -> AgentAt(a, "failed", NoKey) /\ UNCHANGED keyFile
         [] OTHER               -> AgentAt(a, "running", keyFile) /\ UNCHANGED keyFile
    /\ UNCHANGED pairing

\* The key is written; or that fails, and what was created is removed; or only closing the
\* file fails, and the key stays for the next start.
WriteIdentity(a) ==
    /\ agent[a].at = "writing"
    /\ \/ keyFile' = agent[a].key /\ AgentAt(a, "running", agent[a].key)
       \/ keyFile' \in {"absent", agent[a].key} /\ AgentAt(a, "failed", NoKey)
    /\ UNCHANGED pairing

\* An agent that failed or was killed, also while it writes, is started again.
RestartAgent(a) ==
    /\ agent[a].at # "off"
    /\ AgentAt(a, "off", NoKey)
    /\ UNCHANGED <<keyFile, pairing>>

PairingInit ==
    /\ stored = 0 /\ running = 0 /\ cookie = [b \in Browser |-> NoCookie] /\ expired = {}
    /\ rotation = {} /\ drawn = 0 /\ overlapped = FALSE
    /\ keyFile = "absent" /\ agent = [a \in Agent |-> [at |-> "off", key |-> NoKey]]

StartsIdentity(a) == LoadIdentity(a) \/ CreateIdentity(a) \/ WriteIdentity(a)

PairingNext ==
    \/ \E b \in Browser : Logout(b) \/ Age(b) \/ BeginRotate(b) \/ \E t \in Token : Login(b, t)
    \/ \E r \in rotation : Persist(r) \/ Swap(r)
    \/ RestartConsole
    \/ \E a \in Agent : StartsIdentity(a) \/ RestartAgent(a)

PairingSpec == PairingInit /\ [][PairingNext]_pairingVars

-----------------------------------------------------------------------------
PairingTypeOK ==
    /\ stored \in Token /\ running \in Token /\ drawn \in Token
    /\ cookie \in [Browser -> Token \cup {NoCookie}] /\ expired \subseteq Browser
    /\ rotation \subseteq [by : Browser, token : Token, kept : BOOLEAN] /\ overlapped \in BOOLEAN
    /\ keyFile \in {"absent", "created"} \cup Agent
    /\ agent \in [Agent -> [at : {"off", "generating", "writing", "running", "failed"},
                            key : Agent \cup {NoKey}]]

\* The answer to a rotation signs every other browser out, whatever it was doing, and not
\* the one that asked for it.
RotationRevokes ==
    [][\A r \in rotation : cookie'[r.by] = r.token =>
          /\ running' = r.token
          /\ {b \in Browser : cookie'[b] = running' /\ b \notin expired'} = {r.by}]_pairingVars

\* What the node uses is what it has stored.  The token in the file and the one the process
\* accepts agree whenever no rotation is in progress, so that no start accepts another one
\* than before, unless two rotations overlapped, which may store their tokens in one order
\* and take them in the other; and agents that race on one directory end up with the one
\* key in the file, which nothing replaces: the gateway's record is never orphaned.
StoredIsUsed ==
    /\ PairingTypeOK
    /\ rotation = {} /\ ~overlapped => stored = running
    /\ \A a \in Agent : agent[a].at = "running" => keyFile = agent[a].key
    /\ \A a \in Agent : agent[a].at = "writing" => keyFile = "created"
=============================================================================
