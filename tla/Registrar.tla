----------------------------- MODULE Registrar -----------------------------
(***************************************************************************)
(* What the agent registry promises to those who hold its tokens and to    *)
(* those who read it: an agent is enrolled in one step, which spends an    *)
(* unspent token and stores the manifest that token was signed for.  There *)
(* are no requests, transactions, sweeps or crashes here; Enrollment       *)
(* implements this specification with all of them.                         *)
(***************************************************************************)
EXTENDS Naturals

CONSTANTS
  Aid,
  Manifest, ManifestAid, ManifestExpires, Supported,
  Jti,
  NoExpiry, None,
  Lifetime   \* seconds for which a token is valid

VARIABLES
  clock,   \* in half seconds
  tokens,  \* tokens signed, with the second in which they expire
  agents,  \* what is known of each agent
  spent    \* the tokens that are spent

vars == <<clock, tokens, agents, spent>>

Unknown == [status |-> "none", manifest |-> None]

\* A registry may be inherited whose agents have manifests no longer supported.
Init ==
  /\ clock = 0
  /\ tokens = [j \in Jti |-> None]
  /\ agents \in [Aid -> {Unknown} \cup
                        [status : {"active"}, manifest : Manifest \ Supported]]
  /\ \A a \in Aid : agents[a] # Unknown => ManifestAid[agents[a].manifest] = a
  /\ spent = {}

Issue(j, m) ==
  /\ tokens[j] = None
  /\ tokens' = [tokens EXCEPT ![j] = [manifest |-> m, exp |-> clock \div 2 + Lifetime]]
  /\ UNCHANGED <<clock, agents, spent>>

\* Only for the manifest the token was signed for, whatever the agent was.
Enrol(j) ==
  /\ tokens[j] # None /\ j \notin spent
  /\ agents' = [agents EXCEPT ![ManifestAid[tokens[j].manifest]] =
                  [status |-> "active", manifest |-> tokens[j].manifest]]
  /\ spent' = spent \cup {j}
  /\ UNCHANGED <<clock, tokens>>

Deregister(a) ==
  /\ agents[a] # Unknown
  /\ agents' = [agents EXCEPT ![a].status = "deregistered"]
  /\ UNCHANGED <<clock, tokens, spent>>

Outdated(m) ==
  \/ m \notin Supported
  \/ ManifestExpires[m] # NoExpiry /\ ManifestExpires[m] < clock

\* Active agents with an outdated manifest, and no others.
Retire(as) ==
  /\ \A a \in as : agents[a].status = "active" /\ Outdated(agents[a].manifest)
  /\ agents' = [a \in Aid |-> IF a \in as THEN [agents[a] EXCEPT !.status = "expired"]
                                          ELSE agents[a]]
  /\ UNCHANGED <<clock, tokens, spent>>

\* A token may be forgotten once it is no longer valid, an agent once it is
\* deregistered.
Forget(js, as) ==
  /\ \A j \in js : 2 * tokens[j].exp < clock
  /\ \A a \in as : agents[a].status = "deregistered"
  /\ spent' = spent \ js
  /\ agents' = [a \in Aid |-> IF a \in as THEN Unknown ELSE agents[a]]
  /\ UNCHANGED <<clock, tokens>>

Tick ==
  /\ clock' = clock + 1
  /\ UNCHANGED <<tokens, agents, spent>>

Next ==
  \/ \E j \in Jti : Enrol(j) \/ \E m \in Supported : Issue(j, m)
  \/ \E a \in Aid : Deregister(a)
  \/ \E as \in SUBSET Aid : Retire(as)
  \/ \E js \in SUBSET spent, as \in SUBSET Aid : Forget(js, as)
  \/ Tick

Spec == Init /\ [][Next]_vars
=============================================================================
