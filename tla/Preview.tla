------------------------------- MODULE Preview -------------------------------
(***************************************************************************)
(* Preview links: the capability secret of a project, minted on first use  *)
(* by EnsurePreviewSecret of internal/publish for the preview handler of   *)
(* internal/api, and checked by internal/serving when a link is followed.  *)
(* A link also names a version, which never changes once it exists.        *)
(***************************************************************************)
CONSTANTS
    Projects,
    Secrets,    \* what rand.Read returns; no value twice
    Handlers,   \* goroutines serving GET /v1/projects/{id}/preview
    NoSecret, NoProject

VARIABLES
    secret,   \* projects.preview_secret, NoSecret for ''
    links,    \* the links handed out, as <<project, secret>>
    minting   \* of each handler, the project and the secret it has minted

vars == <<secret, links, minting>>

Rested == [project |-> NoProject, secret |-> NoSecret]

Drawn ==
    {secret[p] : p \in Projects} \cup {l[2] : l \in links}
    \cup {minting[h].secret : h \in Handlers}

Init ==
    /\ secret = [p \in Projects |-> NoSecret]
    /\ links = {}
    /\ minting = [h \in Handlers |-> Rested]

\* The first read finds a secret: the link is answered with it.
ReuseSecret(h, p) ==
    /\ minting[h] = Rested /\ secret[p] # NoSecret
    /\ links' = links \cup {<<p, secret[p]>>}
    /\ UNCHANGED <<secret, minting>>

\* It finds none: one is minted, outside of any transaction.
MintSecret(h, p, k) ==
    /\ minting[h] = Rested /\ secret[p] = NoSecret
    /\ k \notin Drawn
    /\ minting' = [minting EXCEPT ![h] = [project |-> p, secret |-> k]]
    /\ UNCHANGED <<secret, links>>

\* Fault: the update does not ask for preview_secret = ''.
StoreSecretAnyway(h) ==
    LET p == minting[h].project IN
    /\ minting[h] # Rested
    /\ secret' = [secret EXCEPT ![p] = minting[h].secret]
    /\ links' = links \cup {<<p, secret'[p]>>}
    /\ minting' = [minting EXCEPT ![h] = Rested]

\* It is stored unless another was stored meanwhile, whose value is then taken;
\* the link is answered.
StoreSecret(h) ==
    LET p == minting[h].project IN
    /\ minting[h] # Rested
    /\ secret' = [secret EXCEPT ![p] = IF @ = NoSecret THEN minting[h].secret ELSE @]
    /\ links' = links \cup {<<p, secret'[p]>>}
    /\ minting' = [minting EXCEPT ![h] = Rested]

\* The request's context ends, or the process does, before the update.
DropRequest(h) ==
    /\ minting[h] # Rested
    /\ minting' = [minting EXCEPT ![h] = Rested]
    /\ UNCHANGED <<secret, links>>

Next ==
    \E h \in Handlers :
        \/ \E p \in Projects : ReuseSecret(h, p) \/ \E k \in Secrets : MintSecret(h, p, k)
        \/ StoreSecret(h) \/ DropRequest(h)

Spec == Init /\ [][Next]_vars

\* CheckPreviewSecret: following the link is not answered with 404.
Opens(l) == secret[l[1]] # NoSecret /\ secret[l[1]] = l[2]

\* Secrets and links are of projects.
TypeOK ==
    /\ secret \in [Projects -> Secrets \cup {NoSecret}]
    /\ links \subseteq Projects \X Secrets
    /\ minting \in [Handlers -> [project : Projects \cup {NoProject}, secret : Secrets \cup {NoSecret}]]

\* Every link that was ever handed out opens, although two devices may ask for
\* the first link of a project at once and each mint a secret (publish.go:59).
LinksOpen == \A l \in links : Opens(l)
=============================================================================
