--------------------------- MODULE ReaderSession ---------------------------
(***************************************************************************)
(* The cache lifecycle composed with the queries a caller makes of the    *)
(* DebugInfo a load returned: get_kind on its InsnSet, through the range  *)
(* memo.  rangecachedfn's dict lives as long as the process and is shared *)
(* by every InsnSet; its keys include self, so a session never hits the   *)
(* entries of another.  A reload of the same cache file gives a session   *)
(* whose answers are the same, so memo is kept for it.                    *)
(***************************************************************************)
EXTENDS CacheLifecycle, InsnSet

CONSTANT
    InsnTable       \* version of the binary -> the insnset rows built from it

SVars == <<vars, memo>>

SInit == Init /\ memo = EmptyMemo

\* Mutant: the memo keyed by the address alone.
SessionMemoShared(s, s2) == memo

\* The entries the new session reaches: none of the last session's, whose
\* keys hold another self (deco.py: memo[args]).
SessionMemo(s, s2) == IF s2 # s THEN EmptyMemo ELSE memo

\* A step of the cache lifecycle; a load that returns a new DebugInfo
\* starts from its own part of the memo.
Lifecycle == Next /\ memo' = SessionMemo(session, session')

\* The caller asks the DebugInfo it holds for the kind at an address.
GetKind ==
    /\ pc = "idle" /\ session.state = "complete"
    /\ \E a \in Addrs : Memoize(InsnTable[session.version], a)
    /\ UNCHANGED vars

SNext == Lifecycle \/ GetKind

SSpec == SInit /\ [][SNext]_SVars

(***************************************************************************)
(* Every kind the memo holds for the session in use is the kind the       *)
(* insnset table of the cache that session loaded gives by the spec's     *)
(* "last range whose low <= address" rule: a range filled on one miss     *)
(* answers later calls correctly, and no answer survives from a session  *)
(* over an earlier build of the binary.                                    *)
(***************************************************************************)
InsnKindMatchesSessionCache ==
    session.state = "complete" =>
        \A a \in DOMAIN memo : memo[a] = KindAt(InsnTable[session.version], a)

====
