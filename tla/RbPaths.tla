------------------------------ MODULE RbPaths ------------------------------
(***************************************************************************)
(* The two forms of a path.  The driver and the database know a file by    *)
(* its NT path (\Device\HarddiskVolume10\Share\f), clients and the service *)
(* configuration by its DOS path (D:\Share\f).  A delete is recorded by    *)
(* the first; a restore turns it into the second and compares that with    *)
(* the protected shares; the restore of a tree goes the other way and      *)
(* selects rows by an SQL pattern made from what the client typed.         *)
(*                                                                         *)
(* A path is a sequence of tokens: the characters that matter here are     *)
(* tokens of their own, as the backslash, the wildcards of LIKE and the    *)
(* digits that end a device name.                                          *)
(***************************************************************************)
EXTENDS Integers, Sequences, SequencesExt, FiniteSets

CONSTANTS
  Tokens,                  \* what paths are made of
  Volumes,                 \* records [drive, dev]: the volumes there are
  Shares,                  \* DOS paths an administrator may protect
  Files,                   \* NT paths clients delete
  Trees,                   \* DOS paths clients restore as a tree
  RBSVC_MAX_TREE_RESTORE

VARIABLES
  vols,      \* g_Vols: the volumes that were there when the service started
  share,     \* the one ProtectedPaths entry
  rows,      \* original paths of the staged and landed items
  tree       \* history: the last tree request, what it selected and from what

pathVars == <<vols, share, rows, tree>>

Sep  == "\\"
Null == <<>>
NoTree == [prefix |-> Null, listed |-> {}, live |-> {}]

PathsInit ==
  /\ vols \in SUBSET Volumes
  /\ share \in Shares
  /\ rows = {} /\ tree = NoTree

DropFirst(p, n) == SubSeq(p, n + 1, Len(p))

\* p is the prefix itself or something beneath it.
AtOrBelow(p, prefix) ==
  IsPrefix(prefix, p) /\ (Len(p) > Len(prefix) => p[Len(prefix) + 1] = Sep)

\* Volumes have a letter and a device of their own, no device lies beneath
\* another, and shares are on volumes.  Paths are full ones, and those of the
\* driver are normalised: no device as a whole, no empty and no ".." component.
ASSUME PathsAssumption ==
  /\ RBSVC_MAX_TREE_RESTORE \in Nat \ {0} /\ {Sep, "%", "_"} \subseteq Tokens
  /\ \A v \in Volumes : v.drive \in Tokens \ {".."} /\ v.dev \in Seq(Tokens) /\ v.dev # Null
  /\ \A v, w \in Volumes : v.drive = w.drive \/ AtOrBelow(v.dev, w.dev) => v = w
  /\ \A dos \in Shares \cup Trees :
       dos \in Seq(Tokens) /\ dos # Null /\ (Len(dos) > 1 => dos[2] = Sep)
  /\ \A dos \in Shares : \E v \in Volumes : v.drive = dos[1]
  /\ \A nt \in Files :
       /\ nt \in Seq(Tokens) /\ \A v \in Volumes : nt # v.dev
       /\ \A i \in 1 .. Len(nt) : nt[i] # ".." /\ (nt[i] = Sep /\ i < Len(nt) => nt[i + 1] # Sep)

\* What Windows makes of a DOS path, whatever the service's map says.
RealPath(dos) == (CHOOSE v \in Volumes : v.drive = dos[1]).dev \o Tail(dos)

-----------------------------------------------------------------------------
(* rbvol.c.                                                                *)

VolDosToNt(dos) ==
  LET on == {v \in vols : v.drive = dos[1]}
  IN  IF on = {} THEN Null ELSE (CHOOSE v \in on : TRUE).dev \o Tail(dos)

Matches(nt) == {v \in vols : IsPrefix(v.dev, nt)}

AnyMatch(nt) == CHOOSE v \in Matches(nt) : \A w \in Matches(nt) : Len(v.dev) <= Len(w.dev)
\* The longest, so that HarddiskVolume10 is found before HarddiskVolume1.
BestMatch(nt) == CHOOSE v \in Matches(nt) : \A w \in Matches(nt) : Len(v.dev) >= Len(w.dev)

\* "X:\" and what follows the device name without its leading separators.
VolNtToDos(nt) ==
  IF Matches(nt) = {} THEN Null
  ELSE LET v    == BestMatch(nt)
           rest == DropFirst(nt, Len(v.dev))
           skip == CHOOSE n \in 0 .. Len(rest) :
                     /\ \A i \in 1 .. n : rest[i] = Sep
                     /\ n < Len(rest) => rest[n + 1] # Sep
       IN  <<v.drive, Sep>> \o DropFirst(rest, skip)

-----------------------------------------------------------------------------
(* The driver's test of a delete, and the service's test of a destination. *)

RbfIsProtected(nt) == AtOrBelow(nt, RealPath(share))

HasDotDot(dos) ==
  \E i \in DOMAIN dos : dos[i] = ".." /\ (i < Len(dos) => dos[i + 1] = Sep)

DestIsAllowed(dos) == dos # Null /\ ~HasDotDot(dos) /\ AtOrBelow(dos, share)

\* RestoreItemById without an override: the row's own path.  What else can
\* refuse a restore is in RbLifecycle.
DestOf(nt) == VolNtToDos(nt)
CanRestore(nt) == DestIsAllowed(DestOf(nt))

-----------------------------------------------------------------------------
(* rbdb.c: WHERE orig_path LIKE ? ESCAPE '\'.                              *)

\* Wild is a character a pattern does not take literally.
EscapeBut(p, wild) ==
  LET out[n \in 0 .. Len(p)] ==
        IF n = 0 THEN <<>>
        ELSE out[n - 1] \o (IF p[n] \in wild THEN <<Sep, p[n]>> ELSE <<p[n]>>)
  IN  out[Len(p)]
EscapePercent(p) == EscapeBut(p, {"%", Sep})
SqlLikeEscape(p) == EscapeBut(p, {"%", "_", Sep})

\* The pattern is read token by token; at are the lengths of s it can have
\* matched so far, and after an escape character the next token is itself.
OneMore(s, at) == {i \in 1 .. Len(s) : i - 1 \in at}
Literal(s, at, c) == {i \in OneMore(s, at) : s[i] = c}

LikeStep(s, was, c) ==
  CASE ~was.escape /\ c = Sep -> [at |-> was.at, escape |-> TRUE]
    [] ~was.escape /\ c = "%" -> [at |-> {i \in 0 .. Len(s) : \E k \in was.at : k <= i}, escape |-> FALSE]
    [] ~was.escape /\ c = "_" -> [at |-> OneMore(s, was.at), escape |-> FALSE]
    [] OTHER                  -> [at |-> Literal(s, was.at, c), escape |-> FALSE]

LikeRun(s, pat) ==
  LET run[j \in 0 .. Len(pat)] ==
        IF j = 0 THEN [at |-> {0}, escape |-> FALSE] ELSE LikeStep(s, run[j - 1], pat[j])
  IN  run[Len(pat)]
Like(s, pat) == Len(s) \in LikeRun(s, pat).at /\ ~LikeRun(s, pat).escape

PrefixMatches(nt) == {r \in rows : Like(r, SqlLikeEscape(nt) \o <<"%">>)}

\* The first ones by path, as many as the limit allows.
DbListByOrigPathPrefix(nt, listed) ==
  /\ listed \in SUBSET PrefixMatches(nt)
  /\ listed = PrefixMatches(nt) \/ Cardinality(listed) = RBSVC_MAX_TREE_RESTORE
  /\ Cardinality(listed) <= RBSVC_MAX_TREE_RESTORE

-----------------------------------------------------------------------------
(* Requests.                                                               *)

DeleteFile(nt) ==
  /\ RbfIsProtected(nt)
  /\ nt \notin rows
  /\ rows' = rows \cup {nt}
  /\ UNCHANGED <<vols, share, tree>>

RestoreItemById(nt) ==
  /\ nt \in rows
  /\ CanRestore(nt)
  /\ rows' = rows \ {nt}
  /\ UNCHANGED <<vols, share, tree>>

\* Rows that cannot be restored stay; the request reports them.
RestoreTreeByPrefix(dos) ==
  /\ DestIsAllowed(dos)
  /\ VolDosToNt(dos) # Null
  /\ \E listed \in SUBSET rows :
       /\ DbListByOrigPathPrefix(VolDosToNt(dos), listed)
       /\ rows' = rows \ {nt \in listed : CanRestore(nt)}
       /\ tree' = [prefix |-> VolDosToNt(dos), listed |-> listed, live |-> rows]
  /\ UNCHANGED <<vols, share>>

PathsNext ==
  \/ \E nt \in Files : DeleteFile(nt) \/ RestoreItemById(nt)
  \/ \E dos \in Trees : RestoreTreeByPrefix(dos)

PathsSpec == PathsInit /\ [][PathsNext]_pathVars

-----------------------------------------------------------------------------
(* Properties.                                                             *)

PathsTypeOK ==
  /\ vols \subseteq Volumes /\ share \in Shares
  /\ rows \subseteq Files
  /\ tree.listed \subseteq Files /\ tree.live \subseteq Files

\* What the driver takes the service can give back: a file whose volume was there
\* when the service started passes the test of destinations, and goes back to the
\* very path it was deleted from, over both changes of form.
RestoresHome ==
  \A nt \in rows :
    (\E v \in vols : AtOrBelow(nt, v.dev)) => CanRestore(nt) /\ RealPath(DestOf(nt)) = nt

\* A tree request selects the rows whose path starts with what was typed, each
\* character of it taken as itself also when it is a wildcard of LIKE or its
\* escape character: all of them, or as many of them as the limit allows.
TreeMatchesLiterally ==
  LET literal == {nt \in tree.live : IsPrefix(tree.prefix, nt)}
  IN  /\ tree.listed \subseteq literal
      /\ Cardinality(tree.listed) < RBSVC_MAX_TREE_RESTORE => tree.listed = literal
=============================================================================
