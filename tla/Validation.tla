------------------------------ MODULE Validation ------------------------------
(***************************************************************************)
(* validate (validation.rs): the problems of a spec under the allowed      *)
(* paths.  A path is the sequence of its segments, a segment a sequence of *)
(* characters; a pattern has segments too, and prefix where it ends in *.  *)
(* Names, free text and the wording of problems are left out.              *)
(***************************************************************************)
EXTENDS Schedule, Sequences, SequencesExt

Slash == "/"

\* A path, or a pattern without its *, as it is split at its slashes.
Char == STRING \ {Slash, "some", "rest"}
Path == Seq(Seq(Char)) \ {<<>>}
Pattern == [segments : Path, prefix : BOOLEAN]
OpenBaoTarget == [mount : Path, path : Path, key : Seq(STRING)]

CONSTANTS Whitespace,    \* the characters trim leaves off
          CasesToJudge   \* bound: the specs, each with the allowed paths of a moment

\* A target without a type, and problems not yet asked for, are None.
ASSUME CasesAssumption ==
  /\ None \notin OpenBaoTarget /\ None # {}
  /\ Whitespace \subseteq Char
  /\ \A c \in CasesToJudge : /\ c.allowed \subseteq Pattern
                             /\ c.spec.rotation \in RotationPolicy
                             /\ c.spec.targets \in Seq(OpenBaoTarget \cup {None})

VARIABLES spec, allowed,
          problems    \* what validate returned, None before

validationVars == <<spec, allowed, problems>>

PLUS == <<"+">>
DATA == <<"d", "a", "t", "a">>
DOTS == <<".", ".">>

-----------------------------------------------------------------------------
\* One segment of the pattern against one of the path.
MatchesSegment(seg, current) == IF seg = PLUS THEN current # <<>> ELSE current = seg

\* Faulty variant: a pattern may end before the path does.
GlobMatchStart(p, path) ==
  LET match[i \in 1 .. Len(p.segments)] ==
        IF i = Len(p.segments) /\ p.prefix
          THEN IF p.segments[i] = PLUS THEN path[i] # <<>> ELSE IsPrefix(p.segments[i], path[i])
          ELSE /\ MatchesSegment(p.segments[i], path[i])
               /\ IF i = Len(p.segments) THEN TRUE ELSE i < Len(path) /\ match[i + 1]
  IN match[1]

\* glob_match: match[i] is the loop from the i-th segments on.
GlobMatch(p, path) ==
  LET last == Len(p.segments)
      match[i \in 1 .. last] ==
        IF i = last /\ p.prefix
          THEN IF p.segments[i] = PLUS THEN path[i] # <<>>
               ELSE IsPrefix(p.segments[i], path[i])
          ELSE /\ MatchesSegment(p.segments[i], path[i])
               /\ IF i < Len(path) THEN i # last /\ match[i + 1] ELSE i = last
  IN match[1]

Allows(patterns, path) == \E p \in patterns : GlobMatch(p, path)

\* trim_matches('/')
Trim(path) ==
  LET kept == {i \in 1 .. Len(path) : path[i] # <<>>}
  IN IF kept = {} THEN <<<<>>>>
     ELSE SubSeq(path, CHOOSE i \in kept : \A j \in kept : i <= j,
                       CHOOSE i \in kept : \A j \in kept : j <= i)

PolicyPath(t) == Trim(t.mount) \o <<DATA>> \o Trim(t.path)

\* Faulty variant: the path is taken as it is written.
RawReference(t) == <<t.mount, t.path, t.key>>

Reference(t) == <<t.mount, Trim(t.path), t.key>>

-----------------------------------------------------------------------------
DurationFields == {"maxAge", "warnBefore", "criticalBefore"}

Crossed(r) ==
  LET w == Parse(r.warnBefore)
      c == Parse(r.criticalBefore)
  IN {w, c} \cap {None, Invalid} = {} /\ c > w

\* value.trim().is_empty(); a slash is no whitespace.
Blank(characters) == Range(characters) \subseteq Whitespace

\* The problems of target i; a target without a type is None.
TargetProblems(s, patterns, i) ==
  LET t == s.targets[i]
  IN IF t = None THEN {"no type"}
     ELSE {f \in {"mount", "path"} : Len(t[f]) = 1 /\ Blank(t[f][1])}
          \cup {f \in {"key"} : Blank(t[f])}
          \cup {x \in {"invalid"} : DOTS \in Range(t.path) \/ Len(t.mount) > 1}
          \cup {x \in {"not allowed"} : ~Allows(patterns, PolicyPath(t))}
          \cup {x \in {"duplicate"} : \E j \in 1 .. i - 1 :
                  s.targets[j] # None /\ Reference(s.targets[j]) = Reference(t)}

Validate(s, patterns) ==
  {f \in DurationFields : Parse(s.rotation[f]) = Invalid}
  \cup {x \in {"crossed"} : Crossed(s.rotation)}
  \cup {x \in {"renewUrl"} : s.renewUrl = "other"}
  \cup UNION {TargetProblems(s, patterns, i) : i \in DOMAIN s.targets}

ValidationInit == /\ \E c \in CasesToJudge : spec = c.spec /\ allowed = c.allowed
                  /\ problems = None

Judge == /\ problems = None
         /\ problems' = Validate(spec, allowed)
         /\ UNCHANGED <<spec, allowed>>

ValidationSpec == ValidationInit /\ [][Judge]_validationVars

-----------------------------------------------------------------------------
(* The policy language, told on characters: of a pattern's characters, a   *)
(* segment that is + stands for one or more characters other than /, a *   *)
(* at the end for any, and every other for itself.                         *)

Joined(pieces) ==
  LET join[i \in 1 .. Len(pieces)] ==
        IF i = 1 THEN pieces[1] ELSE join[i - 1] \o <<Slash>> \o pieces[i]
  IN join[Len(pieces)]

Tokens(seg) == IF seg = PLUS THEN <<"some">> ELSE seg

\* fits[i] is where in the text the tokens from the i-th on describe what follows.
Describes(p, path) ==
  LET t == Joined([i \in 1 .. Len(p.segments) |-> Tokens(p.segments[i])])
             \o (IF p.prefix THEN <<"rest">> ELSE <<>>)
      s == Joined(path)
      fits[i \in 1 .. Len(t) + 1] ==
        IF i > Len(t) THEN {Len(s) + 1}
        ELSE LET next == fits[i + 1]
             IN {j \in 1 .. Len(s) + 1 :
                   IF t[i] = "rest" THEN TRUE
                   ELSE IF t[i] = "some"
                     THEN \E k \in next : j < k /\ \A l \in j .. k - 1 : s[l] # Slash
                   ELSE j <= Len(s) /\ s[j] = t[i] /\ j + 1 \in next}
  IN 1 \in fits[1]

\* A target is turned away for its path exactly if no pattern describes that path in
\* the policy language: glob_match, which goes segment by segment and treats a last
\* segment before * apart, says nothing else (comment on PathAllowList).
GlobMeaning ==
  problems # None =>
    ("not allowed" \in problems <=>
       \E i \in DOMAIN spec.targets :
         /\ spec.targets[i] # None
         /\ ~\E p \in allowed : Describes(p, PolicyPath(spec.targets[i])))

\* No two targets of a valid spec are the same key of the same secret, in whatever
\* way their paths are written; one would overwrite the other (validate's seen).
ValidTargetsAreDistinct ==
  problems = {} =>
    \A i, j \in DOMAIN spec.targets : i # j =>
      LET a == spec.targets[i]
          b == spec.targets[j]
      IN <<PolicyPath(a), a.key>> # <<PolicyPath(b), b.key>>

\* A valid spec with a maximum age gives a key that was rotated a deadline, and not
\* before that rotation: parse refuses what would overflow instead of wrapping, and
\* validate reports it.  Only a sum no Timestamp can name is dropped silently.
ValidMeansScheduled ==
  problems = {} /\ spec.rotation.maxAge # None =>
    \A at \in 0 .. MAX_TIMESTAMP :
      LET r == RotateBy(at, spec.rotation)
      IN IF r = None THEN at + Parse(spec.rotation.maxAge) > MAX_TIMESTAMP ELSE r >= at
=============================================================================
