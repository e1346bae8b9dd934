-------------------------------- MODULE Merge --------------------------------
(***************************************************************************)
(* pkg/helper: how settings and objects of several origins become one.     *)
(*                                                                         *)
(* A settings file is a function from the paths of its leaves to values;   *)
(* an object a function from its fields to values.  Of a value it matters  *)
(* whether mergo takes it for empty: false, 0, "", the zero of its type.   *)
(***************************************************************************)
EXTENDS SequencesExt, Integers

CONSTANTS
    None,       \* Go's nil
    Malformed,  \* text that is not YAML settings
    Empty       \* the values mergo takes for empty

ASSUME EmptyAssumption == "" \in Empty

\* A string is empty to mergo only if it has no character; the zeroes of
\* other types are no strings of the program.
Text == (STRING \ Empty) \union {""}

\* mergo.Merge on maps and structs of plain values: dst keeps what it has
\* and takes from src what it has not, or has empty.
Fill(dst, src) ==
    [f \in DOMAIN dst \union DOMAIN src |->
        IF f \in DOMAIN dst /\ (dst[f] \notin Empty \/ f \notin DOMAIN src)
          THEN dst[f] ELSE src[f]]

\* MergeSettings: files of one side only are kept as they are; a file of
\* both is read, filled and written again, or the whole merge fails.
MergeSettings(m1, m2) ==
    CASE m1 = None -> m2
      [] m1 # None /\ m2 = None -> m1
      [] OTHER ->
           LET both == DOMAIN m1 \intersect DOMAIN m2
           IN  IF \E file \in both : Malformed \in {m1[file], m2[file]}
                 THEN Malformed
                 ELSE [file \in DOMAIN m1 \union DOMAIN m2 |->
                         IF file \in both THEN Fill(m1[file], m2[file])
                         ELSE IF file \in DOMAIN m1 THEN m1[file] ELSE m2[file]]

\* Merge(dst, srcs...): the sources in turn, those that are nil skipped.
Merge(dst, srcs) ==
    LET merged[n \in 0..Len(srcs)] ==
          CASE n = 0 -> dst
            [] n > 0 /\ srcs[n] = None -> merged[n - 1]
            [] OTHER -> Fill(merged[n - 1], srcs[n])
    IN  merged[Len(srcs)]

\* Where a field holds a pointer, dst takes the pointer of the first source
\* that has one, and later sources are merged into what it points to.
MergePointers(dst, src) ==
    [f \in DOMAIN dst \union DOMAIN src |->
        IF f \notin DOMAIN dst THEN src[f]
        ELSE IF f \notin DOMAIN src THEN dst[f]
        ELSE Fill(dst[f], src[f])]

\* k8sbuilder with the option Merge: labels by key, environment variables by
\* name; of those with the same one, what is merged last stays.
LastWins(maps) ==
    [k \in UNION {DOMAIN map : map \in ToSet(maps)} |->
        maps[Max({i \in DOMAIN maps : k \in DOMAIN maps[i]})][k]]
=============================================================================
