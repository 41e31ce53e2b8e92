------------------------------ MODULE PathOps ------------------------------
(***************************************************************************)
(* Paths as the code handles them.  A path is the sequence of its          *)
(* components, "/" first when it is absolute; two spellings of a path are  *)
(* two sequences, as they are two strings to the code.  A location is what *)
(* the operating system makes of a path: absolute, without "." and "..".   *)
(***************************************************************************)
EXTENDS Naturals, Sequences, SequencesExt

Absolute(p) == p # <<>> /\ p[1] = "/"

(* Path::join                                                               *)
Join(base, p) == IF Absolute(p) THEN p ELSE base \o p

(* Path::parent: a final "." is no component, a "." in front is one.        *)
Trimmed(p) ==
  IF p = <<>> THEN p
  ELSE SubSeq(p, 1, Max({n \in 1 .. Len(p) : n = 1 \/ p[n] # "."}))

Parent(p) == Trimmed(Front(Trimmed(p)))

(* One component further from a location.                                   *)
Into(l, c) ==
  CASE c = "." -> l
    [] c = ".." -> IF Len(l) > 1 THEN Front(l) ELSE l
    [] OTHER -> Append(l, c)

Location(cwd, p) ==
  LET path == Join(cwd, p)
      At[n \in 1 .. Len(path)] == IF n = 1 THEN <<"/">> ELSE Into(At[n - 1], path[n])
  IN At[Len(path)]

IsLocation(l) == l \in Seq(STRING) /\ Absolute(l)

(* lexically_clean: drops ".", and keeps "..".                              *)
Cleaned(p) ==
  LET Of[n \in 0 .. Len(p)] ==
        IF n = 0 THEN <<>> ELSE IF p[n] = "." THEN Of[n - 1] ELSE Append(Of[n - 1], p[n])
  IN Of[Len(p)]

(* expand_home, expand_home_path; home is <<>> when it is not known.        *)
Expanded(p, home) ==
  IF p # <<>> /\ p[1] = "~" /\ home # <<>> THEN home \o Tail(p) ELSE p

=============================================================================
