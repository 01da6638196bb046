---------------------------- MODULE PathSpelling ----------------------------
(***************************************************************************)
(* The texts of paths and what `resolve` and `render` make of them         *)
(* (delulu-broker/src/path.rs).  A text is the parts between its slashes,  *)
(* of either kind; a leading slash leaves an empty first part.  A drive    *)
(* letter joined to its first name ("C:x") is left out.                    *)
(***************************************************************************)
EXTENDS PathScope, SequencesExt

Drives == {"C:", "D:"}

Root == [kind |-> "root", text |-> ""]
Drive(text) == [kind |-> "drive", text |-> text]

\* What a text is anchored at, and the parts that are walked from there.
OnDrive(parts) == parts[1] \in Drives

Anchor(parts) ==
  IF OnDrive(parts) THEN <<Drive(parts[1])>>
  ELSE IF parts[1] = "" /\ Len(parts) > 1 THEN <<Root>>
  ELSE << >>

Walked(parts) == IF OnDrive(parts) THEN Tail(parts) ELSE parts

\* One part: nothing, a step up that takes a name back or stays at an anchor, a
\* name.
WalkPart(segs, part) ==
  CASE part \in {"", "."} -> segs
    [] part = ".." -> IF segs = << >> \/ Last(segs).kind = "up" THEN Append(segs, Up)
                      ELSE IF Last(segs).kind = "name" THEN Front(segs)
                      ELSE segs
    [] OTHER -> Append(segs, Named(part))

Resolve(parts) == FoldLeft(WalkPart, Anchor(parts), Walked(parts))

Texts(segs) == [i \in 1..Len(segs) |-> segs[i].text]

\* A relative path is written under "./", so that a name that looks like a drive
\* is not read as one.
Render(segs) ==
  CASE segs = << >> -> <<".">>
    [] segs # << >> /\ segs[1].kind \in {"root", "drive"} ->
         Texts(segs) \o (IF Len(segs) = 1 THEN <<"">> ELSE << >>)
    [] OTHER -> <<".">> \o Texts(segs)

Canonicalize(parts) == Render(Resolve(parts))

-----------------------------------------------------------------------------
(* A file system to read them in: names below a root, no links.            *)

\* Where a path leads from a directory, given as the names below the root.
Leads(from, segs) ==
  FoldLeft(LAMBDA at, seg :
             CASE seg.kind = "up"   -> IF at = << >> THEN at ELSE Front(at)
               [] seg.kind = "name" -> Append(at, seg.text)
               [] seg.kind \in {"root", "drive"} -> << >>,
           from, segs)

\* The same, of a text read part by part without resolving it first.
LeadsText(from, parts) ==
  FoldLeft(LAMBDA at, part :
             CASE part \in {"", "."} -> at
               [] part = ".." -> IF at = << >> THEN at ELSE Front(at)
               [] OTHER -> Append(at, part),
           IF Anchor(parts) = << >> THEN from ELSE << >>, Walked(parts))
=============================================================================
