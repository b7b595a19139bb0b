----------------------------- MODULE SdlTextures -----------------------------
(***************************************************************************)
(* What SDL expects of a renderer's textures and targets: every surface    *)
(* has one image, and nothing but SDL's own calls changes it.  There are   *)
(* no shadows, no device memory and no budget.                             *)
(***************************************************************************)
CONSTANTS Textures, Composition, Cells, Images, NoImage, Blank, Rects

VARIABLES
  image,  \* the image of each surface, NoImage for a texture not created
  call    \* what the last call showed, returned or copied

vars == <<image, call>>

Surfaces == Textures \cup {Composition}
Live(t) == image[t] # NoImage

Quiet == [kind |-> "quiet"]
Shown(i) == [kind |-> "present", image |-> i]
Returned(i) == [kind |-> "read", image |-> i]
Copied(source) == [kind |-> "copy", source |-> source]

Init ==
  /\ \E back \in Images :
       image = [t \in Surfaces |-> IF t = Composition THEN back ELSE NoImage]
  /\ call = Quiet

Becomes(t, new) == image' = [image EXCEPT ![t] = new]

Create(t) == ~Live(t) /\ call' = Quiet /\ Becomes(t, Blank)

Destroy(t) == Live(t) /\ call' = Quiet /\ Becomes(t, NoImage)

\* A rectangle of a surface takes the pixels of another image.
Draw(t, rect, from) ==
  Live(t) /\ Becomes(t, [c \in Cells |-> IF c \in rect THEN from[c] ELSE image[t][c]])

Write(t, rect) == call' = Quiet /\ \E from \in Images : Draw(t, rect, from)

Copy(t, source, rect) ==
  call' = Copied(source) /\ Live(source) /\ Draw(t, rect, image[source])

Read(t) == call' = Returned(image[t]) /\ Live(t) /\ image' = image

\* SDL leaves the back buffer undefined after a presentation.
Present ==
  /\ call' = Shown(image[Composition])
  /\ \E back \in Images : Becomes(Composition, back)

\* A call that draws nothing, or fails.
Forget == call' = Quiet /\ image' = image

Next ==
  \/ Forget
  \/ \E t \in Surfaces : Read(t)
  \/ \E t \in Surfaces, rect \in Rects :
        Write(t, rect) \/ \E source \in Textures : Copy(t, source, rect)
  \/ Present
  \/ \E t \in Textures : Create(t) \/ Destroy(t)

Spec == Init /\ [][Next]_vars

=============================================================================
