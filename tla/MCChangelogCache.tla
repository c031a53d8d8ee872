-------------------------- MODULE MCChangelogCache --------------------------
(***************************************************************************)
(* Two mods: names of which one begins with the other, and names that only *)
(* differ by a character a folder cannot have.                             *)
(***************************************************************************)
EXTENDS ChangelogCache

TwoMods == <<"m", "n">>
Letters == {"F", "b", "-", "_"}
NamesApart == ("m" :> <<"F", "!">> @@ "n" :> <<"F", "_", "-", "b">>)
NamesAlike == ("m" :> <<"F", "!">> @@ "n" :> <<"F", "?">>)

Doc == <<"d">>
Tabbed == <<"d", "\t", "\\">>
Model == <<"w">>
ReadMe == <<"r">>
Held(size, data) == [size |-> size, data |-> data]

\* The same sizes twice; other sizes and a read-me.
ContentsOfM ==
  { Doc :> Held(1, "a") @@ Tabbed :> Held(2, "a") @@ Model :> Held(1, "a"),
    Doc :> Held(1, "b") @@ Tabbed :> Held(2, "a") @@ Model :> Held(1, "b"),
    Doc :> Held(2, "c") @@ Tabbed :> Held(1, "a") @@ Model :> Held(1, "a") @@ ReadMe :> Held(1, "c") }
ContentsOfN == { Model :> Held(1, "n") @@ Doc :> Held(1, "n") @@ ReadMe :> Held(1, "c") }
ContentsOfBoth == ("m" :> ContentsOfM @@ "n" :> ContentsOfN)
DocumentNames == {Doc, Tabbed}
NotMerged == {ReadMe}

\* What a failing call leaves out: a file in a folder that cannot be listed for
\* the fingerprint, all of a folder that cannot be listed to be worked out, a
\* document that cannot be read, the game's document.
MCLostTogether == { {<<"listing", Doc>>}, {"folder"} \X Files, {<<"folder", Doc>>}, {<<"game", Doc>>} }
=============================================================================
