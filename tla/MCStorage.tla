------------------------------ MODULE MCStorage ------------------------------
(***************************************************************************)
(* A small file tree for the storage back ends.  A key is a sequence of    *)
(* letters (numbers from 1) and slashes (0): the folder "a" with a file    *)
(* and a subfolder, its sibling "ab", a file "a", and a destination "d"    *)
(* that may hold files already.                                            *)
(***************************************************************************)
EXTENDS Storage

KeyAX == <<1, 0, 4>>
KeyABX == <<1, 0, 2, 0, 4>>
SiblingX == <<1, 2, 0, 4>>

MCStFiles ==
  { {KeyAX, KeyABX, SiblingX}, {KeyAX, KeyABX, SiblingX, <<3, 0, 4>>},
    {<<1>>, SiblingX}, {KeyAX, <<1, 0, 2>>}, {KeyABX} }
MCStCopies == {<< <<1>>, <<3>> >>, << <<1, 0>>, <<3>> >>, << <<1>>, <<1, 0, 3>> >>}
MCStUploads == {<<4>>, <<2, 0, 4>>}
MCStOthers == {KeyAX, <<1, 0, 3, 0, 4>>, <<3, 0, 2>>}
=============================================================================
