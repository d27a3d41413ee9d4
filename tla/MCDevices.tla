----------------------------- MODULE MCDevices ------------------------------
(***************************************************************************)
(* A directory device: names around the limits of the code, files .p00 and *)
(* .p01 of a local name.                                                   *)
(*                                                                         *)
(* A disk image: three tracks of 2, 3 and 2 sectors, the second of which   *)
(* has the directory, in two blocks of two entries. Two bytes to a block.  *)
(***************************************************************************)
EXTENDS D64Image

Overwrite(n) == <<"@", "0", ":">> \o n
Times(k, c) == [i \in 1 .. k |-> c]

(* A, its graphic and A! all become "a"; three ways to type A. With "@0:"  *)
(* before it, the name of 12 characters is not sent. The last two are too  *)
(* long: one is cut to A, one to the name of 12 characters.                *)
Twelve == Times(12, "B")
SomeNames ==
    {<<"A">>, <<"A", Shifted, Space>>, Overwrite(<<"A">>), <<"a">>, <<"A", "!">>,
     Twelve, Overwrite(Twelve),
     Overwrite(<<"A">> \o Times(12, Space) \o <<"B">>), Twelve \o Times(4, Space) \o <<"B">>}

Unescaped == {"A", "B", Space, "0", "."}
LowerCase == [c \in {"A", "a", "B", "b", "."} |->
                CASE c \in {"A", "a"} -> "a" [] c \in {"B", "b"} -> "b" [] OTHER -> c]

(* A file that is no PC64 file, or one that another program has padded and *)
(* that local_encode would have called the same.                           *)
Others(local, header, pc64) ==
    [local |-> local, ctr |-> 0, header |-> header, pc64 |-> pc64, data |-> 0]
SomeFiles == {{}, {Others(<<"a">>, <<>>, FALSE)},
              {Others(<<"a">>, <<"A", Shifted, Space>>, TRUE)},
              {Others(<<"a">>, <<"B">>, TRUE)}}

SmallDisk == <<2, 3, 2, 1>>

A1 == <<"A">>
A2 == <<"A", "!">>
Old == <<"a">>      \* scratched, its blocks used again
Free4 == {<<1, 0>>, <<1, 1>>, <<3, 0>>, <<3, 1>>}

Slot(type, name) == [type |-> type, name |-> name]
SlotOrders ==
    {<<Slot("DEL", Old), Slot("PRG", A1), Slot("PRG", A2), Slot("DEL", Old)>>,
     <<Slot("PRG", A2), Slot("DEL", A1), Slot("DEL", Old), Slot("PRG", A1)>>,
     <<Slot("PRG", A1), Slot("SEQ", A2), Slot("DEL", A2), Slot("DEL", Old)>>,
     <<Slot("DEL", A1), Slot("PRG", A2), Slot("DEL", Old), Slot("DEL", A1)>>}

Chains == UNION {{c \in [1 .. k -> Free4] : \A i, j \in 1 .. k : c[i] = c[j] => i = j} : k \in 1 .. 3}
Bytes(n, k) == [i \in 1 .. k |-> n + i]

On(c1, c2, fill, slots, altered) ==
    [dir |-> <<<<2, 1>>, <<2, 2>>>>, slots |-> slots, altered |-> altered,
     chain |-> (A1 :> c1) @@ (A2 :> c2) @@ (Old :> c2),
     data |-> (A1 :> Bytes(0, 2 * Len(c1) - fill)) @@ (A2 :> Bytes(20, fill + 1))]

Sound == {On(c1, <<p>>, fill, slots, <<>>) :
            c1 \in Chains, p \in Free4, fill \in 0 .. 1, slots \in SlotOrders}
Broken == {On(<<<<3, 0>>, <<1, 0>>>>, <<<<1, 1>>>>, 0, CHOOSE s \in SlotOrders : TRUE, from :> to) :
             from \in {<<2, 1>>, <<2, 2>>, <<3, 0>>, <<1, 0>>},
             to \in {<<2, 1>>, <<3, 0>>, <<1, 1>>, <<4, 0>>, <<5, 0>>, <<6, 0>>, <<0, 0>>}}
SomeLayouts ==
    {l \in Sound : Range(l.chain[A1]) \cap Range(l.chain[A2]) = {}} \cup Broken
=============================================================================
