----------------------------- MODULE MCS3Bucket -----------------------------
(* S3Bucket with the names "a" and "a-": the key "a-" sorts before "a/".   *)
EXTENDS S3Bucket

a  == <<3>>
ad == <<3, 1>>

MCObject == {<<a>>, <<ad>>, <<a, a>>, <<a, a, ad>>}
MCCopies == {<<<<a>>, <<a, a, ad>>>>}
MCMarker == {<<a>>, <<a, ad>>}
MCBulk   == {<<<<a, a>>, <<a>>>>}
Ask(prefix, delimiter, max, start, guest) ==
  [prefix |-> prefix, delimiter |-> delimiter, max |-> max, start |-> start, guest |-> guest]

MCQuery ==
  { Ask(<<>>, FALSE, 1, <<>>, FALSE), Ask(<<>>, TRUE, 1, <<>>, FALSE),
    Ask(<<3>>, TRUE, 1, <<>>, FALSE), Ask(<<3, 2>>, TRUE, 1, <<>>, FALSE),
    Ask(<<3, 2, 3>>, FALSE, 2, <<>>, FALSE), Ask(<<>>, FALSE, 2, <<3, 1>>, FALSE),
    Ask(<<>>, FALSE, 0, <<>>, FALSE), Ask(<<>>, FALSE, 2, <<>>, TRUE) }

Root == [parent |-> 0, name |-> BucketName, active |-> TRUE]
In(p, n) == [parent |-> p, name |-> n, active |-> TRUE]
At(f, n) == [folder |-> f, name |-> n]

MCStores ==
  { [folders |-> <<>>, files |-> {}],
    [folders |-> <<Root>>, files |-> {}],
    [folders |-> <<Root, In(1, a)>>, files |-> {At(1, a), At(1, ad), At(2, a)}],
    [folders |-> <<Root, In(1, a), In(2, a)>>, files |-> {At(1, ad), At(3, ad)}],
    [folders |-> <<Root, In(1, a), In(2, ad)>>, files |-> {}] }
=============================================================================
