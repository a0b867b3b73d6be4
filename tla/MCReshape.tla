----------------------------- MODULE MCReshape ------------------------------
EXTENDS Reshape
ShapesAll == {<<1, 1, 7>>, <<2, 2, 9>>, <<2, 1, 6>>, <<3, 2, 13>>, <<1, 2, 5>>, <<2, 3, 13>>}
Volumes1  == {<<2, 2, 5>>, <<3, 3, 4>>, <<2, 3, 9>>, <<1, 2, 12>>, <<3, 4, 7>>}
=============================================================================
