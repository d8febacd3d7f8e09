------------------------------ MODULE MCOperands -------------------------------
EXTENDS Operands

AllWords == 0..(INT_MOD - 1)
SomeFloats == {-Unit, 0, 1, 2, 2 * Unit}
=============================================================================
