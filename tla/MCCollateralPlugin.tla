---------------------- MODULE MCCollateralPlugin ----------------------
EXTENDS CollateralPlugin

OnlyIcETH == {"icETH"}
=======================================================================
