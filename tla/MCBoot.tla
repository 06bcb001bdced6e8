------------------------------- MODULE MCBoot -------------------------------
(* Small instance of Boot: the settings as shipped, and one for each way to *)
(* a clock that the wizard offers.                                          *)
EXTENDS Boot

AllConfigs ==
    {Shipped,
     [Shipped EXCEPT !.pllsel = 1, !.ahbdiv = 2],
     [Shipped EXCEPT !.pllsel = 1, !.pll = FALSE, !.mainsel = 1],
     [Shipped EXCEPT !.pllsel = 1, !.bypass = TRUE],
     [Shipped EXCEPT !.mainsel = 0, !.ahbdiv = 3],
     [Shipped EXCEPT !.wdt = TRUE, !.freqsel = 15, !.divsel = 31, !.mainsel = 2],
     [Shipped EXCEPT !.wdt = TRUE, !.freqsel = 1, !.mainsel = 2]}
=============================================================================
