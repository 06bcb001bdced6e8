----------------------------- MODULE BootProofs -----------------------------
(***************************************************************************)
(* Whatever clock settings the program was built with: nothing runs before *)
(* what it uses is there, and the clocks are what the program takes them   *)
(* for.                                                                    *)
(***************************************************************************)
EXTENDS Boot, SequenceTheorems, TLAPS

(* Where things are in a program that is put together from parts.           *)
Sized(s, n) == n \in Nat /\ \E C : s \in Seq(C) /\ Len(s) = n
Part(s, k, t, n) == \A i \in 1 .. n : s[k + i] = t[i]

LEMMA Joined ==
    ASSUME NEW s, NEW t, NEW n, NEW m, Sized(s, n), Sized(t, m)
    PROVE  /\ n \in Nat /\ m \in Nat
           /\ Sized(s \o t, n + m)
           /\ Part(s \o t, 0, s, n)
           /\ Part(s \o t, n, t, m)
  <1>1. PICK A : s \in Seq(A) /\ Len(s) = n
    BY DEF Sized
  <1>2. PICK B : t \in Seq(B) /\ Len(t) = m
    BY DEF Sized
  <1>3. n \in Nat /\ m \in Nat
    BY DEF Sized
  <1> DEFINE C == A \cup B
  <1>4. s \in Seq(C) /\ t \in Seq(C)
    BY <1>1, <1>2
  <1> HIDE DEF C
  <1>5. /\ s \o t \in Seq(C)
        /\ Len(s \o t) = n + m
        /\ \A i \in 1 .. n + m : (s \o t)[i] = IF i <= n THEN s[i] ELSE t[i - n]
    BY <1>1, <1>2, <1>4, ConcatProperties
  <1>6. Sized(s \o t, n + m)
    BY <1>3, <1>5 DEF Sized
  <1>7. ASSUME NEW i \in 1 .. n
        PROVE  (s \o t)[0 + i] = s[i]
    <2>1. 0 + i = i /\ i \in 1 .. n + m /\ i <= n
      BY <1>3
    <2> QED
      BY <1>5, <2>1
  <1>8. ASSUME NEW i \in 1 .. m
        PROVE  (s \o t)[n + i] = t[i]
    <2>1. n + i \in 1 .. n + m /\ ~(n + i <= n) /\ (n + i) - n = i
      BY <1>3
    <2> QED
      BY <1>5, <2>1
  <1> QED
    BY <1>3, <1>6, <1>7, <1>8 DEF Part

(* A part stays where it is when something is put behind it.                *)
LEMMA PartStays ==
    ASSUME NEW s, NEW t, NEW n, NEW m, Sized(s, n), Sized(t, m),
           NEW k \in Nat, NEW u, NEW l \in Nat, k + l <= n, Part(s, k, u, l)
    PROVE  Part(s \o t, k, u, l)
  <1>1. Part(s \o t, 0, s, n) /\ n \in Nat
    BY Joined
  <1>2. ASSUME NEW i \in 1 .. l
        PROVE  (s \o t)[k + i] = u[i]
    <2>1. k + i \in 1 .. n /\ 0 + (k + i) = k + i
      BY <1>1
    <2> QED
      BY <1>1, <2>1 DEF Part
  <1> QED
    BY <1>2 DEF Part

LEMMA Short ==
    /\ Sized(<<>>, 0)
    /\ \A a : Sized(<<a>>, 1)
    /\ \A a, b : Sized(<<a, b>>, 2)
    /\ \A a, b, c : Sized(<<a, b, c>>, 3)
    /\ \A a, b, c, d : Sized(<<a, b, c, d>>, 4)
  <1>1. Sized(<<>>, 0)
    <2>1. <<>> \in Seq({}) /\ Len(<<>>) = 0
      OBVIOUS
    <2> QED
      BY <2>1 DEF Sized
  <1>2. ASSUME NEW a PROVE Sized(<<a>>, 1)
    <2>1. <<a>> \in Seq({a}) /\ Len(<<a>>) = 1
      OBVIOUS
    <2> QED
      BY <2>1 DEF Sized
  <1>3. ASSUME NEW a, NEW b PROVE Sized(<<a, b>>, 2)
    <2>1. <<a, b>> \in Seq({a, b}) /\ Len(<<a, b>>) = 2
      OBVIOUS
    <2> QED
      BY <2>1 DEF Sized
  <1>4. ASSUME NEW a, NEW b, NEW c PROVE Sized(<<a, b, c>>, 3)
    <2>1. <<a, b, c>> \in Seq({a, b, c}) /\ Len(<<a, b, c>>) = 3
      OBVIOUS
    <2> QED
      BY <2>1 DEF Sized
  <1>5. ASSUME NEW a, NEW b, NEW c, NEW d PROVE Sized(<<a, b, c, d>>, 4)
    <2>1. <<a, b, c, d>> \in Seq({a, b, c, d}) /\ Len(<<a, b, c, d>>) = 4
      OBVIOUS
    <2> QED
      BY <2>1 DEF Sized
  <1> QED
    BY <1>1, <1>2, <1>3, <1>4, <1>5

LEMMA DriversSized ==
    /\ Sized(uart_init, 10)
    /\ Sized(spi_init, 8)
    /\ Sized(i2c_init, 12)
  <1>1. ASSUME NEW a, NEW b, NEW c, NEW d, NEW e, NEW f, NEW g, NEW h
        PROVE  Sized(<<a, b, c, d, e, f, g, h>>, 8)
    <2>1. /\ <<a, b, c, d, e, f, g, h>> \in Seq({a, b, c, d, e, f, g, h})
          /\ Len(<<a, b, c, d, e, f, g, h>>) = 8
      OBVIOUS
    <2> QED
      BY <2>1 DEF Sized
  <1>2. ASSUME NEW a, NEW b, NEW c, NEW d, NEW e, NEW f, NEW g, NEW h, NEW i, NEW j
        PROVE  Sized(<<a, b, c, d, e, f, g, h, i, j>>, 10)
    <2>1. /\ <<a, b, c, d, e, f, g, h, i, j>> \in Seq({a, b, c, d, e, f, g, h, i, j})
          /\ Len(<<a, b, c, d, e, f, g, h, i, j>>) = 10
      OBVIOUS
    <2> QED
      BY <2>1 DEF Sized
  <1>3. ASSUME NEW a, NEW b, NEW c, NEW d, NEW e, NEW f, NEW g, NEW h, NEW i, NEW j,
               NEW k, NEW l
        PROVE  Sized(<<a, b, c, d, e, f, g, h, i, j, k, l>>, 12)
    <2>1. /\ <<a, b, c, d, e, f, g, h, i, j, k, l>>
                \in Seq({a, b, c, d, e, f, g, h, i, j, k, l})
          /\ Len(<<a, b, c, d, e, f, g, h, i, j, k, l>>) = 12
      OBVIOUS
    <2> QED
      BY <2>1 DEF Sized
  <1> QED
    BY <1>1, <1>2, <1>3 DEF uart_init, spi_init, i2c_init
----------------------------------------------------------------------------
(* The program from reset to the application, part by part.                 *)

(* The last place before the main clock is chosen, that of the update of    *)
(* SystemCoreClock, and the last before the drivers are set up.             *)
PllEnd == 7 + (IF cfg.pll THEN 3 ELSE 0)
SelBegin == PllEnd + (IF cfg.wdt THEN 2 ELSE 0)
Upd == SelBegin + 9
Dev == Upd + (IF SystemCoreClock \div 1000 - 1 \in 0 .. SysTick_LOAD_RELOAD_Msk THEN 2 ELSE 0)

LEMMA Within ==
    ASSUME NEW r, NEW k \in Nat, NEW s, NEW t, NEW n, NEW m, Sized(s, n), Sized(t, m),
           Part(r, k, s \o t, n + m)
    PROVE  Part(r, k, s, n) /\ Part(r, k + n, t, m)
  <1>1. n \in Nat /\ m \in Nat /\ Part(s \o t, 0, s, n) /\ Part(s \o t, n, t, m)
    BY Joined
  <1>2. ASSUME NEW i \in 1 .. n
        PROVE  r[k + i] = s[i]
    <2>1. i \in 1 .. n + m /\ 0 + i = i
      BY <1>1
    <2> QED
      BY <1>1, <2>1 DEF Part
  <1>3. ASSUME NEW i \in 1 .. m
        PROVE  r[(k + n) + i] = t[i]
    <2>1. n + i \in 1 .. n + m /\ k + (n + i) = (k + n) + i
      BY <1>1
    <2> QED
      BY <1>1, <2>1 DEF Part
  <1> QED
    BY <1>2, <1>3 DEF Part

LEMMA InPart ==
    ASSUME NEW r, NEW k, NEW t, NEW n, Part(r, k, t, n), NEW i \in 1 .. n
    PROVE  r[k + i] = t[i]
  BY DEF Part

LEMMA Layout ==
    /\ PllEnd \in Nat /\ SelBegin \in Nat /\ Upd \in Nat /\ Dev \in Nat
    /\ Sized(Reset_Handler, Dev + 34)
    /\ Part(Reset_Handler, 0, <<Do("copy .data"), Do("clear .bss")>>, 2)
    /\ Part(Reset_Handler, 2, <<PowerUp("SYSOSC"), Write("SYSPLLCLKSEL", cfg.pllsel)>>, 2)
    /\ Part(Reset_Handler, 4, Toggle("SYSPLLCLKUEN"), 3)
    /\ Part(Reset_Handler, 7,
            IF cfg.pll THEN <<Write("SYSPLLCTRL", [m |-> cfg.m, bypass |-> cfg.bypass]),
                              PowerUp("SYSPLL"), Do("wait for lock")>> ELSE <<>>,
            IF cfg.pll THEN 3 ELSE 0)
    /\ Part(Reset_Handler, PllEnd,
            IF cfg.wdt THEN <<Write("WDTOSCCTRL", [freqsel |-> cfg.freqsel,
                                                   divsel |-> cfg.divsel]),
                              PowerUp("WDTOSC")>> ELSE <<>>,
            IF cfg.wdt THEN 2 ELSE 0)
    /\ Part(Reset_Handler, SelBegin, <<Write("MAINCLKSEL", cfg.mainsel)>>, 1)
    /\ Part(Reset_Handler, SelBegin + 1, Toggle("MAINCLKUEN"), 3)
    /\ Part(Reset_Handler, SelBegin + 4,
            <<Write("SYSAHBCLKDIV", cfg.ahbdiv), Write("SYSAHBCLKCTRL", AHBCLKCTRL),
              Write("SSP0CLKDIV", SSP0CLKDIV_Val), Write("UARTCLKDIV", UARTCLKDIV_Val)>>, 4)
    /\ Part(Reset_Handler, SelBegin + 8, <<Do("SystemCoreClockUpdate")>>, 1)
    /\ Part(Reset_Handler, Upd, SysTick_Config(SystemCoreClock \div 1000), Dev - Upd)
    /\ Part(Reset_Handler, Dev, uart_init, 10)
    /\ Part(Reset_Handler, Dev + 10, spi_init, 8)
    /\ Part(Reset_Handler, Dev + 18, i2c_init, 12)
    /\ Part(Reset_Handler, Dev + 30, <<Do("bmw_ui_init"), Do("finish")>>, 2)
    /\ Part(Reset_Handler, Dev + 32, <<Write("DIR", {2}), Write("DATA", {2})>>, 2)
  <1> DEFINE R == Reset_Handler
             Start == <<Do("copy .data"), Do("clear .bss")>>
             First == <<PowerUp("SYSOSC"), Write("SYSPLLCLKSEL", cfg.pllsel)>>
             Tog1 == Toggle("SYSPLLCLKUEN")
             Pll == IF cfg.pll
                    THEN <<Write("SYSPLLCTRL", [m |-> cfg.m, bypass |-> cfg.bypass]),
                           PowerUp("SYSPLL"), Do("wait for lock")>>
                    ELSE <<>>
             Wdt == IF cfg.wdt
                    THEN <<Write("WDTOSCCTRL", [freqsel |-> cfg.freqsel,
                                                divsel |-> cfg.divsel]),
                           PowerUp("WDTOSC")>>
                    ELSE <<>>
             Sel == <<Write("MAINCLKSEL", cfg.mainsel)>>
             Tog2 == Toggle("MAINCLKUEN")
             Last == <<Write("SYSAHBCLKDIV", cfg.ahbdiv), Write("SYSAHBCLKCTRL", AHBCLKCTRL),
                       Write("SSP0CLKDIV", SSP0CLKDIV_Val), Write("UARTCLKDIV", UARTCLKDIV_Val)>>
             Update == <<Do("SystemCoreClockUpdate")>>
             Tick == SysTick_Config(SystemCoreClock \div 1000)
             Ui == <<Do("bmw_ui_init"), Do("finish")>>
             Pins == <<Write("DIR", {2}), Write("DATA", {2})>>
             nPll == IF cfg.pll THEN 3 ELSE 0
             nWdt == IF cfg.wdt THEN 2 ELSE 0
             nTick == IF SystemCoreClock \div 1000 - 1 \in 0 .. SysTick_LOAD_RELOAD_Msk THEN 2 ELSE 0
             P1 == First \o Tog1
             P2 == P1 \o Pll
             P3 == P2 \o Wdt
             P4 == P3 \o Sel
             P5 == P4 \o Tog2
             P6 == P5 \o Last
             P7 == P6 \o Update
             P8 == P7 \o Tick
             P9 == P8 \o uart_init
             P10 == P9 \o spi_init
             P11 == P10 \o i2c_init
             P12 == P11 \o Ui
             P13 == P12 \o Pins
  <1> HIDE DEF R, Start, First, Tog1, Pll, Wdt, Sel, Tog2, Last, Update, Tick, Ui, Pins,
               nPll, nWdt, nTick, P1, P2, P3, P4, P5, P6, P7, P8, P9, P10, P11, P12, P13
  <1>1. SystemInit = P6
    BY DEF SystemInit, First, Tog1, Pll, Wdt, Sel, Tog2, Last, P1, P2, P3, P4, P5, P6
  <1>2. main = P13
    BY <1>1 DEF main, Update, Tick, Ui, Pins, P7, P8, P9, P10, P11, P12, P13
  <1>3. R = Start \o P13
    BY <1>2 DEF Reset_Handler, R, Start
  <1>4. nPll \in Nat /\ nWdt \in Nat /\ nTick \in Nat
    BY DEF nPll, nWdt, nTick
  <1>5. PllEnd = 7 + nPll /\ SelBegin = 7 + nPll + nWdt /\ Upd = 16 + nPll + nWdt /\ Dev = 16 + nPll + nWdt + nTick
    BY DEF PllEnd, SelBegin, Upd, Dev, nPll, nWdt, nTick
  <1>6. /\ Sized(Start, 2) /\ Sized(First, 2) /\ Sized(Sel, 1) /\ Sized(Last, 4)
        /\ Sized(Update, 1) /\ Sized(Ui, 2) /\ Sized(Pins, 2)
    BY Short DEF Start, First, Sel, Last, Update, Ui, Pins
  <1>7. Sized(Tog1, 3) /\ Sized(Tog2, 3)
    BY Short DEF Toggle, Tog1, Tog2
  <1>8. Sized(Pll, nPll)
    BY Short DEF Pll, nPll
  <1>9. Sized(Wdt, nWdt)
    BY Short DEF Wdt, nWdt
  <1>10. Sized(Tick, nTick)
    BY Short DEF SysTick_Config, Tick, nTick
  <1>13. Sized(P1, 2 + 3)
    BY <1>6, <1>7, Joined DEF P1
  <1>14. Sized(P2, 5 + nPll)
    BY <1>8, <1>13, Joined DEF P2
  <1>15. Sized(P3, 5 + nPll + nWdt)
    BY <1>9, <1>14, Joined DEF P3
  <1>16. Sized(P4, 5 + nPll + nWdt + 1)
    BY <1>6, <1>15, Joined DEF P4
  <1>17. Sized(P5, 5 + nPll + nWdt + 1 + 3)
    BY <1>7, <1>16, Joined DEF P5
  <1>18. Sized(P6, 5 + nPll + nWdt + 1 + 3 + 4)
    BY <1>6, <1>17, Joined DEF P6
  <1>19. Sized(P7, 5 + nPll + nWdt + 1 + 3 + 4 + 1)
    BY <1>6, <1>18, Joined DEF P7
  <1>20. PICK u \in Nat : u = 14 + nPll + nWdt
    BY <1>4
  <1>21. Sized(P7, u)
    BY <1>4, <1>19, <1>20
  <1>22. Sized(P8, u + nTick)
    BY <1>10, <1>21, Joined DEF P8
  <1>23. PICK d \in Nat : d = u + nTick
    BY <1>4
  <1>24. Sized(P8, d)
    BY <1>22, <1>23
  <1>25. Sized(P9, d + 10)
    BY <1>24, DriversSized, Joined DEF P9
  <1>26. Sized(P10, d + 10 + 8)
    BY <1>25, DriversSized, Joined DEF P10
  <1>27. Sized(P11, d + 10 + 8 + 12)
    BY <1>26, DriversSized, Joined DEF P11
  <1>28. Sized(P12, d + 10 + 8 + 12 + 2)
    BY <1>6, <1>27, Joined DEF P12
  <1>29. Sized(P13, d + 10 + 8 + 12 + 2 + 2)
    BY <1>6, <1>28, Joined DEF P13
  <1>30. Sized(R, 2 + (d + 10 + 8 + 12 + 2 + 2)) /\ Part(R, 0, Start, 2)
         /\ Part(R, 2, P13, d + 10 + 8 + 12 + 2 + 2)
    BY <1>3, <1>6, <1>29, Joined
  <1>31. Part(R, 2, P12, d + 10 + 8 + 12 + 2) /\ Part(R, 2 + (d + 10 + 8 + 12 + 2), Pins, 2)
    BY <1>6, <1>28, <1>30, Within DEF P13
  <1>32. Part(R, 2, P11, d + 10 + 8 + 12) /\ Part(R, 2 + (d + 10 + 8 + 12), Ui, 2)
    BY <1>6, <1>27, <1>31, Within DEF P12
  <1>33. Part(R, 2, P10, d + 10 + 8) /\ Part(R, 2 + (d + 10 + 8), i2c_init, 12)
    BY <1>26, <1>32, DriversSized, Within DEF P11
  <1>34. Part(R, 2, P9, d + 10) /\ Part(R, 2 + (d + 10), spi_init, 8)
    BY <1>25, <1>33, DriversSized, Within DEF P10
  <1>35. Part(R, 2, P8, d) /\ Part(R, 2 + d, uart_init, 10)
    BY <1>24, <1>34, DriversSized, Within DEF P9
  <1>36. Part(R, 2, P7, u) /\ Part(R, 2 + u, Tick, nTick)
    <2>1. Part(R, 2, P8, u + nTick)
      BY <1>23, <1>35
    <2> QED
      BY <1>10, <1>21, <2>1, Within DEF P8
  <1>37. Part(R, 2, P6, 5 + nPll + nWdt + 1 + 3 + 4)
         /\ Part(R, 2 + (5 + nPll + nWdt + 1 + 3 + 4), Update, 1)
    <2>1. Part(R, 2, P7, 5 + nPll + nWdt + 1 + 3 + 4 + 1)
      BY <1>4, <1>20, <1>36
    <2> QED
      BY <1>6, <1>18, <2>1, Within DEF P7
  <1>38. Part(R, 2, P5, 5 + nPll + nWdt + 1 + 3) /\ Part(R, 2 + (5 + nPll + nWdt + 1 + 3), Last, 4)
    BY <1>6, <1>17, <1>37, Within DEF P6
  <1>39. Part(R, 2, P4, 5 + nPll + nWdt + 1) /\ Part(R, 2 + (5 + nPll + nWdt + 1), Tog2, 3)
    BY <1>7, <1>16, <1>38, Within DEF P5
  <1>40. Part(R, 2, P3, 5 + nPll + nWdt) /\ Part(R, 2 + (5 + nPll + nWdt), Sel, 1)
    BY <1>6, <1>15, <1>39, Within DEF P4
  <1>41. Part(R, 2, P2, 5 + nPll) /\ Part(R, 2 + (5 + nPll), Wdt, nWdt)
    BY <1>9, <1>14, <1>40, Within DEF P3
  <1>42. Part(R, 2, P1, 2 + 3) /\ Part(R, 2 + 5, Pll, nPll)
    BY <1>8, <1>13, <1>41, Within DEF P2
  <1>43. Part(R, 2, First, 2) /\ Part(R, 2 + 2, Tog1, 3)
    BY <1>6, <1>7, <1>42, Within DEF P1
  <1>44. /\ d + 2 = Dev /\ u + 2 = Upd /\ nTick = Dev - Upd
         /\ 2 + (d + 10 + 8 + 12 + 2 + 2) = Dev + 34
         /\ 2 + (d + 10 + 8 + 12 + 2) = Dev + 32
         /\ 2 + (d + 10 + 8 + 12) = Dev + 30
         /\ 2 + (d + 10 + 8) = Dev + 18
         /\ 2 + (d + 10) = Dev + 10
         /\ 2 + d = Dev /\ 2 + u = Upd
    BY <1>4, <1>5, <1>20, <1>23
  <1>45. /\ 2 + (5 + nPll + nWdt + 1 + 3 + 4) = SelBegin + 8
         /\ 2 + (5 + nPll + nWdt + 1 + 3) = SelBegin + 4
         /\ 2 + (5 + nPll + nWdt + 1) = SelBegin + 1
         /\ 2 + (5 + nPll + nWdt) = SelBegin
         /\ 2 + (5 + nPll) = PllEnd
    BY <1>4, <1>5
  <1>46. PllEnd \in Nat /\ SelBegin \in Nat /\ Upd \in Nat /\ Dev \in Nat
    BY <1>4, <1>5
  <1>47. /\ Sized(R, Dev + 34)
         /\ Part(R, Upd, Tick, Dev - Upd)
         /\ Part(R, Dev, uart_init, 10)
         /\ Part(R, Dev + 10, spi_init, 8)
         /\ Part(R, Dev + 18, i2c_init, 12)
         /\ Part(R, Dev + 30, Ui, 2)
         /\ Part(R, Dev + 32, Pins, 2)
    BY <1>30, <1>31, <1>32, <1>33, <1>34, <1>35, <1>36, <1>44
  <1>48. /\ Part(R, PllEnd, Wdt, nWdt)
         /\ Part(R, SelBegin, Sel, 1)
         /\ Part(R, SelBegin + 1, Tog2, 3)
         /\ Part(R, SelBegin + 4, Last, 4)
         /\ Part(R, SelBegin + 8, Update, 1)
    BY <1>37, <1>38, <1>39, <1>40, <1>41, <1>45
  <1>49. Part(R, 4, Tog1, 3) /\ Part(R, 7, Pll, nPll)
    BY <1>42, <1>43
  <1> QED
    BY <1>30, <1>43, <1>46, <1>47, <1>48, <1>49
       DEF R, Start, First, Tog1, Pll, Wdt, Sel, Tog2, Last, Update, Tick, Ui, Pins, nPll, nWdt

(* The same, place by place.                                                *)
LEMMA ClockList ==
    /\ Reset_Handler[1] = Do("copy .data")
    /\ Reset_Handler[2] = Do("clear .bss")
    /\ Reset_Handler[3] = PowerUp("SYSOSC")
    /\ Reset_Handler[4] = Write("SYSPLLCLKSEL", cfg.pllsel)
    /\ Reset_Handler[5] = Write("SYSPLLCLKUEN", 1)
    /\ Reset_Handler[6] = Write("SYSPLLCLKUEN", 0)
    /\ Reset_Handler[7] = Write("SYSPLLCLKUEN", 1)
    /\ cfg.pll =>
          /\ Reset_Handler[8] = Write("SYSPLLCTRL", [m |-> cfg.m, bypass |-> cfg.bypass])
          /\ Reset_Handler[9] = PowerUp("SYSPLL")
          /\ Reset_Handler[10] = Do("wait for lock")
    /\ cfg.wdt =>
          /\ Reset_Handler[PllEnd + 1] = Write("WDTOSCCTRL", [freqsel |-> cfg.freqsel,
                                                              divsel |-> cfg.divsel])
          /\ Reset_Handler[PllEnd + 2] = PowerUp("WDTOSC")
    /\ Reset_Handler[SelBegin + 1] = Write("MAINCLKSEL", cfg.mainsel)
    /\ Reset_Handler[SelBegin + 2] = Write("MAINCLKUEN", 1)
    /\ Reset_Handler[SelBegin + 3] = Write("MAINCLKUEN", 0)
    /\ Reset_Handler[SelBegin + 4] = Write("MAINCLKUEN", 1)
    /\ Reset_Handler[SelBegin + 5] = Write("SYSAHBCLKDIV", cfg.ahbdiv)
    /\ Reset_Handler[SelBegin + 6] = Write("SYSAHBCLKCTRL", AHBCLKCTRL)
    /\ Reset_Handler[SelBegin + 7] = Write("SSP0CLKDIV", SSP0CLKDIV_Val)
    /\ Reset_Handler[SelBegin + 8] = Write("UARTCLKDIV", UARTCLKDIV_Val)
    /\ Reset_Handler[Upd] = Do("SystemCoreClockUpdate")
  <1> DEFINE R == Reset_Handler
  <1>1. ASSUME NEW k \in Nat, NEW a, Part(R, k, <<a>>, 1)
        PROVE  R[k + 1] = a
    <2>1. R[k + 1] = <<a>>[1]
      BY <1>1, InPart
    <2> QED
      BY <2>1
  <1>2. ASSUME NEW k \in Nat, NEW a, NEW b, Part(R, k, <<a, b>>, 2)
        PROVE  R[k + 1] = a /\ R[k + 2] = b
    <2>1. R[k + 1] = <<a, b>>[1] /\ R[k + 2] = <<a, b>>[2]
      BY <1>2, InPart
    <2> QED
      BY <2>1
  <1>3. ASSUME NEW k \in Nat, NEW a, NEW b, NEW c, Part(R, k, <<a, b, c>>, 3)
        PROVE  R[k + 1] = a /\ R[k + 2] = b /\ R[k + 3] = c
    <2>1. R[k + 1] = <<a, b, c>>[1] /\ R[k + 2] = <<a, b, c>>[2] /\ R[k + 3] = <<a, b, c>>[3]
      BY <1>3, InPart
    <2> QED
      BY <2>1
  <1>4. ASSUME NEW k \in Nat, NEW a, NEW b, NEW c, NEW d, Part(R, k, <<a, b, c, d>>, 4)
        PROVE  R[k + 1] = a /\ R[k + 2] = b /\ R[k + 3] = c /\ R[k + 4] = d
    <2>1. /\ R[k + 1] = <<a, b, c, d>>[1] /\ R[k + 2] = <<a, b, c, d>>[2]
          /\ R[k + 3] = <<a, b, c, d>>[3] /\ R[k + 4] = <<a, b, c, d>>[4]
      BY <1>4, InPart
    <2> QED
      BY <2>1
  <1> HIDE DEF R
  <1>5. Part(R, 0, <<Do("copy .data"), Do("clear .bss")>>, 2)
    BY Layout DEF R
  <1>6. R[0 + 1] = Do("copy .data") /\ R[0 + 2] = Do("clear .bss")
    BY <1>2, <1>5
  <1>7. Part(R, 2, <<PowerUp("SYSOSC"), Write("SYSPLLCLKSEL", cfg.pllsel)>>, 2)
    BY Layout DEF R
  <1>8. R[2 + 1] = PowerUp("SYSOSC") /\ R[2 + 2] = Write("SYSPLLCLKSEL", cfg.pllsel)
    BY <1>2, <1>7
  <1>9. Part(R, 4, Toggle("SYSPLLCLKUEN"), 3)
    BY Layout DEF R
  <1>10. /\ R[4 + 1] = Write("SYSPLLCLKUEN", 1) /\ R[4 + 2] = Write("SYSPLLCLKUEN", 0)
         /\ R[4 + 3] = Write("SYSPLLCLKUEN", 1)
    BY <1>3, <1>9 DEF Toggle
  <1>11. ASSUME cfg.pll
         PROVE  /\ R[7 + 1] = Write("SYSPLLCTRL", [m |-> cfg.m, bypass |-> cfg.bypass])
                /\ R[7 + 2] = PowerUp("SYSPLL")
                /\ R[7 + 3] = Do("wait for lock")
    <2> DEFINE a == Write("SYSPLLCTRL", [m |-> cfg.m, bypass |-> cfg.bypass])
               b == PowerUp("SYSPLL")
               c == Do("wait for lock")
    <2>1. Part(R, 7, <<a, b, c>>, 3)
      BY <1>11, Layout DEF R
    <2> HIDE DEF a, b, c
    <2>2. R[7 + 1] = a /\ R[7 + 2] = b /\ R[7 + 3] = c
      BY <1>3, <2>1
    <2> QED
      BY <2>2 DEF a, b, c
  <1>12. PllEnd \in Nat /\ SelBegin \in Nat /\ SelBegin + 1 \in Nat /\ SelBegin + 4 \in Nat
         /\ SelBegin + 8 \in Nat
    <2>1. PllEnd \in Nat /\ SelBegin \in Nat
      BY Layout
    <2> QED
      BY <2>1
  <1>13. ASSUME cfg.wdt
         PROVE  /\ R[PllEnd + 1] = Write("WDTOSCCTRL", [freqsel |-> cfg.freqsel,
                                                        divsel |-> cfg.divsel])
                /\ R[PllEnd + 2] = PowerUp("WDTOSC")
    <2>1. Part(R, PllEnd, <<Write("WDTOSCCTRL", [freqsel |-> cfg.freqsel,
                                                 divsel |-> cfg.divsel]),
                            PowerUp("WDTOSC")>>, 2)
      BY <1>13, Layout DEF R
    <2> QED
      BY <1>2, <1>12, <2>1
  <1>14. Part(R, SelBegin, <<Write("MAINCLKSEL", cfg.mainsel)>>, 1)
    BY Layout DEF R
  <1>15. R[SelBegin + 1] = Write("MAINCLKSEL", cfg.mainsel)
    BY <1>1, <1>12, <1>14
  <1>16. Part(R, SelBegin + 1, Toggle("MAINCLKUEN"), 3)
    BY Layout DEF R
  <1>17. /\ R[(SelBegin + 1) + 1] = Write("MAINCLKUEN", 1)
         /\ R[(SelBegin + 1) + 2] = Write("MAINCLKUEN", 0)
         /\ R[(SelBegin + 1) + 3] = Write("MAINCLKUEN", 1)
    BY <1>3, <1>12, <1>16 DEF Toggle
  <1>18. Part(R, SelBegin + 4,
              <<Write("SYSAHBCLKDIV", cfg.ahbdiv), Write("SYSAHBCLKCTRL", AHBCLKCTRL),
                Write("SSP0CLKDIV", SSP0CLKDIV_Val), Write("UARTCLKDIV", UARTCLKDIV_Val)>>, 4)
    BY Layout DEF R
  <1>19. /\ R[(SelBegin + 4) + 1] = Write("SYSAHBCLKDIV", cfg.ahbdiv)
         /\ R[(SelBegin + 4) + 2] = Write("SYSAHBCLKCTRL", AHBCLKCTRL)
         /\ R[(SelBegin + 4) + 3] = Write("SSP0CLKDIV", SSP0CLKDIV_Val)
         /\ R[(SelBegin + 4) + 4] = Write("UARTCLKDIV", UARTCLKDIV_Val)
    BY <1>4, <1>12, <1>18
  <1>20. Part(R, SelBegin + 8, <<Do("SystemCoreClockUpdate")>>, 1)
    BY Layout DEF R
  <1>21. R[(SelBegin + 8) + 1] = Do("SystemCoreClockUpdate")
    BY <1>1, <1>12, <1>20
  <1>22. /\ (SelBegin + 1) + 1 = SelBegin + 2 /\ (SelBegin + 1) + 2 = SelBegin + 3
         /\ (SelBegin + 1) + 3 = SelBegin + 4 /\ (SelBegin + 4) + 1 = SelBegin + 5
         /\ (SelBegin + 4) + 2 = SelBegin + 6 /\ (SelBegin + 4) + 3 = SelBegin + 7
         /\ (SelBegin + 4) + 4 = SelBegin + 8 /\ (SelBegin + 8) + 1 = SelBegin + 9
    BY <1>12
  <1>23. R[SelBegin + 9] = R[Upd]
    BY DEF Upd
  <1>24. /\ R[1] = R[0 + 1] /\ R[2] = R[0 + 2] /\ R[3] = R[2 + 1] /\ R[4] = R[2 + 2]
         /\ R[5] = R[4 + 1] /\ R[6] = R[4 + 2] /\ R[7] = R[4 + 3]
         /\ R[8] = R[7 + 1] /\ R[9] = R[7 + 2] /\ R[10] = R[7 + 3]
    OBVIOUS
  <1>25. /\ R[1] = Do("copy .data") /\ R[2] = Do("clear .bss")
         /\ R[3] = PowerUp("SYSOSC") /\ R[4] = Write("SYSPLLCLKSEL", cfg.pllsel)
         /\ R[5] = Write("SYSPLLCLKUEN", 1) /\ R[6] = Write("SYSPLLCLKUEN", 0)
         /\ R[7] = Write("SYSPLLCLKUEN", 1)
    BY <1>6, <1>8, <1>10, <1>24
  <1>26. cfg.pll =>
          /\ R[8] = Write("SYSPLLCTRL", [m |-> cfg.m, bypass |-> cfg.bypass])
          /\ R[9] = PowerUp("SYSPLL")
          /\ R[10] = Do("wait for lock")
    BY <1>11, <1>24
  <1>27. /\ R[SelBegin + 2] = Write("MAINCLKUEN", 1)
         /\ R[SelBegin + 3] = Write("MAINCLKUEN", 0)
         /\ R[SelBegin + 4] = Write("MAINCLKUEN", 1)
         /\ R[SelBegin + 5] = Write("SYSAHBCLKDIV", cfg.ahbdiv)
         /\ R[SelBegin + 6] = Write("SYSAHBCLKCTRL", AHBCLKCTRL)
         /\ R[SelBegin + 7] = Write("SSP0CLKDIV", SSP0CLKDIV_Val)
         /\ R[SelBegin + 8] = Write("UARTCLKDIV", UARTCLKDIV_Val)
         /\ R[Upd] = Do("SystemCoreClockUpdate")
    BY <1>17, <1>19, <1>21, <1>22, <1>23
  <1> QED
    BY <1>13, <1>15, <1>25, <1>26, <1>27 DEF R

LEMMA DriverList ==
    /\ Dev = Upd \/ Dev = Upd + 2
    /\ Dev = Upd + 2 =>
          /\ Reset_Handler[Upd + 1] = Write("LOAD", SystemCoreClock \div 1000 - 1)
          /\ Reset_Handler[Upd + 2] = Write("TICKINT", TRUE)
    /\ \A i \in 1 .. 10 : Reset_Handler[Dev + i] = uart_init[i]
    /\ \A i \in 1 .. 8 : Reset_Handler[Dev + (10 + i)] = spi_init[i]
    /\ \A i \in 1 .. 12 : Reset_Handler[Dev + (18 + i)] = i2c_init[i]
    /\ Reset_Handler[Dev + 31] = Do("bmw_ui_init")
    /\ Reset_Handler[Dev + 32] = Do("finish")
    /\ Reset_Handler[Dev + 33] = Write("DIR", {2})
    /\ Reset_Handler[Dev + 34] = Write("DATA", {2})
  <1> DEFINE R == Reset_Handler
             ticks == SystemCoreClock \div 1000
  <1> HIDE DEF R
  <1>1. Upd \in Nat /\ Dev \in Nat
    BY Layout
  <1>2. Dev = Upd + (IF ticks - 1 \in 0 .. SysTick_LOAD_RELOAD_Msk THEN 2 ELSE 0)
    BY DEF Dev
  <1>3. Dev = Upd \/ Dev = Upd + 2
    BY <1>1, <1>2
  <1>4. ASSUME Dev = Upd + 2
        PROVE  /\ R[Upd + 1] = Write("LOAD", ticks - 1)
               /\ R[Upd + 2] = Write("TICKINT", TRUE)
    <2>1. ticks - 1 \in 0 .. SysTick_LOAD_RELOAD_Msk
      BY <1>1, <1>2, <1>4
    <2> DEFINE a == Write("LOAD", ticks - 1)
               b == Write("TICKINT", TRUE)
    <2>2. SysTick_Config(ticks) = <<a, b>>
      <3> HIDE DEF ticks
      <3> QED
        BY <2>1, Zenon DEF SysTick_Config, a, b
    <2>3. Part(R, Upd, SysTick_Config(ticks), 2)
      <3>1. Part(R, Upd, SysTick_Config(ticks), Dev - Upd)
        BY Layout DEF R
      <3>2. Dev - Upd = 2
        BY <1>1, <1>4
      <3> QED
        BY <3>1, <3>2
    <2> HIDE DEF a, b, ticks
    <2>4. Part(R, Upd, <<a, b>>, 2)
      BY <2>2, <2>3
    <2>5. R[Upd + 1] = <<a, b>>[1] /\ R[Upd + 2] = <<a, b>>[2]
      <3>1. 1 \in 1 .. 2 /\ 2 \in 1 .. 2
        OBVIOUS
      <3> QED
        BY <2>4, <3>1, InPart
    <2> QED
      BY <2>5 DEF a, b
  <1>5. ASSUME NEW i \in 1 .. 10
        PROVE  R[Dev + i] = uart_init[i]
    <2>1. Part(R, Dev, uart_init, 10)
      BY Layout DEF R
    <2> QED
      BY <2>1, InPart
  <1>6. ASSUME NEW i \in 1 .. 8
        PROVE  R[Dev + (10 + i)] = spi_init[i]
    <2>1. Part(R, Dev + 10, spi_init, 8)
      BY Layout DEF R
    <2>2. R[(Dev + 10) + i] = spi_init[i]
      BY <2>1, InPart
    <2> QED
      BY <1>1, <2>2
  <1>7. ASSUME NEW i \in 1 .. 12
        PROVE  R[Dev + (18 + i)] = i2c_init[i]
    <2>1. Part(R, Dev + 18, i2c_init, 12)
      BY Layout DEF R
    <2>2. R[(Dev + 18) + i] = i2c_init[i]
      BY <2>1, InPart
    <2> QED
      BY <1>1, <2>2
  <1>8. /\ R[(Dev + 30) + 1] = <<Do("bmw_ui_init"), Do("finish")>>[1]
        /\ R[(Dev + 30) + 2] = <<Do("bmw_ui_init"), Do("finish")>>[2]
    <2>1. Part(R, Dev + 30, <<Do("bmw_ui_init"), Do("finish")>>, 2)
      BY Layout DEF R
    <2> QED
      BY <2>1, InPart
  <1>9. /\ R[(Dev + 32) + 1] = <<Write("DIR", {2}), Write("DATA", {2})>>[1]
        /\ R[(Dev + 32) + 2] = <<Write("DIR", {2}), Write("DATA", {2})>>[2]
    <2>1. Part(R, Dev + 32, <<Write("DIR", {2}), Write("DATA", {2})>>, 2)
      BY Layout DEF R
    <2> QED
      BY <2>1, InPart
  <1>10. /\ (Dev + 30) + 1 = Dev + 31 /\ (Dev + 30) + 2 = Dev + 32
         /\ (Dev + 32) + 1 = Dev + 33 /\ (Dev + 32) + 2 = Dev + 34
    BY <1>1
  <1>11. /\ R[Dev + 31] = Do("bmw_ui_init") /\ R[Dev + 32] = Do("finish")
         /\ R[Dev + 33] = Write("DIR", {2}) /\ R[Dev + 34] = Write("DATA", {2})
    BY <1>8, <1>9, <1>10
  <1> QED
    BY <1>3, <1>4, <1>5, <1>6, <1>7, <1>11 DEF R
----------------------------------------------------------------------------
(* What each write is, and which registers each part writes.                *)
ClockRegs == {"PDRUNCFG", "SYSPLLCLKSEL", "SYSPLLCLKUEN", "MAINCLKSEL", "MAINCLKUEN",
              "SYSPLLCTRL", "WDTOSCCTRL", "SYSAHBCLKDIV", "SSP0CLKDIV", "UARTCLKDIV",
              "SYSAHBCLKCTRL"}
TickRegs == {"LOAD", "TICKINT"}
UartRegs == {"PIO1_6", "PIO1_7", "LCR", "DLL", "DLM", "FDR", "TER"}
SpiRegs == {"PIO0_8", "PIO0_9", "PIO0_6", "SSE", "CPSR"}
I2CRegs == {"PIO0_4", "PIO0_5", "SCLL", "SCLH", "I2EN"}
OtherRegs == {"PRESETCTRL", "ISER", "CLKDIV", "CHANNEL", "DIR", "DATA"}
RegNames == ClockRegs \cup TickRegs \cup UartRegs \cup SpiRegs \cup I2CRegs \cup OtherRegs

Writes(p, reg, value) ==
    LET o == Reset_Handler[p] IN o.op = "write" /\ o.reg = reg /\ o.value = value

LEMMA Ops ==
    /\ \A p, name : Reset_Handler[p] = Do(name) => Reset_Handler[p].op = name
    /\ \A p, object : Reset_Handler[p] = Set(object)
          => Reset_Handler[p].op = "set" /\ Reset_Handler[p].object = object
  BY DEF Do, Set

LEMMA WriteOps == \A p, reg, value : Reset_Handler[p] = Write(reg, value) => Writes(p, reg, value)
  BY DEF Write, Writes

LEMMA PowerOps ==
    ASSUME NEW p, NEW block
    PROVE  /\ Reset_Handler[p] = PowerUp(block)
                => Writes(p, "PDRUNCFG", regs["PDRUNCFG"] \ {block})
           /\ Reset_Handler[p] = OutOfReset(block)
                => Writes(p, "PRESETCTRL", regs["PRESETCTRL"] \union {block})
  BY DEF PowerUp, OutOfReset, Writes

LEMMA ClockWrites ==
    /\ Reset_Handler[1].op = "copy .data"
    /\ Reset_Handler[2].op = "clear .bss"
    /\ Writes(3, "PDRUNCFG", regs["PDRUNCFG"] \ {"SYSOSC"})
    /\ Writes(4, "SYSPLLCLKSEL", cfg.pllsel)
    /\ Writes(5, "SYSPLLCLKUEN", 1)
    /\ Writes(6, "SYSPLLCLKUEN", 0)
    /\ Writes(7, "SYSPLLCLKUEN", 1)
    /\ cfg.pll => /\ Writes(8, "SYSPLLCTRL", [m |-> cfg.m, bypass |-> cfg.bypass])
                  /\ Writes(9, "PDRUNCFG", regs["PDRUNCFG"] \ {"SYSPLL"})
                  /\ Reset_Handler[10].op = "wait for lock"
    /\ cfg.wdt => /\ Writes(PllEnd + 1, "WDTOSCCTRL",
                            [freqsel |-> cfg.freqsel, divsel |-> cfg.divsel])
                  /\ Writes(PllEnd + 2, "PDRUNCFG", regs["PDRUNCFG"] \ {"WDTOSC"})
    /\ Writes(SelBegin + 1, "MAINCLKSEL", cfg.mainsel)
    /\ Writes(SelBegin + 2, "MAINCLKUEN", 1)
    /\ Writes(SelBegin + 3, "MAINCLKUEN", 0)
    /\ Writes(SelBegin + 4, "MAINCLKUEN", 1)
    /\ Writes(SelBegin + 5, "SYSAHBCLKDIV", cfg.ahbdiv)
    /\ Writes(SelBegin + 6, "SYSAHBCLKCTRL", AHBCLKCTRL)
    /\ Writes(SelBegin + 7, "SSP0CLKDIV", SSP0CLKDIV_Val)
    /\ Writes(SelBegin + 8, "UARTCLKDIV", UARTCLKDIV_Val)
    /\ Reset_Handler[Upd].op = "SystemCoreClockUpdate"
  <1>1. /\ Reset_Handler[1].op = "copy .data" /\ Reset_Handler[2].op = "clear .bss"
        /\ Reset_Handler[Upd].op = "SystemCoreClockUpdate"
        /\ cfg.pll => Reset_Handler[10].op = "wait for lock"
    <2>1. /\ Reset_Handler[1] = Do("copy .data") /\ Reset_Handler[2] = Do("clear .bss")
          /\ Reset_Handler[Upd] = Do("SystemCoreClockUpdate")
          /\ cfg.pll => Reset_Handler[10] = Do("wait for lock")
      BY ClockList
    <2> QED
      BY <2>1, Ops
  <1>2. /\ Writes(3, "PDRUNCFG", regs["PDRUNCFG"] \ {"SYSOSC"})
        /\ cfg.pll => Writes(9, "PDRUNCFG", regs["PDRUNCFG"] \ {"SYSPLL"})
        /\ cfg.wdt => Writes(PllEnd + 2, "PDRUNCFG", regs["PDRUNCFG"] \ {"WDTOSC"})
    <2>1. /\ Reset_Handler[3] = PowerUp("SYSOSC")
          /\ cfg.pll => Reset_Handler[9] = PowerUp("SYSPLL")
          /\ cfg.wdt => Reset_Handler[PllEnd + 2] = PowerUp("WDTOSC")
      BY ClockList
    <2> QED
      BY <2>1, PowerOps
  <1>3. /\ Writes(4, "SYSPLLCLKSEL", cfg.pllsel) /\ Writes(5, "SYSPLLCLKUEN", 1)
        /\ Writes(6, "SYSPLLCLKUEN", 0) /\ Writes(7, "SYSPLLCLKUEN", 1)
    BY ClockList, WriteOps
  <1>4. cfg.pll => Writes(8, "SYSPLLCTRL", [m |-> cfg.m, bypass |-> cfg.bypass])
    BY ClockList, WriteOps
  <1>5. cfg.wdt => Writes(PllEnd + 1, "WDTOSCCTRL",
                          [freqsel |-> cfg.freqsel, divsel |-> cfg.divsel])
    BY ClockList, WriteOps
  <1>6. /\ Writes(SelBegin + 1, "MAINCLKSEL", cfg.mainsel)
        /\ Writes(SelBegin + 2, "MAINCLKUEN", 1) /\ Writes(SelBegin + 3, "MAINCLKUEN", 0)
        /\ Writes(SelBegin + 4, "MAINCLKUEN", 1)
        /\ Writes(SelBegin + 5, "SYSAHBCLKDIV", cfg.ahbdiv)
        /\ Writes(SelBegin + 6, "SYSAHBCLKCTRL", AHBCLKCTRL)
        /\ Writes(SelBegin + 7, "SSP0CLKDIV", SSP0CLKDIV_Val) /\ Writes(SelBegin + 8, "UARTCLKDIV", UARTCLKDIV_Val)
    BY ClockList, WriteOps
  <1> QED
    BY <1>1, <1>2, <1>3, <1>4, <1>5, <1>6

LEMMA TickWrites ==
    ASSUME Dev = Upd + 2
    PROVE  /\ Writes(Upd + 1, "LOAD", SystemCoreClock \div 1000 - 1)
           /\ Writes(Upd + 2, "TICKINT", TRUE)
  <1> DEFINE v == SystemCoreClock \div 1000 - 1
  <1>1. /\ Reset_Handler[Upd + 1] = Write("LOAD", v)
        /\ Reset_Handler[Upd + 2] = Write("TICKINT", TRUE)
    BY DriverList
  <1> HIDE DEF v
  <1>2. Writes(Upd + 1, "LOAD", v) /\ Writes(Upd + 2, "TICKINT", TRUE)
    BY <1>1, WriteOps
  <1> QED
    BY <1>2 DEF v

LEMMA UartWrites ==
    /\ Writes(Dev + 1, "PIO1_6", 1)
    /\ Writes(Dev + 2, "PIO1_7", 1)
    /\ Writes(Dev + 3, "TER", FALSE)
    /\ Writes(Dev + 4, "LCR", "latch")
    /\ Writes(Dev + 5, "DLL", 15)
    /\ Writes(Dev + 6, "DLM", 0)
    /\ Writes(Dev + 7, "LCR", "5N1")
    /\ Writes(Dev + 8, "FDR", [mul |-> 15, add |-> 11])
    /\ Writes(Dev + 9, "LCR", "8N1")
    /\ Writes(Dev + 10, "TER", TRUE)
  <1> DEFINE R == Reset_Handler
  <1>1. /\ uart_init[1] = Write("PIO1_6", 1) /\ uart_init[2] = Write("PIO1_7", 1)
        /\ uart_init[3] = Write("TER", FALSE) /\ uart_init[4] = Write("LCR", "latch")
        /\ uart_init[5] = Write("DLL", 15) /\ uart_init[6] = Write("DLM", 0)
        /\ uart_init[7] = Write("LCR", "5N1")
        /\ uart_init[8] = Write("FDR", [mul |-> 15, add |-> 11])
        /\ uart_init[9] = Write("LCR", "8N1") /\ uart_init[10] = Write("TER", TRUE)
    BY DEF uart_init
  <1>2. /\ R[Dev + 1] = uart_init[1] /\ R[Dev + 2] = uart_init[2]
        /\ R[Dev + 3] = uart_init[3] /\ R[Dev + 4] = uart_init[4]
        /\ R[Dev + 5] = uart_init[5] /\ R[Dev + 6] = uart_init[6]
        /\ R[Dev + 7] = uart_init[7] /\ R[Dev + 8] = uart_init[8]
        /\ R[Dev + 9] = uart_init[9] /\ R[Dev + 10] = uart_init[10]
    BY DriverList
  <1>3. \A p, reg, value : R[p] = Write(reg, value) => Writes(p, reg, value)
    BY WriteOps
  <1> HIDE DEF R
  <1> QED
    BY <1>1, <1>2, <1>3

LEMMA SpiWrites ==
    /\ Writes(Dev + 11, "PIO0_8", 1)
    /\ Writes(Dev + 12, "PIO0_9", 1)
    /\ Writes(Dev + 13, "PIO0_6", 2)
    /\ Writes(Dev + 14, "PRESETCTRL", regs["PRESETCTRL"] \union {"SSP0"})
    /\ Writes(Dev + 15, "SSE", FALSE)
    /\ Writes(Dev + 16, "CPSR", 2)
    /\ Reset_Handler[Dev + 17].op = "set" /\ Reset_Handler[Dev + 17].object = "SPI0.ssp"
    /\ Writes(Dev + 18, "SSE", TRUE)
  <1> DEFINE R == Reset_Handler
  <1>1. /\ spi_init[1] = Write("PIO0_8", 1) /\ spi_init[2] = Write("PIO0_9", 1)
        /\ spi_init[3] = Write("PIO0_6", 2) /\ spi_init[4] = OutOfReset("SSP0")
        /\ spi_init[5] = Write("SSE", FALSE) /\ spi_init[6] = Write("CPSR", 2)
        /\ spi_init[7] = Set("SPI0.ssp") /\ spi_init[8] = Write("SSE", TRUE)
    BY DEF spi_init
  <1>2. /\ R[Dev + (10 + 1)] = spi_init[1] /\ R[Dev + (10 + 2)] = spi_init[2]
        /\ R[Dev + (10 + 3)] = spi_init[3] /\ R[Dev + (10 + 4)] = spi_init[4]
        /\ R[Dev + (10 + 5)] = spi_init[5] /\ R[Dev + (10 + 6)] = spi_init[6]
        /\ R[Dev + (10 + 7)] = spi_init[7] /\ R[Dev + (10 + 8)] = spi_init[8]
    BY DriverList
  <1>3. \A p, reg, value : R[p] = Write(reg, value) => Writes(p, reg, value)
    BY WriteOps
  <1>4. \A p, object : R[p] = Set(object) => R[p].op = "set" /\ R[p].object = object
    BY Ops
  <1>5. \A p : R[p] = OutOfReset("SSP0")
           => Writes(p, "PRESETCTRL", regs["PRESETCTRL"] \union {"SSP0"})
    BY PowerOps
  <1> HIDE DEF R
  <1>6. /\ R[Dev + 11] = spi_init[1] /\ R[Dev + 12] = spi_init[2]
        /\ R[Dev + 13] = spi_init[3] /\ R[Dev + 14] = spi_init[4]
        /\ R[Dev + 15] = spi_init[5] /\ R[Dev + 16] = spi_init[6]
        /\ R[Dev + 17] = spi_init[7] /\ R[Dev + 18] = spi_init[8]
    BY <1>2
  <1>7. /\ Writes(Dev + 11, "PIO0_8", 1) /\ Writes(Dev + 12, "PIO0_9", 1)
        /\ Writes(Dev + 13, "PIO0_6", 2) /\ Writes(Dev + 15, "SSE", FALSE)
        /\ Writes(Dev + 16, "CPSR", 2) /\ Writes(Dev + 18, "SSE", TRUE)
    BY <1>1, <1>3, <1>6
  <1>8. Writes(Dev + 14, "PRESETCTRL", regs["PRESETCTRL"] \union {"SSP0"})
    BY <1>1, <1>5, <1>6
  <1>9. R[Dev + 17].op = "set" /\ R[Dev + 17].object = "SPI0.ssp"
    BY <1>1, <1>4, <1>6
  <1> QED
    BY <1>7, <1>8, <1>9 DEF R

LEMMA I2CWrites ==
    /\ Writes(Dev + 19, "PIO0_4", 1)
    /\ Writes(Dev + 20, "PIO0_5", 1)
    /\ Writes(Dev + 21, "PRESETCTRL", regs["PRESETCTRL"] \union {"I2C"})
    /\ Writes(Dev + 22, "I2EN", FALSE)
    /\ Writes(Dev + 23, "SCLL", 60)
    /\ Writes(Dev + 24, "SCLH", 60)
    /\ Reset_Handler[Dev + 25].op = "NVIC_ClearPendingIRQ"
    /\ Writes(Dev + 26, "ISER", {I2C_IRQn})
    /\ Writes(Dev + 27, "I2EN", TRUE)
    /\ Reset_Handler[Dev + 28].op = "set" /\ Reset_Handler[Dev + 28].object = "I2C0.i2c"
    /\ Reset_Handler[Dev + 29].op = "set"
    /\ Reset_Handler[Dev + 29].object = "I2C0.active_transaction"
    /\ Reset_Handler[Dev + 30].op = "set"
    /\ Reset_Handler[Dev + 30].object = "I2C0.transaction_queue"
  <1> DEFINE R == Reset_Handler
  <1>1. /\ i2c_init[1] = Write("PIO0_4", 1) /\ i2c_init[2] = Write("PIO0_5", 1)
        /\ i2c_init[3] = OutOfReset("I2C") /\ i2c_init[4] = Write("I2EN", FALSE)
        /\ i2c_init[5] = Write("SCLL", 60) /\ i2c_init[6] = Write("SCLH", 60)
        /\ i2c_init[7] = Do("NVIC_ClearPendingIRQ") /\ i2c_init[8] = Write("ISER", {I2C_IRQn})
        /\ i2c_init[9] = Write("I2EN", TRUE) /\ i2c_init[10] = Set("I2C0.i2c")
        /\ i2c_init[11] = Set("I2C0.active_transaction")
        /\ i2c_init[12] = Set("I2C0.transaction_queue")
    BY DEF i2c_init
  <1>2. /\ R[Dev + (18 + 1)] = i2c_init[1] /\ R[Dev + (18 + 2)] = i2c_init[2]
        /\ R[Dev + (18 + 3)] = i2c_init[3] /\ R[Dev + (18 + 4)] = i2c_init[4]
        /\ R[Dev + (18 + 5)] = i2c_init[5] /\ R[Dev + (18 + 6)] = i2c_init[6]
        /\ R[Dev + (18 + 7)] = i2c_init[7] /\ R[Dev + (18 + 8)] = i2c_init[8]
        /\ R[Dev + (18 + 9)] = i2c_init[9] /\ R[Dev + (18 + 10)] = i2c_init[10]
        /\ R[Dev + (18 + 11)] = i2c_init[11] /\ R[Dev + (18 + 12)] = i2c_init[12]
    BY DriverList
  <1>3. \A p, reg, value : R[p] = Write(reg, value) => Writes(p, reg, value)
    BY WriteOps
  <1>4. /\ \A p, name : R[p] = Do(name) => R[p].op = name
        /\ \A p, object : R[p] = Set(object) => R[p].op = "set" /\ R[p].object = object
    BY Ops
  <1>5. \A p : R[p] = OutOfReset("I2C")
           => Writes(p, "PRESETCTRL", regs["PRESETCTRL"] \union {"I2C"})
    BY PowerOps
  <1> HIDE DEF R
  <1>6. /\ R[Dev + 19] = i2c_init[1] /\ R[Dev + 20] = i2c_init[2]
        /\ R[Dev + 21] = i2c_init[3] /\ R[Dev + 22] = i2c_init[4]
        /\ R[Dev + 23] = i2c_init[5] /\ R[Dev + 24] = i2c_init[6]
        /\ R[Dev + 25] = i2c_init[7] /\ R[Dev + 26] = i2c_init[8]
        /\ R[Dev + 27] = i2c_init[9] /\ R[Dev + 28] = i2c_init[10]
        /\ R[Dev + 29] = i2c_init[11] /\ R[Dev + 30] = i2c_init[12]
    BY <1>2
  <1>7. /\ Writes(Dev + 19, "PIO0_4", 1) /\ Writes(Dev + 20, "PIO0_5", 1)
        /\ Writes(Dev + 22, "I2EN", FALSE) /\ Writes(Dev + 23, "SCLL", 60)
        /\ Writes(Dev + 24, "SCLH", 60)
        /\ Writes(Dev + 26, "ISER", {I2C_IRQn}) /\ Writes(Dev + 27, "I2EN", TRUE)
    <2>1. /\ Writes(Dev + 19, "PIO0_4", 1) /\ Writes(Dev + 20, "PIO0_5", 1)
          /\ Writes(Dev + 22, "I2EN", FALSE)
      BY <1>1, <1>3, <1>6, Zenon
    <2>2. Writes(Dev + 23, "SCLL", 60) /\ Writes(Dev + 24, "SCLH", 60)
      BY <1>1, <1>3, <1>6, Zenon
    <2>3. Writes(Dev + 26, "ISER", {I2C_IRQn}) /\ Writes(Dev + 27, "I2EN", TRUE)
      BY <1>1, <1>3, <1>6, Zenon
    <2> QED
      BY <2>1, <2>2, <2>3
  <1>8. Writes(Dev + 21, "PRESETCTRL", regs["PRESETCTRL"] \union {"I2C"})
    BY <1>1, <1>5, <1>6
  <1>9. /\ R[Dev + 25].op = "NVIC_ClearPendingIRQ"
        /\ R[Dev + 28].op = "set" /\ R[Dev + 28].object = "I2C0.i2c"
        /\ R[Dev + 29].op = "set" /\ R[Dev + 29].object = "I2C0.active_transaction"
        /\ R[Dev + 30].op = "set" /\ R[Dev + 30].object = "I2C0.transaction_queue"
    BY <1>1, <1>4, <1>6
  <1> QED
    BY <1>7, <1>8, <1>9 DEF R

LEMMA LastWrites ==
    /\ Reset_Handler[Dev + 31].op = "bmw_ui_init"
    /\ Reset_Handler[Dev + 32].op = "finish"
    /\ Writes(Dev + 33, "DIR", {2})
    /\ Writes(Dev + 34, "DATA", {2})
  <1>1. /\ Reset_Handler[Dev + 31] = Do("bmw_ui_init") /\ Reset_Handler[Dev + 32] = Do("finish")
        /\ Reset_Handler[Dev + 33] = Write("DIR", {2})
        /\ Reset_Handler[Dev + 34] = Write("DATA", {2})
    BY DriverList
  <1>2. Reset_Handler[Dev + 31].op = "bmw_ui_init" /\ Reset_Handler[Dev + 32].op = "finish"
    BY <1>1, Ops
  <1>3. Writes(Dev + 33, "DIR", {2}) /\ Writes(Dev + 34, "DATA", {2})
    BY <1>1, WriteOps
  <1> QED
    BY <1>2, <1>3
----------------------------------------------------------------------------
(* The invariant: what has been set up by each place.                       *)
TypeInv ==
    /\ cfg \in Configs
    /\ pc \in 1 .. Dev + 35
    /\ \E V : regs \in [RegNames -> V]

(* The PLL has its input, runs, and has locked.                             *)
PllReady ==
    /\ pc > 3 => "SYSOSC" \notin regs["PDRUNCFG"]
    /\ pc > 4 => regs["SYSPLLCLKSEL"] = cfg.pllsel
    /\ pc = 7 => regs["SYSPLLCLKUEN"] = 0
    /\ pc > 7 => pllInput = cfg.pllsel
    /\ cfg.pll /\ pc > 8 => regs["SYSPLLCTRL"] = [m |-> cfg.m, bypass |-> cfg.bypass]
    /\ cfg.pll /\ pc > 9 => "SYSPLL" \notin regs["PDRUNCFG"]
    /\ cfg.pll /\ pc > 10 => locked

(* The watchdog oscillator runs; the main clock is chosen; peripherals have *)
(* their clocks.                                                            *)
MainReady ==
    /\ cfg.wdt /\ pc > PllEnd + 1 =>
          regs["WDTOSCCTRL"] = [freqsel |-> cfg.freqsel, divsel |-> cfg.divsel]
    /\ cfg.wdt /\ pc > PllEnd + 2 => "WDTOSC" \notin regs["PDRUNCFG"]
    /\ pc > SelBegin + 1 => regs["MAINCLKSEL"] = cfg.mainsel
    /\ pc = SelBegin + 4 => regs["MAINCLKUEN"] = 0
    /\ mainSource = 0 \/ (pc > SelBegin + 2 /\ mainSource = cfg.mainsel)
    /\ pc > SelBegin + 4 => mainSource = cfg.mainsel
    /\ regs["SYSAHBCLKDIV"] = IF pc > SelBegin + 5 THEN cfg.ahbdiv ELSE 1
    /\ "SYS" \in regs["SYSAHBCLKCTRL"]
    /\ pc > SelBegin + 6 => regs["SYSAHBCLKCTRL"] = AHBCLKCTRL
    /\ pc > Upd => SystemCoreClock = Chosen(cfg) \div cfg.ahbdiv

(* UART and SPI have their clocks.                                          *)
DividersReady ==
    /\ pc > SelBegin + 7 => regs["SSP0CLKDIV"] = SSP0CLKDIV_Val
    /\ pc > SelBegin + 8 => regs["UARTCLKDIV"] = UARTCLKDIV_Val

TickReady ==
    /\ pc > 2 => "msTicks" \in ready
    /\ pc <= 2 => regs["TICKINT"] = FALSE
    /\ pc > Upd + 1 => regs["LOAD"] = SystemCoreClock \div 1000 - 1
    /\ pc > Upd + 2 => regs["TICKINT"] = TRUE
    /\ SysTick_IRQn \in pending => "msTicks" \in ready

UartReady ==
    /\ pc > Dev + 1 => regs["PIO1_6"] = 1
    /\ pc > Dev + 2 => regs["PIO1_7"] = 1
    /\ pc \in Dev + 5 .. Dev + 7 => regs["LCR"] = "latch"
    /\ pc > Dev + 5 => regs["DLL"] = 15
    /\ pc > Dev + 6 => regs["DLM"] = 0
    /\ pc > Dev + 8 => regs["FDR"] = [mul |-> 15, add |-> 11]
    /\ pc > Dev + 9 => regs["LCR"] = "8N1"
    /\ pc > Dev + 10 => regs["TER"] = TRUE

SpiReady ==
    /\ pc > Dev + 11 => regs["PIO0_8"] = 1
    /\ pc > Dev + 12 => regs["PIO0_9"] = 1
    /\ pc > Dev + 13 => regs["PIO0_6"] = 2
    /\ pc > Dev + 14 => "SSP0" \in regs["PRESETCTRL"]
    /\ pc > Dev + 16 => regs["CPSR"] = IF asked = 0 THEN 2 ELSE Cpsr(asked)
    /\ pc > Dev + 18 => regs["SSE"] = TRUE
    /\ asked = 0 \/ (asked \in Speeds /\ pc > Dev + 34)

(* A transaction is not started before the driver is ready for it.          *)
I2CReady ==
    /\ pc > Dev + 19 => regs["PIO0_4"] = 1
    /\ pc > Dev + 20 => regs["PIO0_5"] = 1
    /\ pc > Dev + 21 => "I2C" \in regs["PRESETCTRL"]
    /\ pc > Dev + 23 => regs["SCLL"] = 60
    /\ pc > Dev + 24 => regs["SCLH"] = 60
    /\ pc > Dev + 27 => regs["I2EN"] = TRUE
    /\ pc > Dev + 28 => "I2C0.i2c" \in ready
    /\ pc > Dev + 29 => "I2C0.active_transaction" \in ready
    /\ pc > Dev + 30 => "I2C0.transaction_queue" \in ready
    /\ busy = FALSE \/ pc > Dev + 31
    /\ I2C_IRQn \in pending => pc > Dev + 31

AdcReady ==
    /\ "ADC" \notin regs["PDRUNCFG"] => regs["CLKDIV"] = 10
    /\ regs["CHANNEL"] # NoChannel => "ADC" \notin regs["PDRUNCFG"]

IInv ==
    /\ TypeInv /\ PllReady /\ MainReady /\ TickReady /\ UartReady /\ SpiReady /\ I2CReady
    /\ AdcReady /\ DividersReady
----------------------------------------------------------------------------
LEMMA Places ==
    /\ PllEnd \in Nat /\ SelBegin \in Nat /\ Upd \in Nat /\ Dev \in Nat
    /\ PllEnd = 7 \/ (cfg.pll /\ PllEnd = 10)
    /\ SelBegin = PllEnd \/ (cfg.wdt /\ SelBegin = PllEnd + 2)
    /\ cfg.pll => PllEnd = 10
    /\ cfg.wdt => SelBegin = PllEnd + 2
    /\ Upd = SelBegin + 9
    /\ Dev = Upd \/ Dev = Upd + 2
  <1>1. PllEnd \in Nat /\ (cfg.pll => PllEnd = 10) /\ (PllEnd = 7 \/ (cfg.pll /\ PllEnd = 10))
    BY DEF PllEnd
  <1>2. /\ SelBegin \in Nat /\ (cfg.wdt => SelBegin = PllEnd + 2)
        /\ SelBegin = PllEnd \/ (cfg.wdt /\ SelBegin = PllEnd + 2)
    BY <1>1 DEF SelBegin
  <1>3. Upd \in Nat /\ Upd = SelBegin + 9
    BY <1>2 DEF Upd
  <1>4. Dev \in Nat /\ (Dev = Upd \/ Dev = Upd + 2)
    BY <1>3 DEF Dev
  <1> QED
    BY <1>1, <1>2, <1>3, <1>4

LEMMA PlacesKept ==
    ASSUME cfg' = cfg
    PROVE  /\ PllEnd' = PllEnd /\ SelBegin' = SelBegin /\ Upd' = Upd
           /\ SystemCoreClock' = SystemCoreClock => Dev' = Dev
           /\ Dev' \in Nat /\ (Dev' = Upd \/ Dev' = Upd + 2)
  <1>1. PllEnd' = PllEnd
    BY DEF PllEnd
  <1>2. SelBegin' = SelBegin
    BY <1>1 DEF SelBegin
  <1>3. Upd' = Upd
    BY <1>2 DEF Upd
  <1>4. SystemCoreClock' = SystemCoreClock => Dev' = Dev
    BY <1>3 DEF Dev
  <1>5. Dev' \in Nat /\ (Dev' = Upd \/ Dev' = Upd + 2)
    BY <1>3, Places DEF Dev
  <1> QED
    BY <1>1, <1>2, <1>3, <1>4, <1>5

LEMMA BootedIs == (pc > Dev + 34 <=> Booted) /\ Dev \in Nat
  <1>1. Sized(Reset_Handler, Dev + 34) /\ Dev \in Nat
    BY Layout
  <1>2. Len(Reset_Handler) = Dev + 34
    BY <1>1 DEF Sized
  <1> QED
    BY <1>1, <1>2 DEF Booted

(* Where in the program a write to a register is.                           *)
LEMMA ClockRegsAt ==
    /\ cfg.pll => (Reset_Handler[8].reg = "SYSPLLCTRL" /\ Reset_Handler[9].reg = "PDRUNCFG")
    /\ cfg.wdt => (/\ Reset_Handler[PllEnd + 1].reg = "WDTOSCCTRL"
                   /\ Reset_Handler[PllEnd + 2].reg = "PDRUNCFG")
    /\ Reset_Handler[3].reg = "PDRUNCFG" /\ Reset_Handler[4].reg = "SYSPLLCLKSEL"
    /\ Reset_Handler[5].reg = "SYSPLLCLKUEN" /\ Reset_Handler[6].reg = "SYSPLLCLKUEN"
    /\ Reset_Handler[7].reg = "SYSPLLCLKUEN" /\ Reset_Handler[SelBegin + 1].reg = "MAINCLKSEL"
    /\ Reset_Handler[SelBegin + 2].reg = "MAINCLKUEN" /\ Reset_Handler[SelBegin + 3].reg = "MAINCLKUEN"
    /\ Reset_Handler[SelBegin + 4].reg = "MAINCLKUEN" /\ Reset_Handler[SelBegin + 5].reg = "SYSAHBCLKDIV"
    /\ Reset_Handler[SelBegin + 6].reg = "SYSAHBCLKCTRL" /\ Reset_Handler[SelBegin + 7].reg = "SSP0CLKDIV"
    /\ Reset_Handler[SelBegin + 8].reg = "UARTCLKDIV"
  <1>1. \A p, reg, value : Writes(p, reg, value) => Reset_Handler[p].reg = reg
    BY DEF Writes
  <1> QED
    BY <1>1, ClockWrites

LEMMA TickRegsAt ==
    ASSUME Dev = Upd + 2
    PROVE  /\ Reset_Handler[Upd + 1].reg = "LOAD" /\ Reset_Handler[Upd + 2].reg = "TICKINT"
  BY TickWrites DEF Writes

LEMMA UartRegsAt ==
    /\ Reset_Handler[Dev + 1].reg = "PIO1_6" /\ Reset_Handler[Dev + 2].reg = "PIO1_7"
    /\ Reset_Handler[Dev + 3].reg = "TER" /\ Reset_Handler[Dev + 4].reg = "LCR"
    /\ Reset_Handler[Dev + 5].reg = "DLL" /\ Reset_Handler[Dev + 6].reg = "DLM"
    /\ Reset_Handler[Dev + 7].reg = "LCR" /\ Reset_Handler[Dev + 8].reg = "FDR"
    /\ Reset_Handler[Dev + 9].reg = "LCR" /\ Reset_Handler[Dev + 10].reg = "TER"
  BY UartWrites DEF Writes

LEMMA SpiRegsAt ==
    /\ Reset_Handler[Dev + 11].reg = "PIO0_8" /\ Reset_Handler[Dev + 12].reg = "PIO0_9"
    /\ Reset_Handler[Dev + 13].reg = "PIO0_6" /\ Reset_Handler[Dev + 14].reg = "PRESETCTRL"
    /\ Reset_Handler[Dev + 15].reg = "SSE" /\ Reset_Handler[Dev + 16].reg = "CPSR"
    /\ Reset_Handler[Dev + 18].reg = "SSE"
  BY SpiWrites DEF Writes

LEMMA I2CRegsAt ==
    /\ Reset_Handler[Dev + 19].reg = "PIO0_4" /\ Reset_Handler[Dev + 20].reg = "PIO0_5"
    /\ Reset_Handler[Dev + 21].reg = "PRESETCTRL" /\ Reset_Handler[Dev + 22].reg = "I2EN"
    /\ Reset_Handler[Dev + 23].reg = "SCLL" /\ Reset_Handler[Dev + 24].reg = "SCLH"
    /\ Reset_Handler[Dev + 26].reg = "ISER" /\ Reset_Handler[Dev + 27].reg = "I2EN"
  BY I2CWrites DEF Writes

LEMMA LastRegsAt ==
    /\ Reset_Handler[Dev + 33].reg = "DIR" /\ Reset_Handler[Dev + 34].reg = "DATA"
  BY LastWrites DEF Writes

LEMMA Where ==
    ASSUME pc \in 1 .. Dev + 34, Now.op = "write"
    PROVE  \/ pc \in 3 .. Upd - 1 /\ Now.reg \in ClockRegs
           \/ Dev = Upd + 2 /\ pc \in Upd + 1 .. Upd + 2 /\ Now.reg \in TickRegs
           \/ /\ pc \in Dev + 1 .. Dev + 10 /\ Now.reg \in UartRegs
              /\ Now.reg \in {"DLL", "DLM"} => pc \in Dev + 5 .. Dev + 6
           \/ /\ pc \in Dev + 11 .. Dev + 18 /\ Now.reg \in SpiRegs \cup {"PRESETCTRL"}
              /\ Now.reg \in {"SSE", "CPSR"} => pc > Dev + 14
           \/ /\ pc \in Dev + 19 .. Dev + 27 /\ Now.reg \in I2CRegs \cup {"PRESETCTRL", "ISER"}
              /\ Now.reg \in {"SCLL", "SCLH", "I2EN"} => pc > Dev + 21
           \/ pc \in Dev + 33 .. Dev + 34 /\ Now.reg \in {"DIR", "DATA"}
  <1> DEFINE reg == Now.reg
  <1>1. reg = Reset_Handler[pc].reg
    BY DEF Now
  <1> HIDE DEF reg
  <1>2. ASSUME pc < Upd
        PROVE  pc \in 3 .. Upd - 1 /\ reg \in ClockRegs
    <2>1. pc # 1 /\ pc # 2
      BY ClockWrites DEF Now
    <2>2. pc \in 3 .. Upd - 1
      BY <1>2, <2>1, Places
    <2>3. CASE pc \in 3 .. 7
      <3>1. pc = 3 \/ pc = 4 \/ pc = 5 \/ pc = 6 \/ pc = 7
        BY <2>3
      <3>2. reg = "PDRUNCFG" \/ reg = "SYSPLLCLKSEL" \/ reg = "SYSPLLCLKUEN"
        BY <1>1, <3>1, ClockRegsAt
      <3> QED
        BY <2>2, <3>2 DEF ClockRegs
    <2>4. CASE pc \in 8 .. PllEnd
      <3>1. cfg.pll /\ (pc = 8 \/ pc = 9 \/ pc = 10)
        BY <2>4, Places
      <3>2. pc # 10
        BY <3>1, ClockWrites DEF Now
      <3>3. reg = "SYSPLLCTRL" \/ reg = "PDRUNCFG"
        BY <1>1, <3>1, <3>2, ClockRegsAt
      <3> QED
        BY <2>2, <3>3 DEF ClockRegs
    <2>5. CASE pc \in PllEnd + 1 .. SelBegin
      <3>1. cfg.wdt /\ (pc = PllEnd + 1 \/ pc = PllEnd + 2)
        BY <2>5, Places
      <3>2. reg = "WDTOSCCTRL" \/ reg = "PDRUNCFG"
        BY <1>1, <3>1, ClockRegsAt
      <3> QED
        BY <2>2, <3>2 DEF ClockRegs
    <2>6. CASE pc \in SelBegin + 1 .. SelBegin + 8
      <3>1. \/ pc = SelBegin + 1 \/ pc = SelBegin + 2 \/ pc = SelBegin + 3
            \/ pc = SelBegin + 4 \/ pc = SelBegin + 5 \/ pc = SelBegin + 6
            \/ pc = SelBegin + 7 \/ pc = SelBegin + 8
        BY <2>6, Places
      <3>2. \/ reg = "MAINCLKSEL" \/ reg = "MAINCLKUEN" \/ reg = "SYSAHBCLKDIV"
            \/ reg = "SYSAHBCLKCTRL" \/ reg = "SSP0CLKDIV" \/ reg = "UARTCLKDIV"
        BY <1>1, <3>1, ClockRegsAt
      <3> QED
        BY <2>2, <3>2 DEF ClockRegs
    <2>7. \/ pc \in 3 .. 7 \/ pc \in 8 .. PllEnd \/ pc \in PllEnd + 1 .. SelBegin
          \/ pc \in SelBegin + 1 .. SelBegin + 8
      BY <2>2, Places
    <2> QED
      BY <2>3, <2>4, <2>5, <2>6, <2>7
  <1>3. pc # Upd
    BY ClockWrites DEF Now
  <1>4. ASSUME pc \in Upd + 1 .. Dev
        PROVE  Dev = Upd + 2 /\ pc \in Upd + 1 .. Upd + 2 /\ reg \in TickRegs
    <2>1. Dev = Upd + 2 /\ (pc = Upd + 1 \/ pc = Upd + 2)
      BY <1>4, Places
    <2>2. reg = "LOAD" \/ reg = "TICKINT"
      BY <1>1, <2>1, TickRegsAt
    <2>3. reg \in TickRegs
      BY <2>2 DEF TickRegs
    <2> QED
      BY <1>4, <2>1, <2>3
  <1>5. ASSUME pc \in Dev + 1 .. Dev + 10
        PROVE  /\ reg \in UartRegs
               /\ reg \in {"DLL", "DLM"} => pc \in Dev + 5 .. Dev + 6
    <2>1. \/ pc = Dev + 1 \/ pc = Dev + 2 \/ pc = Dev + 3 \/ pc = Dev + 4 \/ pc = Dev + 5
          \/ pc = Dev + 6 \/ pc = Dev + 7 \/ pc = Dev + 8 \/ pc = Dev + 9 \/ pc = Dev + 10
      BY <1>5, Places
    <2>2. \/ reg = "PIO1_6" \/ reg = "PIO1_7" \/ reg = "TER" \/ reg = "LCR"
          \/ (pc = Dev + 5 /\ reg = "DLL") \/ (pc = Dev + 6 /\ reg = "DLM") \/ reg = "FDR"
      BY <1>1, <2>1, UartRegsAt
    <2>3. Dev + 5 \in Dev + 5 .. Dev + 6 /\ Dev + 6 \in Dev + 5 .. Dev + 6
      BY Places
    <2> QED
      BY <2>2, <2>3 DEF UartRegs
  <1>6. ASSUME pc \in Dev + 11 .. Dev + 18
        PROVE  /\ reg \in SpiRegs \cup {"PRESETCTRL"}
               /\ reg \in {"SSE", "CPSR"} => pc > Dev + 14
    <2>1. \/ pc = Dev + 11 \/ pc = Dev + 12 \/ pc = Dev + 13 \/ pc = Dev + 14
          \/ pc = Dev + 15 \/ pc = Dev + 16 \/ pc = Dev + 17 \/ pc = Dev + 18
      BY <1>6, Places
    <2>2. pc # Dev + 17
      BY SpiWrites DEF Now
    <2>3. \/ reg = "PIO0_8" \/ reg = "PIO0_9" \/ reg = "PIO0_6" \/ reg = "PRESETCTRL"
          \/ (pc = Dev + 15 /\ reg = "SSE") \/ (pc = Dev + 16 /\ reg = "CPSR")
          \/ (pc = Dev + 18 /\ reg = "SSE")
      BY <1>1, <2>1, <2>2, SpiRegsAt
    <2>4. Dev + 15 > Dev + 14 /\ Dev + 16 > Dev + 14 /\ Dev + 18 > Dev + 14
      BY Places
    <2> QED
      BY <2>3, <2>4 DEF SpiRegs
  <1>7. ASSUME pc \in Dev + 19 .. Dev + 32
        PROVE  /\ pc \in Dev + 19 .. Dev + 27
               /\ reg \in I2CRegs \cup {"PRESETCTRL", "ISER"}
               /\ reg \in {"SCLL", "SCLH", "I2EN"} => pc > Dev + 21
    <2>1. /\ pc # Dev + 25 /\ pc # Dev + 28 /\ pc # Dev + 29 /\ pc # Dev + 30
          /\ pc # Dev + 31 /\ pc # Dev + 32
      BY I2CWrites, LastWrites DEF Now
    <2>2. \/ pc = Dev + 19 \/ pc = Dev + 20 \/ pc = Dev + 21 \/ pc = Dev + 22
          \/ pc = Dev + 23 \/ pc = Dev + 24 \/ pc = Dev + 26 \/ pc = Dev + 27
      BY <1>7, <2>1, Places
    <2>3. \/ reg = "PIO0_4" \/ reg = "PIO0_5" \/ reg = "PRESETCTRL"
          \/ (pc = Dev + 22 /\ reg = "I2EN") \/ (pc = Dev + 23 /\ reg = "SCLL")
          \/ (pc = Dev + 24 /\ reg = "SCLH") \/ reg = "ISER"
          \/ (pc = Dev + 27 /\ reg = "I2EN")
      BY <1>1, <2>2, I2CRegsAt
    <2>4. pc \in Dev + 19 .. Dev + 27
      BY <2>2, Places
    <2>5. /\ Dev + 22 > Dev + 21 /\ Dev + 23 > Dev + 21 /\ Dev + 24 > Dev + 21
          /\ Dev + 27 > Dev + 21
      BY Places
    <2> QED
      BY <2>3, <2>4, <2>5 DEF I2CRegs
  <1>8. ASSUME pc \in Dev + 33 .. Dev + 34
        PROVE  reg \in {"DIR", "DATA"}
    <2>1. pc = Dev + 33 \/ pc = Dev + 34
      BY <1>8, Places
    <2> QED
      BY <1>1, <2>1, LastRegsAt
  <1>9. \/ pc < Upd \/ pc \in Upd + 1 .. Dev \/ pc \in Dev + 1 .. Dev + 10
        \/ pc \in Dev + 11 .. Dev + 18 \/ pc \in Dev + 19 .. Dev + 32
        \/ pc \in Dev + 33 .. Dev + 34
    BY <1>3, Places
  <1> QED
    BY <1>2, <1>4, <1>5, <1>6, <1>7, <1>8, <1>9 DEF reg
----------------------------------------------------------------------------
LEMMA MaxClockNat == MaxClock \in Nat
  BY SMT DEF MaxClock

(* The clock that the settings choose can be counted in milliseconds.       *)
LEMMA GivesClock ==
    ASSUME cfg \in Configs
    PROVE  /\ cfg \in Wizard
           /\ Chosen(cfg) \in 1 .. MaxClock
           /\ Chosen(cfg) \div cfg.ahbdiv \in 1000 .. MaxClock
  <1>1. cfg \in Wizard /\ Chosen(cfg) <= MaxClock /\ Chosen(cfg) \div cfg.ahbdiv >= 1000
    BY ClockAssumption, SMT
  <1>2. /\ cfg.pllsel \in 0 .. 2 /\ cfg.m \in 1 .. 32 /\ cfg.ahbdiv \in 1 .. 255
        /\ cfg.freqsel \in 0 .. 15 /\ cfg.divsel \in 0 .. 31 /\ cfg.mainsel \in 0 .. 3
    BY <1>1, SMT DEF Wizard
  <1>3. WdtOsc(cfg.freqsel, cfg.divsel) \in Nat
    <2>1. Fclkana(cfg.freqsel) \in Nat
      BY <1>2, SMT DEF Fclkana, Analog
    <2>2. 2 * cfg.divsel + 2 \in Nat \ {0}
      BY <1>2, SMT
    <2> QED
      BY <2>1, <2>2, SMT DEF WdtOsc
  <1> DEFINE wdt == IF cfg.wdt THEN WdtOsc(cfg.freqsel, cfg.divsel) ELSE 0
             pllIn == CASE cfg.pllsel = 0 -> IRC [] cfg.pllsel = 1 -> XTAL
                        [] cfg.pllsel = 2 -> wdt
             out == IF ~cfg.pll THEN 0 ELSE IF cfg.bypass THEN pllIn ELSE pllIn * cfg.m
  <1>4. wdt \in Nat
    BY <1>3
  <1> HIDE DEF wdt
  <1>5. pllIn \in Nat
    BY <1>2, <1>4, SMT DEF IRC, XTAL
  <1> HIDE DEF pllIn
  <1>6. out \in Nat
    <2>1. pllIn * cfg.m \in Nat
      BY <1>2, <1>5, SMT
    <2> QED
      BY <1>5, <2>1
  <1> HIDE DEF out
  <1>7. IRC \in Nat
    BY SMT DEF IRC
  <1>8. Chosen(cfg) = IF cfg.mainsel = 0 THEN IRC ELSE IF cfg.mainsel = 1 THEN pllIn
                      ELSE IF cfg.mainsel = 2 THEN wdt ELSE out
    BY <1>2 DEF Chosen, wdt, pllIn, out
  <1>9. Chosen(cfg) \in Nat
    BY <1>4, <1>5, <1>6, <1>7, <1>8
  <1> DEFINE c == Chosen(cfg)
             d == cfg.ahbdiv
  <1>10. c \in Nat /\ d \in 1 .. 255 /\ c \div d >= 1000 /\ c <= MaxClock
    BY <1>1, <1>2, <1>9
  <1> HIDE DEF c, d
  <1>11. c \in 1 .. MaxClock /\ c \div d \in 1000 .. MaxClock
    <2>1. c \div d \in Nat /\ c \div d <= c
      BY <1>10, SMT
    <2> DEFINE q == c \div d
    <2>2. q \in Nat /\ q <= c /\ q >= 1000
      BY <1>10, <2>1
    <2> HIDE DEF q
    <2>3. c \in 1 .. MaxClock /\ q \in 1000 .. MaxClock
      BY <1>10, <2>2, MaxClockNat
    <2> QED
      BY <2>3 DEF q
  <1> QED
    BY <1>1, <1>11 DEF c, d

LEMMA Counts ==
    ASSUME NEW s \in Nat, s >= 1000, s <= MaxClock
    PROVE  s \div 1000 - 1 \in 0 .. SysTick_LOAD_RELOAD_Msk
  <1>3. s \div 1000 \in Nat /\ 1000 * (s \div 1000) <= s /\ s < 1000 * (s \div 1000) + 1000
    BY SMT
  <1> DEFINE q == s \div 1000
  <1>4. q \in Nat /\ 1000 * q <= s /\ s < 1000 * q + 1000
    BY <1>3
  <1> HIDE DEF q
  <1>5. q >= 1
    BY <1>4, SMT
  <1>6. q <= 50000
    BY <1>4, SMT DEF MaxClock
  <1>7. 50000 <= SysTick_LOAD_RELOAD_Msk /\ SysTick_LOAD_RELOAD_Msk \in Int
    BY SMT DEF SysTick_LOAD_RELOAD_Msk
  <1>8. q - 1 \in 0 .. SysTick_LOAD_RELOAD_Msk
    BY <1>4, <1>5, <1>6, <1>7
  <1> QED
    BY <1>8 DEF q

LEMMA TickFits ==
    ASSUME IInv, pc > Upd
    PROVE  /\ Dev = Upd + 2
           /\ SystemCoreClock = Chosen(cfg) \div cfg.ahbdiv
           /\ SystemCoreClock \in 1000 .. MaxClock
  <1>1. SystemCoreClock = Chosen(cfg) \div cfg.ahbdiv /\ cfg \in Configs
    BY DEF IInv, MainReady, TypeInv
  <1>2. SystemCoreClock \in 1000 .. MaxClock
    BY <1>1, GivesClock, SMT
  <1>3. SystemCoreClock \div 1000 - 1 \in 0 .. SysTick_LOAD_RELOAD_Msk
    <2>1. SystemCoreClock \in Nat /\ SystemCoreClock >= 1000 /\ SystemCoreClock <= MaxClock
      BY <1>2, MaxClockNat
    <2> QED
      BY <2>1, Counts
  <1>4. Dev = Upd + 2
    BY <1>3 DEF Dev
  <1> QED
    BY <1>1, <1>2, <1>4
----------------------------------------------------------------------------
(* Every write of the program reaches its register.                         *)
LEMMA Reached ==
    ASSUME IInv, pc \in 1 .. Dev + 34, Now.op = "write"
    PROVE  Reaches(Now.reg) /\ Now.reg \in RegNames
  <1> DEFINE reg == Now.reg
             ahb == regs["SYSAHBCLKCTRL"]
  <1>1. "SYS" \in ahb
    BY DEF IInv, MainReady
  <1>2. ASSUME pc > Upd
        PROVE  /\ "IOCON" \in ahb /\ "UART" \in ahb /\ "SSP0" \in ahb /\ "I2C" \in ahb
               /\ "GPIO" \in ahb
    <2>1. pc > SelBegin + 6
      BY <1>2, Places
    <2> QED
      BY <2>1 DEF IInv, MainReady, AHBCLKCTRL
  <1>3. /\ pc > Dev + 14 => "SSP0" \in regs["PRESETCTRL"]
        /\ pc > Dev + 21 => "I2C" \in regs["PRESETCTRL"]
        /\ pc \in Dev + 5 .. Dev + 6 => regs["LCR"] = "latch"
    <2>1. pc \in Dev + 5 .. Dev + 6 => pc \in Dev + 5 .. Dev + 7
      BY Places
    <2> QED
      BY <2>1 DEF IInv, SpiReady, I2CReady, UartReady
  <1> HIDE DEF ahb, reg
  <1>4. CASE reg \in ClockRegs \cup TickRegs \cup {"PRESETCTRL", "ISER"}
    <2>1. Block(reg) = "SYS" /\ reg \notin {"DLL", "DLM"} /\ reg \in RegNames
      BY <1>4 DEF Block, ClockRegs, TickRegs, OtherRegs, RegNames
    <2> QED
      BY <1>1, <2>1 DEF Reaches, Works, reg, ahb
  <1>5. CASE pc > Upd /\ reg \in UartRegs /\ (reg \in {"DLL", "DLM"} => pc \in Dev + 5 .. Dev + 6)
    <2>1. (Block(reg) = "IOCON" \/ Block(reg) = "UART") /\ reg \in RegNames
      BY <1>5 DEF Block, UartRegs, RegNames
    <2>2. Block(reg) \in ahb /\ Block(reg) \notin {"SSP0", "I2C"}
      BY <1>2, <1>5, <2>1
    <2> QED
      BY <1>3, <1>5, <2>1, <2>2 DEF Reaches, Works, reg, ahb
  <1>6. CASE pc > Upd /\ reg \in SpiRegs /\ (reg \in {"SSE", "CPSR"} => pc > Dev + 14)
    <2>1. /\ (Block(reg) = "IOCON" /\ reg \notin {"SSE", "CPSR"})
             \/ (Block(reg) = "SSP0" /\ reg \in {"SSE", "CPSR"})
          /\ reg \in RegNames /\ reg \notin {"DLL", "DLM"}
      BY <1>6 DEF Block, SpiRegs, RegNames
    <2>2. /\ Block(reg) \in ahb
          /\ Block(reg) = "IOCON" \/ (Block(reg) = "SSP0" /\ "SSP0" \in regs["PRESETCTRL"])
      BY <1>2, <1>3, <1>6, <2>1
    <2> QED
      BY <2>1, <2>2 DEF Reaches, Works, reg, ahb
  <1>7. CASE pc > Upd /\ reg \in I2CRegs /\ (reg \in {"SCLL", "SCLH", "I2EN"} => pc > Dev + 21)
    <2>1. /\ (Block(reg) = "IOCON" /\ reg \notin {"SCLL", "SCLH", "I2EN"})
             \/ (Block(reg) = "I2C" /\ reg \in {"SCLL", "SCLH", "I2EN"})
          /\ reg \in RegNames /\ reg \notin {"DLL", "DLM"}
      BY <1>7 DEF Block, I2CRegs, RegNames
    <2>2. /\ Block(reg) \in ahb
          /\ Block(reg) = "IOCON" \/ (Block(reg) = "I2C" /\ "I2C" \in regs["PRESETCTRL"])
      BY <1>2, <1>3, <1>7, <2>1
    <2> QED
      BY <2>1, <2>2 DEF Reaches, Works, reg, ahb
  <1>8. CASE pc > Upd /\ reg \in {"DIR", "DATA"}
    <2>1. Block(reg) = "GPIO" /\ reg \in RegNames /\ reg \notin {"DLL", "DLM"}
      BY <1>8 DEF Block, OtherRegs, RegNames
    <2> QED
      BY <1>2, <1>8, <2>1 DEF Reaches, Works, reg, ahb
  <1>9. \/ reg \in ClockRegs \cup TickRegs \cup {"PRESETCTRL", "ISER"}
        \/ pc > Upd /\ reg \in UartRegs /\ (reg \in {"DLL", "DLM"} => pc \in Dev + 5 .. Dev + 6)
        \/ pc > Upd /\ reg \in SpiRegs /\ (reg \in {"SSE", "CPSR"} => pc > Dev + 14)
        \/ pc > Upd /\ reg \in I2CRegs /\ (reg \in {"SCLL", "SCLH", "I2EN"} => pc > Dev + 21)
        \/ pc > Upd /\ reg \in {"DIR", "DATA"}
    <2>1. /\ pc \in Dev + 1 .. Dev + 10 => pc > Upd
          /\ pc \in Dev + 11 .. Dev + 18 => pc > Upd
          /\ pc \in Dev + 19 .. Dev + 27 => pc > Upd
          /\ pc \in Dev + 33 .. Dev + 34 => pc > Upd
      BY Places
    <2> QED
      BY <2>1, Where DEF reg
  <1> QED
    BY <1>4, <1>5, <1>6, <1>7, <1>8, <1>9 DEF reg

(* What a write changes.                                                    *)
Updated(reg, value) ==
    regs'[reg] = value /\ \A r \in RegNames : r # reg => regs'[r] = regs[r]

LEMMA WriteStep ==
    ASSUME IInv, WriteRegister
    PROVE  /\ pc' = pc + 1 /\ pc \in 1 .. Dev + 34 /\ Now.op = "write"
           /\ \E V : regs' \in [RegNames -> V]
           /\ Now.reg \in RegNames /\ Updated(Now.reg, Now.value)
           /\ UNCHANGED <<cfg, ready, SystemCoreClock, pending, busy, asked>>
           /\ PllEnd' = PllEnd /\ SelBegin' = SelBegin /\ Upd' = Upd /\ Dev' = Dev
  <1>1. /\ pc' = pc + 1 /\ ~Booted /\ Now.op = "write"
        /\ UNCHANGED <<cfg, ready, SystemCoreClock, pending, busy, asked>>
    BY DEF WriteRegister, Next_is
  <1>2. pc \in 1 .. Dev + 34
    <2>1. pc \in 1 .. Dev + 35
      BY DEF IInv, TypeInv
    <2> QED
      BY <1>1, <2>1, BootedIs
  <1>3. Reaches(Now.reg) /\ Now.reg \in RegNames
    BY <1>1, <1>2, Reached
  <1>4. regs' = [regs EXCEPT ![Now.reg] = Now.value]
    BY <1>3 DEF WriteRegister
  <1>5. PICK V : regs \in [RegNames -> V]
    BY DEF IInv, TypeInv
  <1> DEFINE reg == Now.reg
             value == Now.value
  <1>6. regs' = [regs EXCEPT ![reg] = value] /\ reg \in RegNames
    BY <1>3, <1>4
  <1> HIDE DEF reg, value
  <1>7. regs' \in [RegNames -> V \cup {value}]
    BY <1>5, <1>6
  <1>8. Updated(reg, value)
    BY <1>5, <1>6 DEF Updated
  <1>9. Updated(Now.reg, Now.value)
    BY <1>8 DEF reg, value
  <1>10. PllEnd' = PllEnd /\ SelBegin' = SelBegin /\ Upd' = Upd /\ Dev' = Dev
    BY <1>1, PlacesKept
  <1> QED
    BY <1>1, <1>2, <1>3, <1>7, <1>9, <1>10

LEMMA WrittenThere ==
    ASSUME IInv, WriteRegister, NEW reg, NEW value, Writes(pc, reg, value)
    PROVE  Updated(reg, value) /\ Now.reg = reg /\ Now.value = value
  <1>1. Now.reg = reg /\ Now.value = value
    BY DEF Writes, Now
  <1> QED
    BY <1>1, WriteStep

LEMMA Elsewhere ==
    ASSUME IInv, WriteRegister
    PROVE  /\ pc \notin 3 .. Upd - 1 => \A r \in ClockRegs : regs'[r] = regs[r]
           /\ pc \notin Upd + 1 .. Upd + 2 => \A r \in TickRegs : regs'[r] = regs[r]
           /\ pc \notin Dev + 1 .. Dev + 10 => \A r \in UartRegs : regs'[r] = regs[r]
           /\ pc \notin Dev + 11 .. Dev + 18 => \A r \in SpiRegs : regs'[r] = regs[r]
           /\ pc \notin Dev + 19 .. Dev + 27 => \A r \in I2CRegs : regs'[r] = regs[r]
           /\ pc \notin Dev + 11 .. Dev + 27 => regs'["PRESETCTRL"] = regs["PRESETCTRL"]
           /\ \A r \in {"CLKDIV", "CHANNEL"} : regs'[r] = regs[r]
  <1> DEFINE reg == Now.reg
  <1>1. \A r \in RegNames : r # reg => regs'[r] = regs[r]
    BY WriteStep DEF Updated
  <1>2. pc \in 1 .. Dev + 34 /\ Now.op = "write"
    BY WriteStep
  <1>3. \/ pc \in 3 .. Upd - 1 /\ reg \in ClockRegs
        \/ pc \in Upd + 1 .. Upd + 2 /\ reg \in TickRegs
        \/ pc \in Dev + 1 .. Dev + 10 /\ reg \in UartRegs
        \/ pc \in Dev + 11 .. Dev + 18 /\ reg \in SpiRegs \cup {"PRESETCTRL"}
        \/ pc \in Dev + 19 .. Dev + 27 /\ reg \in I2CRegs \cup {"PRESETCTRL", "ISER"}
        \/ reg \in {"DIR", "DATA"}
    BY <1>2, Where
  <1>4. pc \in Dev + 11 .. Dev + 18 \/ pc \in Dev + 19 .. Dev + 27 => pc \in Dev + 11 .. Dev + 27
    BY Places
  <1> HIDE DEF reg
  <1>5. pc \notin 3 .. Upd - 1 => \A r \in ClockRegs : regs'[r] = regs[r]
    <2>1. pc \notin 3 .. Upd - 1 => \A r \in ClockRegs : r \in RegNames /\ r # reg
      BY <1>3 DEF ClockRegs, TickRegs, UartRegs, SpiRegs, I2CRegs, RegNames
    <2> QED
      BY <1>1, <2>1
  <1>6. pc \notin Upd + 1 .. Upd + 2 => \A r \in TickRegs : regs'[r] = regs[r]
    <2>1. pc \notin Upd + 1 .. Upd + 2 => \A r \in TickRegs : r \in RegNames /\ r # reg
      BY <1>3 DEF ClockRegs, TickRegs, UartRegs, SpiRegs, I2CRegs, RegNames
    <2> QED
      BY <1>1, <2>1
  <1>7. pc \notin Dev + 1 .. Dev + 10 => \A r \in UartRegs : regs'[r] = regs[r]
    <2>1. pc \notin Dev + 1 .. Dev + 10 => \A r \in UartRegs : r \in RegNames /\ r # reg
      BY <1>3 DEF ClockRegs, TickRegs, UartRegs, SpiRegs, I2CRegs, RegNames
    <2> QED
      BY <1>1, <2>1
  <1>8. pc \notin Dev + 11 .. Dev + 18 => \A r \in SpiRegs : regs'[r] = regs[r]
    <2>1. pc \notin Dev + 11 .. Dev + 18 => \A r \in SpiRegs : r \in RegNames /\ r # reg
      BY <1>3 DEF ClockRegs, TickRegs, UartRegs, SpiRegs, I2CRegs, RegNames
    <2> QED
      BY <1>1, <2>1
  <1>9. pc \notin Dev + 19 .. Dev + 27 => \A r \in I2CRegs : regs'[r] = regs[r]
    <2>1. pc \notin Dev + 19 .. Dev + 27 => \A r \in I2CRegs : r \in RegNames /\ r # reg
      BY <1>3 DEF ClockRegs, TickRegs, UartRegs, SpiRegs, I2CRegs, RegNames
    <2> QED
      BY <1>1, <2>1
  <1>10. pc \notin Dev + 11 .. Dev + 27 => regs'["PRESETCTRL"] = regs["PRESETCTRL"]
    <2>1. pc \notin Dev + 11 .. Dev + 27 => "PRESETCTRL" # reg
      BY <1>3, <1>4 DEF ClockRegs, TickRegs, UartRegs
    <2>2. "PRESETCTRL" \in RegNames
      BY DEF RegNames, OtherRegs
    <2> QED
      BY <1>1, <2>1, <2>2
  <1>11. \A r \in {"CLKDIV", "CHANNEL"} : regs'[r] = regs[r]
    <2>1. \A r \in {"CLKDIV", "CHANNEL"} : r \in RegNames /\ r # reg
      BY <1>3 DEF ClockRegs, TickRegs, UartRegs, SpiRegs, I2CRegs, RegNames, OtherRegs
    <2> QED
      BY <1>1, <2>1
  <1> QED
    BY <1>5, <1>6, <1>7, <1>8, <1>9, <1>10, <1>11
----------------------------------------------------------------------------
(* A write keeps each part of the invariant.                                *)
LEMMA WriteKeepsUart == ASSUME IInv, WriteRegister PROVE UartReady'
  <1>1. pc' = pc + 1 /\ Dev' = Dev /\ Dev \in Nat /\ pc \in Nat
    BY WriteStep, Places
  <1>2. UartReady
    BY DEF IInv
  <1>3. ASSUME NEW reg, NEW value, Updated(reg, value)
        PROVE  regs'[reg] = value /\ \A r \in UartRegs : r # reg => regs'[r] = regs[r]
    BY <1>3 DEF Updated, RegNames
  <1>4. CASE pc \in Dev + 1 .. Dev + 10
    <2>1. \/ pc = Dev + 1 \/ pc = Dev + 2 \/ pc = Dev + 3 \/ pc = Dev + 4 \/ pc = Dev + 5
          \/ pc = Dev + 6 \/ pc = Dev + 7 \/ pc = Dev + 8 \/ pc = Dev + 9 \/ pc = Dev + 10
      BY <1>1, <1>4
    <2>2. CASE pc = Dev + 1
      <3>1. Updated("PIO1_6", 1)
        BY <2>2, UartWrites, WrittenThere
      <3>2. regs'["PIO1_6"] = 1 /\ \A r \in UartRegs : r # "PIO1_6" => regs'[r] = regs[r]
        BY <1>3, <3>1
      <3> QED
        BY <1>1, <1>2, <2>2, <3>2 DEF UartReady, UartRegs
    <2>3. CASE pc = Dev + 2
      <3>1. Updated("PIO1_7", 1)
        BY <2>3, UartWrites, WrittenThere
      <3>2. regs'["PIO1_7"] = 1 /\ \A r \in UartRegs : r # "PIO1_7" => regs'[r] = regs[r]
        BY <1>3, <3>1
      <3> QED
        BY <1>1, <1>2, <2>3, <3>2 DEF UartReady, UartRegs
    <2>4. CASE pc = Dev + 3
      <3>1. Updated("TER", FALSE)
        BY <2>4, UartWrites, WrittenThere
      <3>2. regs'["TER"] = FALSE /\ \A r \in UartRegs : r # "TER" => regs'[r] = regs[r]
        BY <1>3, <3>1
      <3> QED
        BY <1>1, <1>2, <2>4, <3>2 DEF UartReady, UartRegs
    <2>5. CASE pc = Dev + 4
      <3>1. Updated("LCR", "latch")
        BY <2>5, UartWrites, WrittenThere
      <3>2. regs'["LCR"] = "latch" /\ \A r \in UartRegs : r # "LCR" => regs'[r] = regs[r]
        BY <1>3, <3>1
      <3> QED
        BY <1>1, <1>2, <2>5, <3>2 DEF UartReady, UartRegs
    <2>6. CASE pc = Dev + 5
      <3>1. Updated("DLL", 15)
        BY <2>6, UartWrites, WrittenThere
      <3>2. regs'["DLL"] = 15 /\ \A r \in UartRegs : r # "DLL" => regs'[r] = regs[r]
        BY <1>3, <3>1
      <3> QED
        BY <1>1, <1>2, <2>6, <3>2 DEF UartReady, UartRegs
    <2>7. CASE pc = Dev + 6
      <3>1. Updated("DLM", 0)
        BY <2>7, UartWrites, WrittenThere
      <3>2. regs'["DLM"] = 0 /\ \A r \in UartRegs : r # "DLM" => regs'[r] = regs[r]
        BY <1>3, <3>1
      <3> QED
        BY <1>1, <1>2, <2>7, <3>2 DEF UartReady, UartRegs
    <2>8. CASE pc = Dev + 7
      <3>1. Updated("LCR", "5N1")
        BY <2>8, UartWrites, WrittenThere
      <3>2. regs'["LCR"] = "5N1" /\ \A r \in UartRegs : r # "LCR" => regs'[r] = regs[r]
        BY <1>3, <3>1
      <3> QED
        BY <1>1, <1>2, <2>8, <3>2 DEF UartReady, UartRegs
    <2>9. CASE pc = Dev + 8
      <3>1. Updated("FDR", [mul |-> 15, add |-> 11])
        BY <2>9, UartWrites, WrittenThere
      <3>2. regs'["FDR"] = [mul |-> 15, add |-> 11]
            /\ \A r \in UartRegs : r # "FDR" => regs'[r] = regs[r]
        BY <1>3, <3>1
      <3> QED
        BY <1>1, <1>2, <2>9, <3>2 DEF UartReady, UartRegs
    <2>10. CASE pc = Dev + 9
      <3>1. Updated("LCR", "8N1")
        BY <2>10, UartWrites, WrittenThere
      <3>2. regs'["LCR"] = "8N1" /\ \A r \in UartRegs : r # "LCR" => regs'[r] = regs[r]
        BY <1>3, <3>1
      <3> QED
        BY <1>1, <1>2, <2>10, <3>2 DEF UartReady, UartRegs
    <2>11. CASE pc = Dev + 10
      <3>1. Updated("TER", TRUE)
        BY <2>11, UartWrites, WrittenThere
      <3>2. regs'["TER"] = TRUE /\ \A r \in UartRegs : r # "TER" => regs'[r] = regs[r]
        BY <1>3, <3>1
      <3> QED
        BY <1>1, <1>2, <2>11, <3>2 DEF UartReady, UartRegs
    <2> QED
      BY <2>1, <2>2, <2>3, <2>4, <2>5, <2>6, <2>7, <2>8, <2>9, <2>10, <2>11
  <1>5. CASE pc \notin Dev + 1 .. Dev + 10
    <2>1. \A r \in UartRegs : regs'[r] = regs[r]
      BY <1>5, Elsewhere
    <2>2. pc < Dev + 1 \/ pc > Dev + 10
      BY <1>1, <1>5
    <2> QED
      BY <1>1, <1>2, <2>1, <2>2 DEF UartReady, UartRegs
  <1> QED
    BY <1>4, <1>5

LEMMA WriteKeepsSpi == ASSUME IInv, WriteRegister PROVE SpiReady'
  <1>1. /\ pc' = pc + 1 /\ Dev' = Dev /\ Dev \in Nat /\ pc \in Nat
        /\ UNCHANGED <<ready, pending, busy, asked>>
    BY WriteStep, Places
  <1>2. SpiReady
    BY DEF IInv
  <1> DEFINE R == SpiRegs \cup {"PRESETCTRL"}
  <1>3. ASSUME NEW reg, NEW value, Updated(reg, value)
        PROVE  regs'[reg] = value /\ \A r \in R : r # reg => regs'[r] = regs[r]
    BY <1>3 DEF Updated, RegNames, OtherRegs
  <1>4. CASE pc \in Dev + 11 .. Dev + 18
    <2>0. pc # Dev + 17
      BY WriteStep, SpiWrites DEF Now
    <2>1. \/ pc = Dev + 11 \/ pc = Dev + 12 \/ pc = Dev + 13 \/ pc = Dev + 14
          \/ pc = Dev + 15 \/ pc = Dev + 16 \/ pc = Dev + 18
      BY <1>1, <1>4, <2>0
    <2>2. CASE pc = Dev + 11
      <3>1. Updated("PIO0_8", 1)
        BY <2>2, SpiWrites, WrittenThere
      <3>2. regs'["PIO0_8"] = 1 /\ \A r \in R : r # "PIO0_8" => regs'[r] = regs[r]
        BY <1>3, <3>1
      <3> QED
        BY <1>1, <1>2, <2>2, <3>2 DEF SpiReady, SpiRegs
    <2>3. CASE pc = Dev + 12
      <3>1. Updated("PIO0_9", 1)
        BY <2>3, SpiWrites, WrittenThere
      <3>2. regs'["PIO0_9"] = 1 /\ \A r \in R : r # "PIO0_9" => regs'[r] = regs[r]
        BY <1>3, <3>1
      <3> QED
        BY <1>1, <1>2, <2>3, <3>2 DEF SpiReady, SpiRegs
    <2>4. CASE pc = Dev + 13
      <3>1. Updated("PIO0_6", 2)
        BY <2>4, SpiWrites, WrittenThere
      <3>2. regs'["PIO0_6"] = 2 /\ \A r \in R : r # "PIO0_6" => regs'[r] = regs[r]
        BY <1>3, <3>1
      <3> QED
        BY <1>1, <1>2, <2>4, <3>2 DEF SpiReady, SpiRegs
    <2>5. CASE pc = Dev + 14
      <3>1. Updated("PRESETCTRL", (regs["PRESETCTRL"] \union {"SSP0"}))
        BY <2>5, SpiWrites, WrittenThere
      <3>2. regs'["PRESETCTRL"] = (regs["PRESETCTRL"] \union {"SSP0"})
            /\ \A r \in R : r # "PRESETCTRL" => regs'[r] = regs[r]
        BY <1>3, <3>1
      <3> QED
        BY <1>1, <1>2, <2>5, <3>2 DEF SpiReady, SpiRegs
    <2>6. CASE pc = Dev + 15
      <3>1. Updated("SSE", FALSE)
        BY <2>6, SpiWrites, WrittenThere
      <3>2. regs'["SSE"] = FALSE /\ \A r \in R : r # "SSE" => regs'[r] = regs[r]
        BY <1>3, <3>1
      <3> QED
        BY <1>1, <1>2, <2>6, <3>2 DEF SpiReady, SpiRegs
    <2>7. CASE pc = Dev + 16
      <3>1. Updated("CPSR", 2)
        BY <2>7, SpiWrites, WrittenThere
      <3>2. regs'["CPSR"] = 2 /\ \A r \in R : r # "CPSR" => regs'[r] = regs[r]
        BY <1>3, <3>1
      <3> QED
        BY <1>1, <1>2, <2>7, <3>2 DEF SpiReady, SpiRegs
    <2>8. CASE pc = Dev + 18
      <3>1. Updated("SSE", TRUE)
        BY <2>8, SpiWrites, WrittenThere
      <3>2. regs'["SSE"] = TRUE /\ \A r \in R : r # "SSE" => regs'[r] = regs[r]
        BY <1>3, <3>1
      <3> QED
        BY <1>1, <1>2, <2>8, <3>2 DEF SpiReady, SpiRegs
    <2> QED
      BY <2>1, <2>2, <2>3, <2>4, <2>5, <2>6, <2>7, <2>8
  <1>5. CASE pc \notin Dev + 11 .. Dev + 18
    <2>1. \A r \in SpiRegs : regs'[r] = regs[r]
      BY <1>5, Elsewhere
    <2>2. pc < Dev + 11 \/ pc > Dev + 18
      BY <1>1, <1>5
    <2>3. pc > Dev + 18 => "SSP0" \in regs'["PRESETCTRL"]
      <3>1. pc > Dev + 18 => "SSP0" \in regs["PRESETCTRL"]
        BY <1>1, <1>2 DEF SpiReady
      <3>2. CASE pc \notin Dev + 11 .. Dev + 27
        BY <3>1, <3>2, Elsewhere
      <3>3. CASE pc = Dev + 21
        <4>1. Updated("PRESETCTRL", regs["PRESETCTRL"] \union {"I2C"})
          BY <3>3, I2CWrites, WrittenThere
        <4> QED
          BY <3>1, <4>1 DEF Updated
      <3>4. CASE pc \in Dev + 19 .. Dev + 27 /\ pc # Dev + 21
        <4>1. pc # Dev + 25
          BY WriteStep, I2CWrites DEF Now
        <4>2. \/ pc = Dev + 19 \/ pc = Dev + 20 \/ pc = Dev + 22 \/ pc = Dev + 23
              \/ pc = Dev + 24 \/ pc = Dev + 26 \/ pc = Dev + 27
          BY <1>1, <3>4, <4>1
        <4>3. Now.reg # "PRESETCTRL"
          BY <4>2, I2CRegsAt DEF Now
        <4> QED
          BY <3>1, <4>3, WriteStep DEF Updated, RegNames, OtherRegs
      <3> QED
        BY <1>1, <2>2, <3>2, <3>3, <3>4
    <2> QED
      BY <1>1, <1>2, <2>1, <2>2, <2>3 DEF SpiReady, SpiRegs
  <1> QED
    BY <1>4, <1>5

LEMMA WriteKeepsI2C == ASSUME IInv, WriteRegister PROVE I2CReady'
  <1>1. /\ pc' = pc + 1 /\ Dev' = Dev /\ Dev \in Nat /\ pc \in Nat
        /\ UNCHANGED <<ready, pending, busy, asked>>
    BY WriteStep, Places
  <1>2. I2CReady
    BY DEF IInv
  <1> DEFINE R == I2CRegs \cup {"PRESETCTRL"}
  <1>3. ASSUME NEW reg, NEW value, Updated(reg, value)
        PROVE  regs'[reg] = value /\ \A r \in R : r # reg => regs'[r] = regs[r]
    BY <1>3 DEF Updated, RegNames, OtherRegs
  <1>4. CASE pc \in Dev + 19 .. Dev + 27
    <2>0. pc # Dev + 25
      BY WriteStep, I2CWrites DEF Now
    <2>1. \/ pc = Dev + 19 \/ pc = Dev + 20 \/ pc = Dev + 21 \/ pc = Dev + 22
          \/ pc = Dev + 23 \/ pc = Dev + 24 \/ pc = Dev + 26 \/ pc = Dev + 27
      BY <1>1, <1>4, <2>0
    <2>2. CASE pc = Dev + 19
      <3>1. Updated("PIO0_4", 1)
        BY <2>2, I2CWrites, WrittenThere
      <3>2. regs'["PIO0_4"] = 1 /\ \A r \in R : r # "PIO0_4" => regs'[r] = regs[r]
        BY <1>3, <3>1
      <3> QED
        BY <1>1, <1>2, <2>2, <3>2 DEF I2CReady, I2CRegs
    <2>3. CASE pc = Dev + 20
      <3>1. Updated("PIO0_5", 1)
        BY <2>3, I2CWrites, WrittenThere
      <3>2. regs'["PIO0_5"] = 1 /\ \A r \in R : r # "PIO0_5" => regs'[r] = regs[r]
        BY <1>3, <3>1
      <3> QED
        BY <1>1, <1>2, <2>3, <3>2 DEF I2CReady, I2CRegs
    <2>4. CASE pc = Dev + 21
      <3>1. Updated("PRESETCTRL", (regs["PRESETCTRL"] \union {"I2C"}))
        BY <2>4, I2CWrites, WrittenThere
      <3>2. regs'["PRESETCTRL"] = (regs["PRESETCTRL"] \union {"I2C"})
            /\ \A r \in R : r # "PRESETCTRL" => regs'[r] = regs[r]
        BY <1>3, <3>1
      <3> QED
        BY <1>1, <1>2, <2>4, <3>2 DEF I2CReady, I2CRegs
    <2>5. CASE pc = Dev + 22
      <3>1. Updated("I2EN", FALSE)
        BY <2>5, I2CWrites, WrittenThere
      <3>2. regs'["I2EN"] = FALSE /\ \A r \in R : r # "I2EN" => regs'[r] = regs[r]
        BY <1>3, <3>1
      <3> QED
        BY <1>1, <1>2, <2>5, <3>2 DEF I2CReady, I2CRegs
    <2>6. CASE pc = Dev + 23
      <3>1. Updated("SCLL", 60)
        BY <2>6, I2CWrites, WrittenThere
      <3>2. regs'["SCLL"] = 60 /\ \A r \in R : r # "SCLL" => regs'[r] = regs[r]
        BY <1>3, <3>1
      <3> QED
        BY <1>1, <1>2, <2>6, <3>2 DEF I2CReady, I2CRegs
    <2>7. CASE pc = Dev + 24
      <3>1. Updated("SCLH", 60)
        BY <2>7, I2CWrites, WrittenThere
      <3>2. regs'["SCLH"] = 60 /\ \A r \in R : r # "SCLH" => regs'[r] = regs[r]
        BY <1>3, <3>1
      <3> QED
        BY <1>1, <1>2, <2>7, <3>2 DEF I2CReady, I2CRegs
    <2>8. CASE pc = Dev + 26
      <3>1. Updated("ISER", {I2C_IRQn})
        BY <2>8, I2CWrites, WrittenThere
      <3>2. regs'["ISER"] = {I2C_IRQn} /\ \A r \in R : r # "ISER" => regs'[r] = regs[r]
        BY <1>3, <3>1
      <3> QED
        BY <1>1, <1>2, <2>8, <3>2 DEF I2CReady, I2CRegs
    <2>9. CASE pc = Dev + 27
      <3>1. Updated("I2EN", TRUE)
        BY <2>9, I2CWrites, WrittenThere
      <3>2. regs'["I2EN"] = TRUE /\ \A r \in R : r # "I2EN" => regs'[r] = regs[r]
        BY <1>3, <3>1
      <3> QED
        BY <1>1, <1>2, <2>9, <3>2 DEF I2CReady, I2CRegs
    <2> QED
      BY <2>1, <2>2, <2>3, <2>4, <2>5, <2>6, <2>7, <2>8, <2>9
  <1>5. CASE pc \notin Dev + 19 .. Dev + 27
    <2>1. \A r \in I2CRegs : regs'[r] = regs[r]
      BY <1>5, Elsewhere
    <2>2. pc < Dev + 19 \/ pc > Dev + 27
      BY <1>1, <1>5
    <2>3. pc > Dev + 27 => regs'["PRESETCTRL"] = regs["PRESETCTRL"]
      <3>1. pc > Dev + 27 => pc \notin Dev + 11 .. Dev + 27
        BY <1>1
      <3> QED
        BY <3>1, Elsewhere
    <2>4. CASE pc < Dev + 19
      BY <1>1, <1>2, <2>4 DEF I2CReady
    <2>5. CASE pc > Dev + 27
      <3>1. /\ regs'["PIO0_4"] = regs["PIO0_4"] /\ regs'["PIO0_5"] = regs["PIO0_5"]
            /\ regs'["SCLL"] = regs["SCLL"] /\ regs'["SCLH"] = regs["SCLH"]
            /\ regs'["I2EN"] = regs["I2EN"] /\ regs'["PRESETCTRL"] = regs["PRESETCTRL"]
        BY <2>1, <2>3, <2>5 DEF I2CRegs
      <3>2. pc # Dev + 28 /\ pc # Dev + 29 /\ pc # Dev + 30
        BY WriteStep, I2CWrites DEF Now
      <3> QED
        BY <1>1, <1>2, <2>5, <3>1, <3>2 DEF I2CReady
    <2> QED
      BY <2>2, <2>4, <2>5
  <1> QED
    BY <1>4, <1>5

LEMMA WriteKeepsTick == ASSUME IInv, WriteRegister PROVE TickReady'
  <1>1. /\ pc' = pc + 1 /\ Upd' = Upd /\ Upd \in Nat /\ pc \in Nat
        /\ UNCHANGED <<ready, pending, SystemCoreClock>>
    BY WriteStep, Places
  <1>2. TickReady
    BY DEF IInv
  <1>3. pc # 1 /\ pc # 2
    BY WriteStep, ClockWrites DEF Now
  <1>4. pc >= 1
    BY WriteStep, Places
  <1>5. /\ pc' > 2 /\ "msTicks" \in ready'
        /\ pc > 2
    BY <1>1, <1>2, <1>3, <1>4 DEF TickReady
  <1> DEFINE load == SystemCoreClock \div 1000 - 1
  <1>6. /\ load' = load
        /\ pc > Upd + 1 => regs["LOAD"] = load
        /\ pc > Upd + 2 => regs["TICKINT"] = TRUE
    BY <1>1, <1>2 DEF TickReady
  <1>7. CASE pc = Upd + 1
    <2>1. Dev = Upd + 2
      BY <1>1, <1>7, TickFits
    <2>2. Updated("LOAD", load)
      BY <1>7, <2>1, TickWrites, WrittenThere
    <2>3. regs'["LOAD"] = load
      BY <2>2 DEF Updated
    <2> HIDE DEF load
    <2>4. pc' = Upd' + 2 /\ regs'["LOAD"] = load'
      BY <1>1, <1>6, <1>7, <2>3
    <2> QED
      BY <1>1, <1>5, <2>4 DEF TickReady, load
  <1>8. CASE pc = Upd + 2
    <2>1. Dev = Upd + 2
      BY <1>1, <1>8, TickFits
    <2>2. Updated("TICKINT", TRUE)
      BY <1>8, <2>1, TickWrites, WrittenThere
    <2>3. regs'["TICKINT"] = TRUE /\ regs'["LOAD"] = regs["LOAD"]
      BY <2>2 DEF Updated, RegNames, TickRegs
    <2> HIDE DEF load
    <2>4. pc' = Upd' + 3 /\ regs'["LOAD"] = load'
      BY <1>1, <1>6, <1>8, <2>3
    <2> QED
      BY <1>1, <1>5, <2>3, <2>4 DEF TickReady, load
  <1>9. CASE pc # Upd + 1 /\ pc # Upd + 2
    <2>1. regs'["LOAD"] = regs["LOAD"] /\ regs'["TICKINT"] = regs["TICKINT"]
      <3>1. pc \notin Upd + 1 .. Upd + 2
        BY <1>1, <1>9
      <3> QED
        BY <3>1, Elsewhere DEF TickRegs
    <2> HIDE DEF load
    <2>2. /\ pc' > Upd' + 1 => pc > Upd + 1
          /\ pc' > Upd' + 2 => pc > Upd + 2
      BY <1>1, <1>9, <1>2
    <2>3. /\ pc' > Upd' + 1 => regs'["LOAD"] = load'
          /\ pc' > Upd' + 2 => regs'["TICKINT"] = TRUE
      BY <1>6, <2>1, <2>2
    <2> QED
      BY <1>1, <1>5, <2>3 DEF TickReady, load
  <1> QED
    BY <1>7, <1>8, <1>9

(* The places of the writes to the clock registers.                         *)
LEMMA ClockPlaces ==
    ASSUME IInv, WriteRegister
    PROVE  \/ pc = 3 \/ pc = 4 \/ pc = 5 \/ pc = 6 \/ pc = 7
           \/ (cfg.pll /\ pc = 8) \/ (cfg.pll /\ pc = 9)
           \/ (cfg.wdt /\ pc = PllEnd + 1) \/ (cfg.wdt /\ pc = PllEnd + 2)
           \/ pc = SelBegin + 1 \/ pc = SelBegin + 2 \/ pc = SelBegin + 3 \/ pc = SelBegin + 4
           \/ pc = SelBegin + 5 \/ pc = SelBegin + 6 \/ pc = SelBegin + 7 \/ pc = SelBegin + 8
           \/ pc > Upd
  <1>1. pc \in 1 .. Dev + 34
    BY WriteStep
  <1>2. pc # 1 /\ pc # 2 /\ pc # Upd /\ (cfg.pll => pc # 10)
    BY WriteStep, ClockWrites DEF Now
  <1>3. \/ pc \in 3 .. 7 \/ (cfg.pll /\ pc \in 8 .. 10)
        \/ (cfg.wdt /\ pc \in PllEnd + 1 .. PllEnd + 2)
        \/ pc \in SelBegin + 1 .. SelBegin + 8 \/ pc > Upd
    BY <1>1, <1>2, Places
  <1> QED
    BY <1>2, <1>3, Places

(* Which oscillators are running is not taken back, nor is the ADC touched. *)
LEMMA PowerKept ==
    ASSUME IInv, WriteRegister
    PROVE  /\ \A block : block \notin regs["PDRUNCFG"] => block \notin regs'["PDRUNCFG"]
           /\ "ADC" \notin regs'["PDRUNCFG"] => "ADC" \notin regs["PDRUNCFG"]
  <1>1. "PDRUNCFG" \in RegNames
    BY DEF RegNames, ClockRegs
  <1>2. CASE pc = 3
    <2>1. Updated("PDRUNCFG", regs["PDRUNCFG"] \ {"SYSOSC"})
      BY <1>2, ClockWrites, WrittenThere
    <2> QED
      BY <2>1 DEF Updated
  <1>3. CASE cfg.pll /\ pc = 9
    <2>1. Updated("PDRUNCFG", regs["PDRUNCFG"] \ {"SYSPLL"})
      BY <1>3, ClockWrites, WrittenThere
    <2> QED
      BY <2>1 DEF Updated
  <1>4. CASE cfg.wdt /\ pc = PllEnd + 2
    <2>1. Updated("PDRUNCFG", regs["PDRUNCFG"] \ {"WDTOSC"})
      BY <1>4, ClockWrites, WrittenThere
    <2> QED
      BY <2>1 DEF Updated
  <1>5. CASE pc > Upd
    <2>1. pc \notin 3 .. Upd - 1
      BY <1>5, WriteStep, Places
    <2>2. regs'["PDRUNCFG"] = regs["PDRUNCFG"]
      BY <2>1, Elsewhere DEF ClockRegs
    <2> QED
      BY <2>2
  <1>6. CASE Now.reg # "PDRUNCFG"
    BY <1>1, <1>6, WriteStep DEF Updated
  <1>7. \/ pc = 3 \/ (cfg.pll /\ pc = 9) \/ (cfg.wdt /\ pc = PllEnd + 2) \/ pc > Upd
        \/ pc = 4 \/ pc = 5 \/ pc = 6 \/ pc = 7
        \/ (cfg.pll /\ pc = 8) \/ (cfg.wdt /\ pc = PllEnd + 1)
        \/ pc = SelBegin + 1 \/ pc = SelBegin + 2 \/ pc = SelBegin + 3 \/ pc = SelBegin + 4
        \/ pc = SelBegin + 5 \/ pc = SelBegin + 6 \/ pc = SelBegin + 7 \/ pc = SelBegin + 8
    BY ClockPlaces
  <1>8. \/ pc = 3 \/ (cfg.pll /\ pc = 9) \/ (cfg.wdt /\ pc = PllEnd + 2) \/ pc > Upd
        \/ Now.reg # "PDRUNCFG"
    BY <1>7, ClockRegsAt DEF Now
  <1> QED
    BY <1>2, <1>3, <1>4, <1>5, <1>6, <1>8

LEMMA WriteKeepsAdc == ASSUME IInv, WriteRegister PROVE AdcReady'
  <1>1. /\ regs'["CLKDIV"] = regs["CLKDIV"] /\ regs'["CHANNEL"] = regs["CHANNEL"]
    BY Elsewhere
  <1>2. AdcReady
    BY DEF IInv
  <1> QED
    BY <1>1, <1>2, PowerKept DEF AdcReady

LEMMA Latched ==
    ASSUME IInv, WriteRegister, NEW reg, NEW value, Writes(pc, reg, value)
    PROVE  /\ reg = "SYSPLLCLKUEN" /\ regs["SYSPLLCLKUEN"] = 0 /\ value = 1
                 => pllInput' = regs["SYSPLLCLKSEL"]
           /\ reg # "SYSPLLCLKUEN" => pllInput' = pllInput
           /\ reg = "MAINCLKUEN" /\ regs["MAINCLKUEN"] = 0 /\ value = 1
                 => mainSource' = regs["MAINCLKSEL"]
           /\ reg = "MAINCLKUEN" /\ value = 1
                 => mainSource' = mainSource \/ mainSource' = regs["MAINCLKSEL"]
           /\ reg # "MAINCLKUEN" \/ value = 0 => mainSource' = mainSource
           /\ reg # "SYSPLLCLKUEN" /\ reg # "SYSPLLCTRL" /\ locked => locked'
  <1>1. Now.reg = reg /\ Now.value = value
    BY WrittenThere
  <1>2. /\ pllInput' = IF Latches("SYSPLLCLKUEN") THEN regs["SYSPLLCLKSEL"] ELSE pllInput
        /\ mainSource' = IF Latches("MAINCLKUEN") THEN regs["MAINCLKSEL"] ELSE mainSource
        /\ locked /\ ~Latches("SYSPLLCLKUEN") /\ Now.reg # "SYSPLLCTRL" => locked'
    BY DEF WriteRegister
  <1>3. /\ Latches("SYSPLLCLKUEN")
              <=> reg = "SYSPLLCLKUEN" /\ regs["SYSPLLCLKUEN"] = 0 /\ value = 1
        /\ Latches("MAINCLKUEN")
              <=> reg = "MAINCLKUEN" /\ regs["MAINCLKUEN"] = 0 /\ value = 1
    BY <1>1 DEF Latches
  <1> QED
    BY <1>1, <1>2, <1>3

LEMMA WriteKeepsPll == ASSUME IInv, WriteRegister PROVE PllReady'
  <1>1. pc' = pc + 1 /\ cfg' = cfg /\ pc \in Nat
    BY WriteStep
  <1>2. PllReady
    BY DEF IInv
  <1>3. \A block : block \notin regs["PDRUNCFG"] => block \notin regs'["PDRUNCFG"]
    BY PowerKept
  <1> DEFINE R == {"SYSPLLCLKSEL", "SYSPLLCLKUEN", "SYSPLLCTRL", "PDRUNCFG"}
  <1>4. ASSUME NEW reg, NEW value, Updated(reg, value)
        PROVE  regs'[reg] = value /\ \A r \in R : r # reg => regs'[r] = regs[r]
    BY <1>4 DEF Updated, RegNames, ClockRegs
  <1>5. CASE pc = 3
    <2>1. Writes(pc, "PDRUNCFG", regs["PDRUNCFG"] \ {"SYSOSC"})
      BY <1>5, ClockWrites
    <2>2. regs'["PDRUNCFG"] = (regs["PDRUNCFG"] \ {"SYSOSC"})
          /\ \A r \in R : r # "PDRUNCFG" => regs'[r] = regs[r]
      BY <1>4, <2>1, WrittenThere
    <2> QED
      BY <1>1, <1>2, <1>3, <1>5, <2>2 DEF PllReady
  <1>6. CASE pc = 4
    <2>1. Writes(pc, "SYSPLLCLKSEL", cfg.pllsel)
      BY <1>6, ClockWrites
    <2>2. regs'["SYSPLLCLKSEL"] = cfg.pllsel
          /\ \A r \in R : r # "SYSPLLCLKSEL" => regs'[r] = regs[r]
      BY <1>4, <2>1, WrittenThere
    <2> QED
      BY <1>1, <1>2, <1>3, <1>6, <2>2 DEF PllReady
  <1>7. CASE pc = 5
    <2>1. Writes(pc, "SYSPLLCLKUEN", 1)
      BY <1>7, ClockWrites
    <2>2. regs'["SYSPLLCLKUEN"] = 1 /\ \A r \in R : r # "SYSPLLCLKUEN" => regs'[r] = regs[r]
      BY <1>4, <2>1, WrittenThere
    <2> QED
      BY <1>1, <1>2, <1>3, <1>7, <2>2 DEF PllReady
  <1>8. CASE pc = 6
    <2>1. Writes(pc, "SYSPLLCLKUEN", 0)
      BY <1>8, ClockWrites
    <2>2. regs'["SYSPLLCLKUEN"] = 0 /\ \A r \in R : r # "SYSPLLCLKUEN" => regs'[r] = regs[r]
      BY <1>4, <2>1, WrittenThere
    <2> QED
      BY <1>1, <1>2, <1>3, <1>8, <2>2 DEF PllReady
  <1>9. CASE pc = 7
    <2>1. Writes(pc, "SYSPLLCLKUEN", 1)
      BY <1>9, ClockWrites
    <2>2. regs'["SYSPLLCLKUEN"] = 1 /\ \A r \in R : r # "SYSPLLCLKUEN" => regs'[r] = regs[r]
      BY <1>4, <2>1, WrittenThere
    <2>3. pllInput' = cfg.pllsel
      BY <1>1, <1>2, <1>9, <2>1, Latched DEF PllReady
    <2> QED
      BY <1>1, <1>2, <1>3, <1>9, <2>2, <2>3 DEF PllReady
  <1>10. CASE cfg.pll /\ pc = 8
    <2>1. Writes(pc, "SYSPLLCTRL", [m |-> cfg.m, bypass |-> cfg.bypass])
      BY <1>10, ClockWrites
    <2>2. regs'["SYSPLLCTRL"] = [m |-> cfg.m, bypass |-> cfg.bypass]
          /\ \A r \in R : r # "SYSPLLCTRL" => regs'[r] = regs[r]
      BY <1>4, <2>1, WrittenThere
    <2>3. pllInput' = pllInput
      BY <2>1, Latched
    <2> QED
      BY <1>1, <1>2, <1>3, <1>10, <2>2, <2>3 DEF PllReady
  <1>11. CASE cfg.pll /\ pc = 9
    <2>1. Writes(pc, "PDRUNCFG", regs["PDRUNCFG"] \ {"SYSPLL"})
      BY <1>11, ClockWrites
    <2>2. regs'["PDRUNCFG"] = (regs["PDRUNCFG"] \ {"SYSPLL"})
          /\ \A r \in R : r # "PDRUNCFG" => regs'[r] = regs[r]
      BY <1>4, <2>1, WrittenThere
    <2>3. pllInput' = pllInput
      BY <2>1, Latched
    <2> QED
      BY <1>1, <1>2, <1>3, <1>11, <2>2, <2>3 DEF PllReady
  <1>12. ASSUME pc >= 8, cfg.pll => pc > 10, Now.reg \notin R \ {"PDRUNCFG"}
        PROVE  PllReady'
    <2>1. \A r \in R \ {"PDRUNCFG"} : regs'[r] = regs[r]
      BY <1>12, WriteStep DEF Updated, RegNames, ClockRegs
    <2>2. pllInput' = pllInput /\ (locked => locked')
      BY <1>12 DEF WriteRegister, Latches
    <2> QED
      BY <1>1, <1>2, <1>3, <1>12, <2>1, <2>2 DEF PllReady
  <1>13. CASE pc > Upd
    <2>1. pc \in 1 .. Dev + 34 /\ Now.op = "write"
      BY WriteStep
    <2>2. Now.reg \in TickRegs \cup UartRegs \cup SpiRegs \cup I2CRegs \cup {"PRESETCTRL", "ISER", "DIR", "DATA"}
      <3>1. pc \notin 3 .. Upd - 1
        BY <1>1, <1>13, Places
      <3> QED
        BY <2>1, <3>1, Where
    <2>3. Now.reg \notin R
      BY <2>2 DEF TickRegs, UartRegs, SpiRegs, I2CRegs
    <2>4. pc >= 8 /\ (cfg.pll => pc > 10)
      BY <1>1, <1>13, Places
    <2> QED
      BY <1>12, <2>3, <2>4
  <1>14. CASE \/ (cfg.wdt /\ pc = PllEnd + 1) \/ (cfg.wdt /\ pc = PllEnd + 2)
             \/ pc = SelBegin + 1 \/ pc = SelBegin + 2 \/ pc = SelBegin + 3
             \/ pc = SelBegin + 4 \/ pc = SelBegin + 5 \/ pc = SelBegin + 6
             \/ pc = SelBegin + 7 \/ pc = SelBegin + 8
    <2>1. Now.reg \notin R \ {"PDRUNCFG"}
      BY <1>14, ClockRegsAt DEF Now
    <2>2. pc >= 8 /\ (cfg.pll => pc > 10)
      BY <1>1, <1>14, Places
    <2> QED
      BY <1>12, <2>1, <2>2
  <1> QED
    BY <1>5, <1>6, <1>7, <1>8, <1>9, <1>10, <1>11, <1>13, <1>14, ClockPlaces

LEMMA WriteKeepsMain == ASSUME IInv, WriteRegister PROVE MainReady'
  <1>1. /\ pc' = pc + 1 /\ pc \in Nat
        /\ UNCHANGED <<cfg, SystemCoreClock>> /\ PllEnd' = PllEnd /\ SelBegin' = SelBegin
        /\ Upd' = Upd
    BY WriteStep
  <1>2. MainReady
    BY DEF IInv
  <1>3. \A block : block \notin regs["PDRUNCFG"] => block \notin regs'["PDRUNCFG"]
    BY PowerKept
  <1> DEFINE R == {"WDTOSCCTRL", "MAINCLKSEL", "MAINCLKUEN", "SYSAHBCLKDIV", "SYSAHBCLKCTRL"}
             clock == Chosen(cfg) \div cfg.ahbdiv
  <1>4. ASSUME NEW reg, NEW value, Updated(reg, value)
        PROVE  regs'[reg] = value /\ \A r \in R : r # reg => regs'[r] = regs[r]
    BY <1>4 DEF Updated, RegNames, ClockRegs
  <1>5. /\ PllEnd \in Nat /\ PllEnd >= 7 /\ SelBegin \in Nat /\ Upd = SelBegin + 9
        /\ SelBegin >= PllEnd /\ (cfg.wdt => SelBegin = PllEnd + 2)
    BY Places
  <1>6. clock' = clock
    BY <1>1
  <1> HIDE DEF clock
  <1>7. CASE cfg.wdt /\ pc = PllEnd + 1
    <2>1. Writes(pc, "WDTOSCCTRL", [freqsel |-> cfg.freqsel, divsel |-> cfg.divsel])
      BY <1>7, ClockWrites
    <2>2. regs'["WDTOSCCTRL"] = [freqsel |-> cfg.freqsel, divsel |-> cfg.divsel]
          /\ \A r \in R : r # "WDTOSCCTRL" => regs'[r] = regs[r]
      BY <1>4, <2>1, WrittenThere
    <2>3. mainSource' = mainSource
      BY <2>1, Latched
    <2> QED
      BY <1>1, <1>2, <1>3, <1>5, <1>6, <1>7, <2>2, <2>3 DEF MainReady, clock
  <1>8. CASE cfg.wdt /\ pc = PllEnd + 2
    <2>1. Writes(pc, "PDRUNCFG", regs["PDRUNCFG"] \ {"WDTOSC"})
      BY <1>8, ClockWrites
    <2>2. regs'["PDRUNCFG"] = (regs["PDRUNCFG"] \ {"WDTOSC"})
          /\ \A r \in R : r # "PDRUNCFG" => regs'[r] = regs[r]
      BY <1>4, <2>1, WrittenThere
    <2>3. mainSource' = mainSource
      BY <2>1, Latched
    <2> QED
      BY <1>1, <1>2, <1>3, <1>5, <1>6, <1>8, <2>2, <2>3 DEF MainReady, clock
  <1>9. CASE pc = SelBegin + 1
    <2>1. Writes(pc, "MAINCLKSEL", cfg.mainsel)
      BY <1>9, ClockWrites
    <2>2. regs'["MAINCLKSEL"] = cfg.mainsel /\ \A r \in R : r # "MAINCLKSEL" => regs'[r] = regs[r]
      BY <1>4, <2>1, WrittenThere
    <2>3. mainSource' = mainSource
      BY <2>1, Latched
    <2> QED
      BY <1>1, <1>2, <1>3, <1>5, <1>6, <1>9, <2>2, <2>3 DEF MainReady, clock
  <1>10. CASE pc = SelBegin + 2
    <2>1. Writes(pc, "MAINCLKUEN", 1)
      BY <1>10, ClockWrites
    <2>2. regs'["MAINCLKUEN"] = 1 /\ \A r \in R : r # "MAINCLKUEN" => regs'[r] = regs[r]
      BY <1>4, <2>1, WrittenThere
    <2>3. mainSource' = mainSource \/ mainSource' = cfg.mainsel
      <3>1. regs["MAINCLKSEL"] = cfg.mainsel
        BY <1>2, <1>5, <1>10 DEF MainReady
      <3> QED
        BY <2>1, <3>1, Latched
    <2> QED
      BY <1>1, <1>2, <1>3, <1>5, <1>6, <1>10, <2>2, <2>3 DEF MainReady, clock
  <1>11. CASE pc = SelBegin + 3
    <2>1. Writes(pc, "MAINCLKUEN", 0)
      BY <1>11, ClockWrites
    <2>2. regs'["MAINCLKUEN"] = 0 /\ \A r \in R : r # "MAINCLKUEN" => regs'[r] = regs[r]
      BY <1>4, <2>1, WrittenThere
    <2>3. mainSource' = mainSource
      BY <2>1, Latched
    <2> QED
      BY <1>1, <1>2, <1>3, <1>5, <1>6, <1>11, <2>2, <2>3 DEF MainReady, clock
  <1>12. CASE pc = SelBegin + 4
    <2>1. Writes(pc, "MAINCLKUEN", 1)
      BY <1>12, ClockWrites
    <2>2. regs'["MAINCLKUEN"] = 1 /\ \A r \in R : r # "MAINCLKUEN" => regs'[r] = regs[r]
      BY <1>4, <2>1, WrittenThere
    <2>3. mainSource' = cfg.mainsel
      <3>1. regs["MAINCLKSEL"] = cfg.mainsel /\ regs["MAINCLKUEN"] = 0
        BY <1>2, <1>5, <1>12 DEF MainReady
      <3> QED
        BY <2>1, <3>1, Latched
    <2> QED
      BY <1>1, <1>2, <1>3, <1>5, <1>6, <1>12, <2>2, <2>3 DEF MainReady, clock
  <1>13. CASE pc = SelBegin + 5
    <2>1. Writes(pc, "SYSAHBCLKDIV", cfg.ahbdiv)
      BY <1>13, ClockWrites
    <2>2. regs'["SYSAHBCLKDIV"] = cfg.ahbdiv
          /\ \A r \in R : r # "SYSAHBCLKDIV" => regs'[r] = regs[r]
      BY <1>4, <2>1, WrittenThere
    <2>3. mainSource' = mainSource
      BY <2>1, Latched
    <2> QED
      BY <1>1, <1>2, <1>3, <1>5, <1>6, <1>13, <2>2, <2>3 DEF MainReady, clock
  <1>14. CASE pc = SelBegin + 6
    <2>1. Writes(pc, "SYSAHBCLKCTRL", AHBCLKCTRL)
      BY <1>14, ClockWrites
    <2>2. regs'["SYSAHBCLKCTRL"] = AHBCLKCTRL
          /\ \A r \in R : r # "SYSAHBCLKCTRL" => regs'[r] = regs[r]
      BY <1>4, <2>1, WrittenThere
    <2>3. mainSource' = mainSource
      BY <2>1, Latched
    <2> QED
      BY <1>1, <1>2, <1>3, <1>5, <1>6, <1>14, <2>2, <2>3 DEF MainReady, AHBCLKCTRL, clock
  <1>15. CASE pc = SelBegin + 7
    <2>1. Writes(pc, "SSP0CLKDIV", SSP0CLKDIV_Val)
      BY <1>15, ClockWrites
    <2>2. regs'["SSP0CLKDIV"] = SSP0CLKDIV_Val /\ \A r \in R : r # "SSP0CLKDIV" => regs'[r] = regs[r]
      BY <1>4, <2>1, WrittenThere
    <2>3. mainSource' = mainSource
      BY <2>1, Latched
    <2> QED
      BY <1>1, <1>2, <1>3, <1>5, <1>6, <1>15, <2>2, <2>3 DEF MainReady, clock
  <1>16. CASE pc = SelBegin + 8
    <2>1. Writes(pc, "UARTCLKDIV", UARTCLKDIV_Val)
      BY <1>16, ClockWrites
    <2>2. regs'["UARTCLKDIV"] = UARTCLKDIV_Val /\ \A r \in R : r # "UARTCLKDIV" => regs'[r] = regs[r]
      BY <1>4, <2>1, WrittenThere
    <2>3. mainSource' = mainSource
      BY <2>1, Latched
    <2> QED
      BY <1>1, <1>2, <1>3, <1>5, <1>6, <1>16, <2>2, <2>3 DEF MainReady, clock
  <1>17. ASSUME pc <= PllEnd \/ pc > Upd, Now.reg \notin R
        PROVE  MainReady'
    <2>1. \A r \in R : regs'[r] = regs[r]
      BY <1>17, WriteStep DEF Updated, RegNames, ClockRegs
    <2>2. mainSource' = mainSource
      BY <1>17 DEF WriteRegister, Latches
    <2> QED
      BY <1>1, <1>2, <1>3, <1>5, <1>6, <1>17, <2>1, <2>2 DEF MainReady, clock
  <1>18. CASE pc > Upd
    <2>1. pc \in 1 .. Dev + 34 /\ Now.op = "write"
      BY WriteStep
    <2>2. Now.reg \in TickRegs \cup UartRegs \cup SpiRegs \cup I2CRegs \cup {"PRESETCTRL", "ISER", "DIR", "DATA"}
      <3>1. pc \notin 3 .. Upd - 1
        BY <1>1, <1>18, Places
      <3> QED
        BY <2>1, <3>1, Where
    <2>3. Now.reg \notin R
      BY <2>2 DEF TickRegs, UartRegs, SpiRegs, I2CRegs
    <2> QED
      BY <1>17, <1>18, <2>3
  <1>19. CASE \/ pc = 3 \/ pc = 4 \/ pc = 5 \/ pc = 6 \/ pc = 7
             \/ (cfg.pll /\ pc = 8) \/ (cfg.pll /\ pc = 9)
    <2>1. Now.reg \notin R
      BY <1>19, ClockRegsAt DEF Now
    <2>2. pc <= PllEnd
      BY <1>1, <1>19, Places
    <2> QED
      BY <1>17, <2>1, <2>2
  <1> QED
    BY <1>7, <1>8, <1>9, <1>10, <1>11, <1>12, <1>13, <1>14, <1>15, <1>16, <1>18, <1>19, ClockPlaces

LEMMA WriteKeepsDividers == ASSUME IInv, WriteRegister PROVE DividersReady'
  <1>1. pc' = pc + 1 /\ pc \in Nat /\ SelBegin' = SelBegin /\ SelBegin \in Nat /\ Upd = SelBegin + 9
    BY WriteStep, Places
  <1>2. DividersReady
    BY DEF IInv
  <1>3. "SSP0CLKDIV" \in ClockRegs /\ "UARTCLKDIV" \in ClockRegs /\ ClockRegs \subseteq RegNames
    BY DEF ClockRegs, RegNames
  <1>4. CASE pc = SelBegin + 7
    <2>1. Writes(pc, "SSP0CLKDIV", SSP0CLKDIV_Val)
      BY <1>4, ClockWrites
    <2>2. regs'["SSP0CLKDIV"] = SSP0CLKDIV_Val
      BY <2>1, WrittenThere DEF Updated
    <2>3. ~(pc' > SelBegin' + 8)
      BY <1>1, <1>4
    <2> QED
      BY <2>2, <2>3 DEF DividersReady
  <1>5. CASE pc = SelBegin + 8
    <2>1. Writes(pc, "UARTCLKDIV", UARTCLKDIV_Val)
      BY <1>5, ClockWrites
    <2>2. /\ regs'["UARTCLKDIV"] = UARTCLKDIV_Val
          /\ regs'["SSP0CLKDIV"] = regs["SSP0CLKDIV"]
      BY <1>3, <2>1, WrittenThere DEF Updated
    <2>3. regs["SSP0CLKDIV"] = SSP0CLKDIV_Val
      BY <1>1, <1>2, <1>5 DEF DividersReady
    <2> QED
      BY <2>2, <2>3 DEF DividersReady
  <1>6. CASE pc > SelBegin + 8
    <2>1. pc \notin 3 .. Upd - 1
      BY <1>1, <1>6
    <2>2. /\ regs'["UARTCLKDIV"] = regs["UARTCLKDIV"]
          /\ regs'["SSP0CLKDIV"] = regs["SSP0CLKDIV"]
      BY <1>3, <2>1, Elsewhere
    <2>3. regs["SSP0CLKDIV"] = SSP0CLKDIV_Val /\ regs["UARTCLKDIV"] = UARTCLKDIV_Val
      BY <1>1, <1>2, <1>6 DEF DividersReady
    <2> QED
      BY <2>2, <2>3 DEF DividersReady
  <1>7. CASE pc < SelBegin + 7
    <2>1. ~(pc' > SelBegin' + 7) /\ ~(pc' > SelBegin' + 8)
      BY <1>1, <1>7
    <2> QED
      BY <2>1 DEF DividersReady
  <1> QED
    BY <1>1, <1>4, <1>5, <1>6, <1>7

LEMMA WriteKeeps == ASSUME IInv, WriteRegister PROVE IInv'
  <1>1. TypeInv'
    <2>1. cfg' \in Configs
      BY WriteStep DEF IInv, TypeInv
    <2>2. pc' \in 1 .. Dev' + 35
      <3>1. pc' = pc + 1 /\ pc \in 1 .. Dev + 34 /\ Dev' = Dev
        BY WriteStep
      <3> QED
        BY <3>1, Places
    <2>3. \E V : regs' \in [RegNames -> V]
      BY WriteStep
    <2> QED
      BY <2>1, <2>2, <2>3 DEF TypeInv
  <1> QED
    BY <1>1, WriteKeepsPll, WriteKeepsMain, WriteKeepsTick, WriteKeepsUart, WriteKeepsSpi,
       WriteKeepsI2C, WriteKeepsAdc, WriteKeepsDividers DEF IInv
----------------------------------------------------------------------------
(* The places of the other operations.                                      *)
LEMMA OtherPlaces ==
    ASSUME pc \in 1 .. Dev + 34
    PROVE  \/ Now.op = "write"
           \/ (pc = 1 /\ Now.op = "copy .data")
           \/ (pc = 2 /\ Now.op = "clear .bss")
           \/ (cfg.pll /\ pc = 10 /\ Now.op = "wait for lock")
           \/ (pc = Upd /\ Now.op = "SystemCoreClockUpdate")
           \/ (pc = Dev + 17 /\ Now.op = "set" /\ Now.object = "SPI0.ssp")
           \/ (pc = Dev + 25 /\ Now.op = "NVIC_ClearPendingIRQ")
           \/ (pc = Dev + 28 /\ Now.op = "set" /\ Now.object = "I2C0.i2c")
           \/ (pc = Dev + 29 /\ Now.op = "set" /\ Now.object = "I2C0.active_transaction")
           \/ (pc = Dev + 30 /\ Now.op = "set" /\ Now.object = "I2C0.transaction_queue")
           \/ (pc = Dev + 31 /\ Now.op = "bmw_ui_init")
           \/ (pc = Dev + 32 /\ Now.op = "finish")
  <1> DEFINE Op ==
            \/ Now.op = "write"
            \/ (pc = 1 /\ Now.op = "copy .data")
            \/ (pc = 2 /\ Now.op = "clear .bss")
            \/ (cfg.pll /\ pc = 10 /\ Now.op = "wait for lock")
            \/ (pc = Upd /\ Now.op = "SystemCoreClockUpdate")
            \/ (pc = Dev + 17 /\ Now.op = "set" /\ Now.object = "SPI0.ssp")
            \/ (pc = Dev + 25 /\ Now.op = "NVIC_ClearPendingIRQ")
            \/ (pc = Dev + 28 /\ Now.op = "set" /\ Now.object = "I2C0.i2c")
            \/ (pc = Dev + 29 /\ Now.op = "set" /\ Now.object = "I2C0.active_transaction")
            \/ (pc = Dev + 30 /\ Now.op = "set" /\ Now.object = "I2C0.transaction_queue")
            \/ (pc = Dev + 31 /\ Now.op = "bmw_ui_init")
            \/ (pc = Dev + 32 /\ Now.op = "finish")
  <1>1. \A reg, value : Writes(pc, reg, value) => Now.op = "write"
    BY DEF Writes, Now
  <1> HIDE DEF Op
  <1>2. ASSUME pc <= Upd PROVE Op
    <2>1. \/ pc = 1 \/ pc = 2 \/ pc = 3 \/ pc = 4 \/ pc = 5 \/ pc = 6 \/ pc = 7
          \/ (cfg.pll /\ pc = 8) \/ (cfg.pll /\ pc = 9) \/ (cfg.pll /\ pc = 10)
          \/ (cfg.wdt /\ pc = PllEnd + 1) \/ (cfg.wdt /\ pc = PllEnd + 2)
          \/ pc = SelBegin + 1 \/ pc = SelBegin + 2 \/ pc = SelBegin + 3 \/ pc = SelBegin + 4
          \/ pc = SelBegin + 5 \/ pc = SelBegin + 6 \/ pc = SelBegin + 7 \/ pc = SelBegin + 8
          \/ pc = Upd
      <3>1. \/ pc \in 1 .. 7 \/ (cfg.pll /\ pc \in 8 .. 10)
            \/ (cfg.wdt /\ pc \in PllEnd + 1 .. PllEnd + 2)
            \/ pc \in SelBegin + 1 .. SelBegin + 8 \/ pc = Upd
        BY <1>2, Places
      <3> QED
        BY <3>1, Places
    <2>2. CASE pc = 1 \/ pc = 2 \/ (cfg.pll /\ pc = 10) \/ pc = Upd
      <3>1. \/ (pc = 1 /\ Now.op = "copy .data") \/ (pc = 2 /\ Now.op = "clear .bss")
            \/ (cfg.pll /\ pc = 10 /\ Now.op = "wait for lock")
            \/ (pc = Upd /\ Now.op = "SystemCoreClockUpdate")
        BY <2>2, ClockWrites DEF Now
      <3> QED
        BY <3>1 DEF Op
    <2>3. CASE \/ pc = 3 \/ pc = 4 \/ pc = 5 \/ pc = 6 \/ pc = 7
               \/ (cfg.pll /\ pc = 8) \/ (cfg.pll /\ pc = 9)
               \/ (cfg.wdt /\ pc = PllEnd + 1) \/ (cfg.wdt /\ pc = PllEnd + 2)
               \/ pc = SelBegin + 1 \/ pc = SelBegin + 2 \/ pc = SelBegin + 3
               \/ pc = SelBegin + 4 \/ pc = SelBegin + 5 \/ pc = SelBegin + 6
               \/ pc = SelBegin + 7 \/ pc = SelBegin + 8
      <3> DEFINE R(k) == Reset_Handler[k].op = "write"
      <3>1. \A k, reg, value : Writes(k, reg, value) => R(k)
        BY DEF Writes
      <3>2. /\ R(3) /\ R(4) /\ R(5) /\ R(6) /\ R(7)
            /\ cfg.pll => R(8) /\ R(9)
            /\ cfg.wdt => R(PllEnd + 1) /\ R(PllEnd + 2)
            /\ R(SelBegin + 1) /\ R(SelBegin + 2) /\ R(SelBegin + 3) /\ R(SelBegin + 4)
            /\ R(SelBegin + 5) /\ R(SelBegin + 6) /\ R(SelBegin + 7) /\ R(SelBegin + 8)
        <4> HIDE DEF R
        <4> QED
          BY <3>1, ClockWrites
      <3>3. R(pc)
        <4> HIDE DEF R
        <4> QED
          BY <2>3, <3>2
      <3> QED
        BY <3>3 DEF Op, Now
    <2> QED
      BY <2>1, <2>2, <2>3
  <1>3. ASSUME pc \in Upd + 1 .. Dev PROVE Op
    <2>1. Dev = Upd + 2 /\ (pc = Upd + 1 \/ pc = Upd + 2)
      BY <1>3, Places
    <2>2. Now.op = "write"
      <3> DEFINE load == SystemCoreClock \div 1000 - 1
      <3>1. Writes(Upd + 1, "LOAD", load) /\ Writes(Upd + 2, "TICKINT", TRUE)
        BY <2>1, TickWrites
      <3> HIDE DEF load
      <3>2. Writes(pc, "LOAD", load) \/ Writes(pc, "TICKINT", TRUE)
        BY <2>1, <3>1
      <3> QED
        BY <1>1, <3>2
    <2> QED
      BY <2>2 DEF Op
  <1>4. ASSUME pc \in Dev + 1 .. Dev + 10 PROVE Op
    <2>1. \/ pc = Dev + 1 \/ pc = Dev + 2 \/ pc = Dev + 3 \/ pc = Dev + 4 \/ pc = Dev + 5
          \/ pc = Dev + 6 \/ pc = Dev + 7 \/ pc = Dev + 8 \/ pc = Dev + 9 \/ pc = Dev + 10
      BY <1>4, Places
    <2> QED
      BY <1>1, <2>1, UartWrites DEF Op
  <1>5. ASSUME pc \in Dev + 11 .. Dev + 18 PROVE Op
    <2>1. \/ pc = Dev + 11 \/ pc = Dev + 12 \/ pc = Dev + 13 \/ pc = Dev + 14
          \/ pc = Dev + 15 \/ pc = Dev + 16 \/ pc = Dev + 17 \/ pc = Dev + 18
      BY <1>5, Places
    <2> QED
      BY <1>1, <2>1, SpiWrites DEF Now, Op
  <1>6. ASSUME pc \in Dev + 19 .. Dev + 30 PROVE Op
    <2>1. \/ pc = Dev + 19 \/ pc = Dev + 20 \/ pc = Dev + 21 \/ pc = Dev + 22
          \/ pc = Dev + 23 \/ pc = Dev + 24 \/ pc = Dev + 25 \/ pc = Dev + 26
          \/ pc = Dev + 27 \/ pc = Dev + 28 \/ pc = Dev + 29 \/ pc = Dev + 30
      BY <1>6, Places
    <2>2. CASE \/ pc = Dev + 19 \/ pc = Dev + 20 \/ pc = Dev + 21 \/ pc = Dev + 22
               \/ pc = Dev + 23 \/ pc = Dev + 24 \/ pc = Dev + 26 \/ pc = Dev + 27
      <3>1. \E reg, value : Writes(pc, reg, value)
        BY <2>2, I2CWrites
      <3> QED
        BY <1>1, <3>1 DEF Op
    <2>3. CASE pc = Dev + 25
      BY <2>3, I2CWrites DEF Now, Op
    <2>4. CASE pc = Dev + 28
      BY <2>4, I2CWrites DEF Now, Op
    <2>5. CASE pc = Dev + 29
      BY <2>5, I2CWrites DEF Now, Op
    <2>6. CASE pc = Dev + 30
      BY <2>6, I2CWrites DEF Now, Op
    <2> QED
      BY <2>1, <2>2, <2>3, <2>4, <2>5, <2>6
  <1>7. ASSUME pc \in Dev + 31 .. Dev + 34 PROVE Op
    <2>1. pc = Dev + 31 \/ pc = Dev + 32 \/ pc = Dev + 33 \/ pc = Dev + 34
      BY <1>7, Places
    <2> QED
      BY <1>1, <2>1, LastWrites DEF Now, Op
  <1>8. \/ pc <= Upd \/ pc \in Upd + 1 .. Dev \/ pc \in Dev + 1 .. Dev + 10
        \/ pc \in Dev + 11 .. Dev + 18 \/ pc \in Dev + 19 .. Dev + 30
        \/ pc \in Dev + 31 .. Dev + 34
    BY Places
  <1>9. Op
    BY <1>2, <1>3, <1>4, <1>5, <1>6, <1>7, <1>8
  <1> QED
    BY <1>9 DEF Op

(* A step that changes no register and no clock that the program computes.  *)
LEMMA Passed ==
    ASSUME IInv, UNCHANGED <<cfg, regs, pllInput, mainSource, SystemCoreClock, asked>>,
           locked => locked', ready \subseteq ready',
           \/ pc' = pc
           \/ /\ pc' = pc + 1 /\ pc \in 1 .. Dev + 34
              /\ \/ pc = 2 \/ (cfg.pll /\ pc = 10) \/ pc = Dev + 17 \/ pc = Dev + 25
                 \/ pc = Dev + 28 \/ pc = Dev + 29 \/ pc = Dev + 30 \/ pc = Dev + 31
                 \/ pc = Dev + 32,
           pc = 2 /\ pc' = 3 => "msTicks" \in ready',
           pc = 10 /\ pc' = 11 => locked',
           pc' = Dev + 29 => "I2C0.i2c" \in ready',
           pc' = Dev + 30 => "I2C0.active_transaction" \in ready',
           pc' = Dev + 31 => "I2C0.transaction_queue" \in ready',
           busy' = FALSE \/ pc' > Dev + 31,
           I2C_IRQn \in pending' => pc' > Dev + 31,
           SysTick_IRQn \in pending' => "msTicks" \in ready'
    PROVE  IInv'
  <1>1. /\ PllEnd' = PllEnd /\ SelBegin' = SelBegin /\ Upd' = Upd /\ Dev' = Dev
    BY PlacesKept
  <1>2. /\ PllEnd \in Nat /\ SelBegin \in Nat /\ Upd \in Nat /\ Dev \in Nat /\ PllEnd >= 7
        /\ SelBegin >= PllEnd /\ Upd = SelBegin + 9 /\ Dev >= Upd /\ pc \in Nat
        /\ cfg.pll => PllEnd = 10
    BY Places DEF IInv, TypeInv
  <1>3. TypeInv'
    BY <1>1, <1>2 DEF IInv, TypeInv
  <1>4. PllReady'
    BY <1>1, <1>2 DEF IInv, PllReady
  <1>5. MainReady'
    BY <1>1, <1>2 DEF IInv, MainReady
  <1>6. TickReady'
    BY <1>1, <1>2 DEF IInv, TickReady
  <1>7. UartReady'
    BY <1>1, <1>2 DEF IInv, UartReady
  <1>8. SpiReady'
    BY <1>1, <1>2 DEF IInv, SpiReady
  <1>9. I2CReady'
    BY <1>1, <1>2 DEF IInv, I2CReady
  <1>10. AdcReady'
    BY DEF IInv, AdcReady
  <1>11. DividersReady'
    BY <1>1, <1>2 DEF IInv, DividersReady
  <1> QED
    BY <1>3, <1>4, <1>5, <1>6, <1>7, <1>8, <1>9, <1>10, <1>11 DEF IInv

LEMMA Running == ASSUME IInv, ~Booted PROVE pc \in 1 .. Dev + 34
  <1>1. pc \in 1 .. Dev + 35
    BY DEF IInv, TypeInv
  <1> QED
    BY <1>1, BootedIs

LEMMA InvFacts ==
    ASSUME IInv
    PROVE  /\ pc \in Nat /\ Dev \in Nat /\ Dev >= 16
           /\ pc > 2 => "msTicks" \in ready
           /\ pc <= 2 => regs["TICKINT"] = FALSE
           /\ SysTick_IRQn \in pending => "msTicks" \in ready
           /\ busy = FALSE \/ pc > Dev + 31
           /\ I2C_IRQn \in pending => pc > Dev + 31
           /\ pc > Dev + 28 => "I2C0.i2c" \in ready
           /\ pc > Dev + 29 => "I2C0.active_transaction" \in ready
           /\ pc > Dev + 30 => "I2C0.transaction_queue" \in ready
           /\ pc > Dev + 27 => regs["I2EN"] = TRUE
  <1>1. pc \in Nat /\ Dev \in Nat /\ Dev >= 16
    BY Places DEF IInv, TypeInv
  <1>2. /\ pc > 2 => "msTicks" \in ready
        /\ pc <= 2 => regs["TICKINT"] = FALSE
        /\ SysTick_IRQn \in pending => "msTicks" \in ready
    BY DEF IInv, TickReady
  <1> QED
    BY <1>1, <1>2 DEF IInv, I2CReady

LEMMA SetObjectKeeps == ASSUME IInv, SetObject PROVE IInv'
  <1>1. /\ Now.op = "set" \/ Now.op = "clear .bss"
        /\ ~Booted /\ pc' = pc + 1
        /\ ready' = ready \union {IF Now.op = "set" THEN Now.object ELSE "msTicks"}
        /\ UNCHANGED <<cfg, regs, pllInput, mainSource, locked, SystemCoreClock, pending, busy, asked>>
    BY DEF SetObject, Next_is, clocks
  <1>2. pc \in 1 .. Dev + 34
    BY <1>1, Running
  <1>3. \/ (pc = 2 /\ Now.op = "clear .bss")
        \/ (pc = Dev + 17 /\ Now.op = "set")
        \/ (pc = Dev + 28 /\ Now.op = "set" /\ Now.object = "I2C0.i2c")
        \/ (pc = Dev + 29 /\ Now.op = "set" /\ Now.object = "I2C0.active_transaction")
        \/ (pc = Dev + 30 /\ Now.op = "set" /\ Now.object = "I2C0.transaction_queue")
    BY <1>1, <1>2, OtherPlaces
  <1>4. pc = 2 \/ pc = Dev + 17 \/ pc = Dev + 28 \/ pc = Dev + 29 \/ pc = Dev + 30
    BY <1>3
  <1>5. Dev \in Nat /\ Dev >= 16 /\ pc \in Nat /\ pc' = pc + 1
    BY <1>1, InvFacts
  <1>6. /\ ready \subseteq ready'
        /\ Now.op = "clear .bss" => "msTicks" \in ready'
        /\ Now.op = "set" => Now.object \in ready'
    BY <1>1
  <1>7. /\ pc = 2 => pc # Dev + 17 /\ pc # Dev + 28 /\ pc # Dev + 29 /\ pc # Dev + 30
        /\ pc = Dev + 28 => pc # 2 /\ pc # Dev + 17 /\ pc # Dev + 29 /\ pc # Dev + 30
        /\ pc = Dev + 29 => pc # 2 /\ pc # Dev + 17 /\ pc # Dev + 28 /\ pc # Dev + 30
        /\ pc = Dev + 30 => pc # 2 /\ pc # Dev + 17 /\ pc # Dev + 28 /\ pc # Dev + 29
    BY <1>5
  <1>8. /\ pc = 2 => "msTicks" \in ready'
        /\ pc = Dev + 28 => "I2C0.i2c" \in ready'
        /\ pc = Dev + 29 => "I2C0.active_transaction" \in ready'
        /\ pc = Dev + 30 => "I2C0.transaction_queue" \in ready'
    BY <1>3, <1>6, <1>7, Zenon
  <1>9. /\ pc' = Dev + 29 => pc = Dev + 28
        /\ pc' = Dev + 30 => pc = Dev + 29
        /\ pc' = Dev + 31 => pc = Dev + 30
        /\ pc # 10
    BY <1>4, <1>5
  <1>10. /\ busy' = FALSE /\ I2C_IRQn \notin pending'
         /\ SysTick_IRQn \in pending' => "msTicks" \in ready'
    <2>1. ~(pc > Dev + 31)
      BY <1>4, <1>5
    <2> QED
      BY <1>1, <1>6, <2>1, InvFacts
  <1> QED
    BY <1>1, <1>2, <1>4, <1>6, <1>8, <1>9, <1>10, Passed

LEMMA WaitForLockKeeps == ASSUME IInv, WaitForLock PROVE IInv'
  <1>1. /\ Now.op = "wait for lock" /\ locked /\ locked' /\ ~Booted /\ pc' = pc + 1
        /\ UNCHANGED <<cfg, regs, pllInput, mainSource, ready, SystemCoreClock, pending, busy, asked>>
    BY DEF WaitForLock, Next_is, clocks
  <1>2. pc \in 1 .. Dev + 34
    BY <1>1, Running
  <1>3. cfg.pll /\ pc = 10
    BY <1>1, <1>2, OtherPlaces
  <1>4. Dev \in Nat /\ Dev >= 16 /\ pc \in Nat /\ pc' = pc + 1
    BY <1>1, InvFacts
  <1>5. /\ ~(pc > Dev + 31) /\ pc # 2
        /\ pc' # Dev + 29 /\ pc' # Dev + 30 /\ pc' # Dev + 31
    BY <1>3, <1>4
  <1>6. /\ busy' = FALSE /\ I2C_IRQn \notin pending'
        /\ SysTick_IRQn \in pending' => "msTicks" \in ready'
    BY <1>1, <1>5, InvFacts
  <1> QED
    BY <1>1, <1>2, <1>3, <1>5, <1>6, Passed

LEMMA NVIC_ClearPendingIRQKeeps == ASSUME IInv, NVIC_ClearPendingIRQ PROVE IInv'
  <1>1. /\ Now.op = "NVIC_ClearPendingIRQ" /\ ~Booted /\ pc' = pc + 1
        /\ pending' = pending \ {I2C_IRQn}
        /\ UNCHANGED <<cfg, regs, pllInput, mainSource, locked, ready, SystemCoreClock, busy, asked>>
    BY DEF NVIC_ClearPendingIRQ, Next_is, clocks
  <1>2. pc \in 1 .. Dev + 34
    BY <1>1, Running
  <1>3. pc = Dev + 25
    BY <1>1, <1>2, OtherPlaces
  <1>4. Dev \in Nat /\ Dev >= 16 /\ pc \in Nat
    BY <1>2, Places
  <1>5. /\ busy' = FALSE /\ I2C_IRQn \notin pending'
        /\ SysTick_IRQn \in pending' => "msTicks" \in ready'
    BY <1>1, <1>3, <1>4 DEF IInv, I2CReady, TickReady
  <1>6. pc # 2 /\ pc # 10 /\ pc' # Dev + 29 /\ pc' # Dev + 30 /\ pc' # Dev + 31
    BY <1>1, <1>3, <1>4
  <1> QED
    BY <1>1, <1>2, <1>3, <1>5, <1>6, Passed

LEMMA TransactionKeeps == ASSUME IInv, StartTransaction \/ TransactionEnds PROVE IInv'
  <1>1. /\ ~Booted
        /\ \/ (Now.op = "bmw_ui_init" /\ pc' = pc + 1)
           \/ (Now.op = "finish" /\ (pc' = pc \/ pc' = pc + 1))
        /\ UNCHANGED <<cfg, regs, pllInput, mainSource, locked, ready, SystemCoreClock, pending, asked>>
    BY DEF StartTransaction, TransactionEnds, Next_is, clocks
  <1>2. pc \in 1 .. Dev + 34
    BY <1>1, Running
  <1>3. (pc = Dev + 31 /\ pc' = pc + 1) \/ (pc = Dev + 32 /\ (pc' = pc \/ pc' = pc + 1))
    BY <1>1, <1>2, OtherPlaces
  <1>4. Dev \in Nat /\ Dev >= 16 /\ pc \in Nat
    BY <1>2, Places
  <1>5. /\ busy' = FALSE \/ pc' > Dev + 31
        /\ I2C_IRQn \in pending' => pc' > Dev + 31
        /\ SysTick_IRQn \in pending' => "msTicks" \in ready'
    BY <1>1, <1>3, <1>4 DEF IInv, TickReady
  <1>6. pc # 2 /\ pc # 10 /\ pc' # Dev + 29 /\ pc' # Dev + 30 /\ pc' # Dev + 31
    BY <1>1, <1>3, <1>4
  <1> QED
    BY <1>1, <1>2, <1>3, <1>5, <1>6, Passed

(* Steps of the hardware, and none.                                         *)
LEMMA HardwareKeeps ==
    ASSUME IInv, pc' = pc,
           UNCHANGED <<cfg, regs, pllInput, mainSource, SystemCoreClock, ready, asked>>,
           locked => locked', busy' = busy \/ busy' = FALSE,
           I2C_IRQn \in pending' => I2C_IRQn \in pending \/ busy # FALSE,
           SysTick_IRQn \in pending' => SysTick_IRQn \in pending \/ regs["TICKINT"] # FALSE
    PROVE  IInv'
  <1>1. pc \in Nat /\ Dev \in Nat
    BY InvFacts
  <1>2. /\ busy' = FALSE \/ pc' > Dev + 31
        /\ I2C_IRQn \in pending' => pc' > Dev + 31
    BY InvFacts
  <1>3. SysTick_IRQn \in pending' => "msTicks" \in ready'
    <2>1. pc > 2 \/ pc <= 2
      BY <1>1
    <2>2. "msTicks" \in ready \/ regs["TICKINT"] = FALSE
      BY <2>1, InvFacts
    <2>3. SysTick_IRQn \in pending => "msTicks" \in ready
      BY InvFacts
    <2> QED
      BY <2>2, <2>3
  <1>4. /\ ~(pc = 2 /\ pc' = 3)
        /\ pc' = Dev + 29 => "I2C0.i2c" \in ready'
        /\ pc' = Dev + 30 => "I2C0.active_transaction" \in ready'
        /\ pc' = Dev + 31 => "I2C0.transaction_queue" \in ready'
        /\ ~(pc = 10 /\ pc' = 11)
    BY <1>1 DEF IInv, I2CReady
  <1> QED
    BY <1>2, <1>3, <1>4, Passed

LEMMA LockKeeps == ASSUME IInv, Lock PROVE IInv'
  BY HardwareKeeps DEF Lock

LEMMA RaiseKeeps == ASSUME IInv, NEW irq \in {SysTick_IRQn, I2C_IRQn}, Raise(irq) PROVE IInv'
  <1>1. /\ pc' = pc /\ busy' = busy
        /\ UNCHANGED <<cfg, regs, pllInput, mainSource, locked, SystemCoreClock, ready, asked>>
        /\ pending' = pending \union {irq}
        /\ IF irq = SysTick_IRQn THEN regs["TICKINT"] ELSE busy /\ regs["I2EN"]
    BY DEF Raise, clocks
  <1>2. SysTick_IRQn # I2C_IRQn
    BY DEF SysTick_IRQn, I2C_IRQn
  <1>3. /\ I2C_IRQn \in pending' => I2C_IRQn \in pending \/ busy # FALSE
        /\ SysTick_IRQn \in pending' => SysTick_IRQn \in pending \/ regs["TICKINT"] # FALSE
    <2>1. CASE irq = SysTick_IRQn
      <3>1. regs["TICKINT"]
        BY <1>1, <2>1, Zenon
      <3>2. regs["TICKINT"] # FALSE
        BY <3>1, Zenon
      <3> QED
        BY <1>1, <1>2, <2>1, <3>2, Zenon
    <2>2. CASE irq = I2C_IRQn
      <3>1. busy
        BY <1>1, <1>2, <2>2, Zenon
      <3>2. busy # FALSE
        BY <3>1, Zenon
      <3> QED
        BY <1>1, <1>2, <2>2, <3>2, Zenon
    <2> QED
      BY <2>1, <2>2
  <1> QED
    BY <1>1, <1>3, HardwareKeeps

LEMMA TakeKeeps == ASSUME IInv, NEW irq \in {SysTick_IRQn, I2C_IRQn}, Take(irq) PROVE IInv'
  <1>1. /\ pc' = pc /\ (busy' = busy \/ busy' = FALSE)
        /\ UNCHANGED <<cfg, regs, pllInput, mainSource, locked, SystemCoreClock, ready, asked>>
        /\ pending' = pending \ {irq}
    BY DEF Take, clocks
  <1> QED
    BY <1>1, HardwareKeeps

LEMMA StutterKeeps == ASSUME IInv, UNCHANGED vars PROVE IInv'
  BY HardwareKeeps DEF vars, clocks
----------------------------------------------------------------------------
(* The clock that runs, and the one that is computed, is the one chosen.    *)
PllIn(c) ==
    CASE c.pllsel = 0 -> IRC [] c.pllsel = 1 -> XTAL
      [] c.pllsel = 2 -> WdtOsc(c.freqsel, c.divsel)

LEMMA ChosenIs ==
    ASSUME cfg \in Configs
    PROVE  /\ cfg.mainsel \in 0 .. 3 /\ cfg.pllsel \in 0 .. 2
           /\ cfg.mainsel \in {1, 3} /\ cfg.pllsel = 2 => cfg.wdt
           /\ cfg.mainsel = 2 => cfg.wdt
           /\ cfg.mainsel = 3 => cfg.pll
           /\ Chosen(cfg) = CASE cfg.mainsel = 0 -> IRC
                              [] cfg.mainsel = 1 -> PllIn(cfg)
                              [] cfg.mainsel = 2 -> WdtOsc(cfg.freqsel, cfg.divsel)
                              [] cfg.mainsel = 3 -> IF cfg.bypass THEN PllIn(cfg)
                                                    ELSE PllIn(cfg) * cfg.m
  <1>1. /\ cfg \in Wizard /\ Chosen(cfg) # 0
    BY GivesClock, MaxClockNat
  <1>2. /\ cfg.mainsel \in 0 .. 3 /\ cfg.pllsel \in 0 .. 2 /\ cfg.m \in 1 .. 32
    BY <1>1 DEF Wizard
  <1>3. 0 * cfg.m = 0
    BY <1>2
  <1> DEFINE W == WdtOsc(cfg.freqsel, cfg.divsel)
             wdt == IF cfg.wdt THEN W ELSE 0
             in == CASE cfg.pllsel = 0 -> IRC [] cfg.pllsel = 1 -> XTAL [] cfg.pllsel = 2 -> wdt
  <1>4. /\ cfg.mainsel = 0 => Chosen(cfg) = IRC
        /\ cfg.mainsel = 1 => Chosen(cfg) = in
        /\ cfg.mainsel = 2 => Chosen(cfg) = wdt
        /\ cfg.mainsel = 3 => Chosen(cfg) = IF ~cfg.pll THEN 0 ELSE IF cfg.bypass THEN in
                                            ELSE in * cfg.m
    <2>1. Chosen(cfg) = CASE cfg.mainsel = 0 -> IRC [] cfg.mainsel = 1 -> in
                          [] cfg.mainsel = 2 -> wdt
                          [] cfg.mainsel = 3 -> IF ~cfg.pll THEN 0 ELSE IF cfg.bypass THEN in
                                                ELSE in * cfg.m
      BY Zenon DEF Chosen
    <2> HIDE DEF in, wdt
    <2> QED
      BY <2>1
  <1>5. /\ cfg.pllsel = 0 => (in = IRC /\ PllIn(cfg) = IRC)
        /\ cfg.pllsel = 1 => (in = XTAL /\ PllIn(cfg) = XTAL)
        /\ cfg.pllsel = 2 => (in = wdt /\ PllIn(cfg) = W)
    BY DEF PllIn
  <1>6. cfg.pllsel = 0 \/ cfg.pllsel = 1 \/ cfg.pllsel = 2
    BY <1>2
  <1>7. cfg.mainsel = 0 \/ cfg.mainsel = 1 \/ cfg.mainsel = 2 \/ cfg.mainsel = 3
    BY <1>2
  <1>8. wdt = IF cfg.wdt THEN W ELSE 0
    OBVIOUS
  <1> HIDE DEF W, wdt, in
  <1>9. in = IF cfg.pllsel = 2 /\ ~cfg.wdt THEN 0 ELSE PllIn(cfg)
    BY <1>5, <1>6, <1>8
  <1>10. cfg.mainsel = 3 => cfg.pll
    BY <1>1, <1>4
  <1>11. cfg.mainsel = 2 => cfg.wdt /\ Chosen(cfg) = W
    BY <1>1, <1>4, <1>8
  <1>12. cfg.mainsel \in {1, 3} /\ cfg.pllsel = 2 => cfg.wdt
    BY <1>1, <1>3, <1>4, <1>9, <1>10
  <1>13. /\ cfg.mainsel = 1 => Chosen(cfg) = PllIn(cfg)
         /\ cfg.mainsel = 3 => Chosen(cfg) = IF cfg.bypass THEN PllIn(cfg) ELSE PllIn(cfg) * cfg.m
    BY <1>4, <1>9, <1>10, <1>12
  <1>14. Chosen(cfg) = CASE cfg.mainsel = 0 -> IRC [] cfg.mainsel = 1 -> PllIn(cfg)
                         [] cfg.mainsel = 2 -> W
                         [] cfg.mainsel = 3 -> IF cfg.bypass THEN PllIn(cfg)
                                               ELSE PllIn(cfg) * cfg.m
    BY <1>4, <1>7, <1>11, <1>13
  <1> QED
    BY <1>2, <1>10, <1>11, <1>12, <1>14 DEF W

LEMMA ClocksSet ==
    ASSUME IInv, pc > SelBegin
    PROVE  /\ Powered("SYSOSC") /\ regs["SYSPLLCLKSEL"] = cfg.pllsel /\ pllInput = cfg.pllsel
           /\ cfg.pll => /\ regs["SYSPLLCTRL"].m = cfg.m
                         /\ regs["SYSPLLCTRL"].bypass = cfg.bypass
                         /\ Powered("SYSPLL") /\ locked
           /\ cfg.wdt => /\ regs["WDTOSCCTRL"].freqsel = cfg.freqsel
                         /\ regs["WDTOSCCTRL"].divsel = cfg.divsel
                         /\ Powered("WDTOSC")
  <1>1. /\ pc > 3 /\ pc > 4 /\ pc > 7 /\ pc \in Nat
        /\ cfg.pll => pc > 8 /\ pc > 9 /\ pc > 10
        /\ cfg.wdt => pc > PllEnd + 1 /\ pc > PllEnd + 2
    BY Places, InvFacts
  <1>2. PllReady /\ MainReady
    BY DEF IInv
  <1>3. /\ "SYSOSC" \notin regs["PDRUNCFG"] /\ regs["SYSPLLCLKSEL"] = cfg.pllsel
        /\ pllInput = cfg.pllsel
        /\ cfg.pll => /\ regs["SYSPLLCTRL"] = [m |-> cfg.m, bypass |-> cfg.bypass]
                      /\ "SYSPLL" \notin regs["PDRUNCFG"] /\ locked
    BY <1>1, <1>2 DEF PllReady
  <1>4. cfg.wdt => /\ regs["WDTOSCCTRL"] = [freqsel |-> cfg.freqsel, divsel |-> cfg.divsel]
                   /\ "WDTOSC" \notin regs["PDRUNCFG"]
    BY <1>1, <1>2 DEF MainReady
  <1> QED
    BY <1>3, <1>4 DEF Powered

LEMMA ChosenRuns ==
    ASSUME IInv, pc > SelBegin, mainSource = cfg.mainsel
    PROVE  MainClock = Chosen(cfg)
  <1>1. cfg \in Configs
    BY DEF IInv, TypeInv
  <1> DEFINE W == WdtOsc(cfg.freqsel, cfg.divsel)
  <1>2. Source(0) = IRC /\ Source(1) = XTAL /\ (cfg.wdt => Source(2) = W)
    BY ClocksSet DEF Source
  <1>3. cfg.pllsel = 0 \/ cfg.pllsel = 1 \/ cfg.pllsel = 2
    BY <1>1, ChosenIs
  <1>4. /\ cfg.pllsel = 0 => PllIn(cfg) = IRC
        /\ cfg.pllsel = 1 => PllIn(cfg) = XTAL
        /\ cfg.pllsel = 2 => PllIn(cfg) = W
    BY DEF PllIn
  <1> HIDE DEF W
  <1>5. cfg.mainsel \in {1, 3} => Source(pllInput) = PllIn(cfg)
    <2>1. pllInput = cfg.pllsel
      BY ClocksSet
    <2>2. cfg.mainsel \in {1, 3} /\ cfg.pllsel = 2 => cfg.wdt
      BY <1>1, ChosenIs
    <2> QED
      BY <1>2, <1>3, <1>4, <2>1, <2>2
  <1>6. cfg.mainsel = 3 => PllOut = IF cfg.bypass THEN PllIn(cfg) ELSE PllIn(cfg) * cfg.m
    <2>1. cfg.mainsel = 3 => cfg.pll
      BY <1>1, ChosenIs
    <2>2. cfg.pll => /\ regs["SYSPLLCTRL"].m = cfg.m
                     /\ regs["SYSPLLCTRL"].bypass = cfg.bypass
                     /\ Powered("SYSPLL") /\ locked
      BY ClocksSet
    <2> QED
      BY <1>5, <2>1, <2>2 DEF PllOut
  <1>7. cfg.mainsel = 2 => cfg.wdt /\ Chosen(cfg) = W
    BY <1>1, ChosenIs DEF W
  <1>8. /\ cfg.mainsel = 0 => Chosen(cfg) = IRC
        /\ cfg.mainsel = 1 => Chosen(cfg) = PllIn(cfg)
        /\ cfg.mainsel = 3 => Chosen(cfg) = IF cfg.bypass THEN PllIn(cfg) ELSE PllIn(cfg) * cfg.m
    BY <1>1, ChosenIs
  <1>9. /\ cfg.mainsel = 0 => MainClock = IRC
        /\ cfg.mainsel = 1 => MainClock = Source(pllInput)
        /\ cfg.mainsel = 2 => MainClock = Source(2)
        /\ cfg.mainsel = 3 => MainClock = PllOut
    BY DEF MainClock
  <1>10. cfg.mainsel = 0 \/ cfg.mainsel = 1 \/ cfg.mainsel = 2 \/ cfg.mainsel = 3
    BY <1>1, ChosenIs
  <1> QED
    BY <1>2, <1>5, <1>6, <1>7, <1>8, <1>9, <1>10

LEMMA ChosenRead ==
    ASSUME IInv, pc > SelBegin + 5
    PROVE  SystemCoreClockUpdate = Chosen(cfg) \div cfg.ahbdiv
  <1>1. cfg \in Configs
    BY DEF IInv, TypeInv
  <1>2. pc > SelBegin /\ pc > SelBegin + 1 /\ pc \in Nat
    BY Places, InvFacts
  <1>3. regs["MAINCLKSEL"] = cfg.mainsel /\ regs["SYSAHBCLKDIV"] = cfg.ahbdiv
    BY <1>2 DEF IInv, MainReady
  <1> DEFINE W == WdtOsc(cfg.freqsel, cfg.divsel)
             out == IF regs["SYSPLLCTRL"].bypass THEN ReadPllIn
                    ELSE ReadPllIn * regs["SYSPLLCTRL"].m
             main_clock == CASE regs["MAINCLKSEL"] = 0 -> IRC
                             [] regs["MAINCLKSEL"] = 1 -> ReadPllIn
                             [] regs["MAINCLKSEL"] = 2 -> ReadWdt
                             [] regs["MAINCLKSEL"] = 3 -> out
  <1>4. SystemCoreClockUpdate = main_clock \div cfg.ahbdiv
    BY <1>3 DEF SystemCoreClockUpdate
  <1>5. cfg.wdt => ReadWdt = W
    BY <1>2, ClocksSet DEF ReadWdt
  <1>6. /\ cfg.pllsel = 0 => (PllIn(cfg) = IRC /\ ReadPllIn = IRC)
        /\ cfg.pllsel = 1 => (PllIn(cfg) = XTAL /\ ReadPllIn = XTAL)
        /\ cfg.pllsel = 2 => (PllIn(cfg) = W /\ ReadPllIn = ReadWdt)
    BY <1>2, ClocksSet DEF PllIn, ReadPllIn
  <1>7. cfg.pllsel = 0 \/ cfg.pllsel = 1 \/ cfg.pllsel = 2
    BY <1>1, ChosenIs
  <1>8. /\ cfg.mainsel = 0 => main_clock = IRC
        /\ cfg.mainsel = 1 => main_clock = ReadPllIn
        /\ cfg.mainsel = 2 => main_clock = ReadWdt
        /\ cfg.mainsel = 3 => main_clock = out
    BY <1>3
  <1>9. cfg.pll => out = IF cfg.bypass THEN ReadPllIn ELSE ReadPllIn * cfg.m
    BY <1>2, ClocksSet
  <1> HIDE DEF W, out, main_clock
  <1>10. cfg.mainsel \in {1, 3} => ReadPllIn = PllIn(cfg)
    <2>1. cfg.mainsel \in {1, 3} /\ cfg.pllsel = 2 => cfg.wdt
      BY <1>1, ChosenIs
    <2> QED
      BY <1>5, <1>6, <1>7, <2>1
  <1>11. cfg.mainsel = 2 => cfg.wdt /\ Chosen(cfg) = W
    BY <1>1, ChosenIs DEF W
  <1>12. /\ cfg.mainsel = 0 => Chosen(cfg) = IRC
         /\ cfg.mainsel = 1 => Chosen(cfg) = PllIn(cfg)
         /\ cfg.mainsel = 3 => /\ cfg.pll
                               /\ Chosen(cfg) = IF cfg.bypass THEN PllIn(cfg)
                                                ELSE PllIn(cfg) * cfg.m
    BY <1>1, ChosenIs
  <1>13. cfg.mainsel = 0 \/ cfg.mainsel = 1 \/ cfg.mainsel = 2 \/ cfg.mainsel = 3
    BY <1>1, ChosenIs
  <1>14. main_clock = Chosen(cfg)
    BY <1>5, <1>8, <1>9, <1>10, <1>11, <1>12, <1>13
  <1> QED
    BY <1>4, <1>14

LEMMA ChosenCompiled ==
    ASSUME cfg \in Configs, ~cfg.bypass
    PROVE  MacroClock = Chosen(cfg) \div cfg.ahbdiv
  <1> DEFINE W == WdtOsc(cfg.freqsel, cfg.divsel)
             out == IF cfg.pll THEN MacroPllIn * cfg.m ELSE MacroPllIn
             main_clock == CASE cfg.mainsel = 0 -> IRC [] cfg.mainsel = 1 -> MacroPllIn
                             [] cfg.mainsel = 2 -> MacroWdt [] cfg.mainsel = 3 -> out
  <1>1. MacroClock = main_clock \div cfg.ahbdiv
    BY DEF MacroClock
  <1>2. cfg.wdt => MacroWdt = W
    BY SMT DEF MacroWdt
  <1>3. /\ cfg.pllsel = 0 => (PllIn(cfg) = IRC /\ MacroPllIn = IRC)
        /\ cfg.pllsel = 1 => (PllIn(cfg) = XTAL /\ MacroPllIn = XTAL)
        /\ cfg.pllsel = 2 => (PllIn(cfg) = W /\ MacroPllIn = MacroWdt)
    BY DEF PllIn, MacroPllIn
  <1>4. cfg.pllsel = 0 \/ cfg.pllsel = 1 \/ cfg.pllsel = 2
    BY ChosenIs
  <1>5. /\ cfg.mainsel = 0 => main_clock = IRC
        /\ cfg.mainsel = 1 => main_clock = MacroPllIn
        /\ cfg.mainsel = 2 => main_clock = MacroWdt
        /\ cfg.mainsel = 3 => main_clock = out
    OBVIOUS
  <1> HIDE DEF W, main_clock
  <1>6. cfg.mainsel \in {1, 3} => MacroPllIn = PllIn(cfg)
    <2>1. cfg.mainsel \in {1, 3} /\ cfg.pllsel = 2 => cfg.wdt
      BY ChosenIs
    <2> QED
      BY <1>2, <1>3, <1>4, <2>1
  <1>7. cfg.mainsel = 2 => cfg.wdt /\ Chosen(cfg) = W
    BY ChosenIs DEF W
  <1>8. /\ cfg.mainsel = 0 => Chosen(cfg) = IRC
        /\ cfg.mainsel = 1 => Chosen(cfg) = PllIn(cfg)
        /\ cfg.mainsel = 3 => cfg.pll /\ Chosen(cfg) = PllIn(cfg) * cfg.m
    BY ChosenIs
  <1>9. cfg.mainsel = 0 \/ cfg.mainsel = 1 \/ cfg.mainsel = 2 \/ cfg.mainsel = 3
    BY ChosenIs
  <1>10. main_clock = Chosen(cfg)
    BY <1>2, <1>5, <1>6, <1>7, <1>8, <1>9
  <1> QED
    BY <1>1, <1>10
----------------------------------------------------------------------------
LEMMA SetCoreClockKeeps == ASSUME IInv, SetCoreClock PROVE IInv'
  <1>1. /\ Now.op = "copy .data" \/ Now.op = "SystemCoreClockUpdate"
        /\ ~Booted /\ pc' = pc + 1
        /\ Now.op = "SystemCoreClockUpdate" => SystemCoreClock' = SystemCoreClockUpdate
        /\ UNCHANGED <<cfg, regs, pllInput, mainSource, locked, ready, pending, busy, asked>>
    BY DEF SetCoreClock, Next_is, clocks
  <1>2. pc \in 1 .. Dev + 34
    BY <1>1, Running
  <1>3. pc = 1 \/ (pc = SelBegin + 9 /\ Now.op = "SystemCoreClockUpdate")
    BY <1>1, <1>2, OtherPlaces, Places
  <1>4. /\ PllEnd \in Nat /\ PllEnd >= 7 /\ (cfg.pll => PllEnd = 10) /\ (~cfg.pll => PllEnd = 7)
        /\ SelBegin \in Nat /\ SelBegin >= PllEnd
        /\ cfg.wdt => SelBegin = PllEnd + 2
    BY Places DEF PllEnd
  <1>5. /\ PllEnd' = PllEnd /\ SelBegin' = SelBegin /\ Upd' = Upd /\ Upd = SelBegin + 9
        /\ Dev' \in Nat /\ Dev' >= SelBegin + 9
    <2>1. /\ PllEnd' = PllEnd /\ SelBegin' = SelBegin /\ Upd' = Upd
          /\ Dev' \in Nat /\ (Dev' = Upd \/ Dev' = Upd + 2)
      BY <1>1, PlacesKept
    <2>2. Upd = SelBegin + 9
      BY Places
    <2>3. Dev' = SelBegin + 9 \/ Dev' = SelBegin + 11
      BY <1>4, <2>1, <2>2
    <2> QED
      BY <1>4, <2>1, <2>2, <2>3
  <1>6. /\ pc \in Nat /\ Dev \in Nat /\ Dev >= SelBegin + 9
    BY InvFacts, Places
  <1>13. SelBegin \in Nat /\ SelBegin >= 7
    BY <1>4
  <1>14. pc' = pc + 1 /\ (pc = 1 \/ pc = SelBegin + 9) /\ SelBegin \in Nat /\ SelBegin >= 7
    BY <1>1, <1>3, <1>13
  <1>15. pc' = 2 \/ pc' = SelBegin + 10
    BY <1>6, <1>14
  <1>16. Dev' \in Nat /\ Dev' >= SelBegin + 9 /\ SelBegin \in Nat
    BY <1>4, <1>5
  <1>17. pc' \in Nat
    BY <1>6, <1>14
  <1>8. pc' <= Dev' + 1 /\ pc' >= 1
    BY <1>14, <1>15, <1>16
  <1>9. pc <= Dev
    <2>1. pc = 1 \/ pc = SelBegin + 9
      BY <1>14
    <2> QED
      BY <1>6, <1>14, <2>1
  <1>18. PICK p \in Nat, d \in Nat : pc' = p /\ Dev' = d
    BY <1>16, <1>17
  <1>19. p <= d + 1 /\ p >= 1
    BY <1>8, <1>18
  <1>20. TypeInv'
    <2>1. pc' \in 1 .. Dev' + 35
      <3>1. p \in 1 .. d + 35
        BY <1>19
      <3> QED
        BY <1>18, <3>1
    <2> QED
      BY <1>1, <2>1 DEF IInv, TypeInv
  <1>21. PllReady'
    <2>1. PllReady
      BY DEF IInv
    <2>2. CASE pc = 1
      <3>1. pc' = 2
        BY <1>14, <2>2
      <3> QED
        BY <3>1 DEF PllReady
    <2>3. CASE pc = SelBegin + 9
      <3>1. /\ pc > 3 /\ pc > 4 /\ pc > 7 /\ pc > 8 /\ pc > 9
            /\ cfg.pll => pc > 10
        BY <1>4, <2>3
      <3>2. pc' # 7
        BY <1>14, <1>15
      <3> QED
        BY <1>1, <2>1, <3>1, <3>2 DEF PllReady
    <2> QED
      BY <1>3, <2>2, <2>3
  <1>22. MainReady'
    <2> DEFINE chosen == Chosen(cfg) \div cfg.ahbdiv
    <2>1. chosen' = chosen
      BY <1>1
    <2>2. MainReady
      BY DEF IInv
    <2>3. CASE pc = 1
      <3>1. pc' = 2 /\ mainSource = 0 /\ regs["SYSAHBCLKDIV"] = 1
        <4>1. ~(pc > SelBegin + 2) /\ ~(pc > SelBegin + 5)
          BY <1>4, <2>3
        <4>2. pc' = 2
          BY <1>14, <2>3
        <4>3. mainSource = 0 /\ regs["SYSAHBCLKDIV"] = 1
          BY <2>2, <4>1 DEF MainReady
        <4> QED
          BY <4>2, <4>3
      <3>2. /\ ~(2 > PllEnd + 1) /\ ~(2 > PllEnd + 2) /\ ~(2 > SelBegin + 1)
            /\ 2 # SelBegin + 4 /\ ~(2 > SelBegin + 4) /\ ~(2 > SelBegin + 5)
            /\ ~(2 > SelBegin + 6) /\ ~(2 > SelBegin + 9)
        BY <1>4
      <3> HIDE DEF chosen
      <3> QED
        BY <1>1, <1>5, <2>2, <3>1, <3>2 DEF MainReady
    <2>4. CASE pc = SelBegin + 9 /\ Now.op = "SystemCoreClockUpdate"
      <3>1. /\ pc > SelBegin + 1 /\ pc > SelBegin + 2 /\ pc > SelBegin + 4 /\ pc > SelBegin + 5
            /\ pc > SelBegin + 6
            /\ cfg.wdt => pc > PllEnd + 1 /\ pc > PllEnd + 2
        BY <1>4, <2>4
      <3>2. pc' # SelBegin + 4 /\ pc' > SelBegin + 2 /\ pc' > SelBegin + 5
        BY <1>1, <1>4, <2>4
      <3>3. SystemCoreClock' = chosen'
        BY <1>1, <2>1, <2>4, <3>1, ChosenRead
      <3>4. SystemCoreClock' = (Chosen(cfg) \div cfg.ahbdiv)'
        BY <3>3
      <3> HIDE DEF chosen
      <3> QED
        BY <1>1, <1>5, <2>2, <3>1, <3>2, <3>4 DEF MainReady
    <2> QED
      BY <1>3, <2>3, <2>4
  <1>23. TickReady'
    <2>1. /\ pc' > 2 => pc > 2
          /\ pc' <= 2 => pc <= 2
      BY <1>6, <1>14, <1>15
    <2>2. ~(pc' > Upd' + 1) /\ ~(pc' > Upd' + 2)
      <3>1. ~(pc' > (SelBegin + 9) + 1) /\ ~(pc' > (SelBegin + 9) + 2)
        BY <1>14, <1>15
      <3>2. Upd' = SelBegin + 9
        BY <1>5
      <3> QED
        BY <3>1, <3>2
    <2>3. /\ pc > 2 => "msTicks" \in ready
          /\ pc <= 2 => regs["TICKINT"] = FALSE
          /\ SysTick_IRQn \in pending => "msTicks" \in ready
      BY InvFacts
    <2> QED
      BY <1>1, <2>1, <2>2, <2>3 DEF TickReady
  <1>10. UartReady'
    BY <1>18, <1>19 DEF UartReady
  <1>11. SpiReady'
    <2>1. asked = 0
      <3>1. ~(pc > Dev + 34)
        BY <1>6, <1>9
      <3> QED
        BY <3>1 DEF IInv, SpiReady
    <2> QED
      <3>1. asked' = 0
        BY <1>1, <2>1
      <3> QED
        BY <1>18, <1>19, <3>1 DEF SpiReady
  <1>12. I2CReady'
    <2>1. busy = FALSE /\ I2C_IRQn \notin pending
      <3>1. ~(pc > Dev + 31)
        BY <1>6, <1>9
      <3> QED
        BY <3>1, InvFacts
    <2> QED
      <3>1. busy' = FALSE /\ I2C_IRQn \notin pending'
        BY <1>1, <2>1
      <3> QED
        BY <1>18, <1>19, <3>1 DEF I2CReady
  <1>24. AdcReady'
    BY <1>1 DEF IInv, AdcReady
  <1>25. DividersReady'
    <2>1. DividersReady
      BY DEF IInv
    <2>2. /\ pc' > SelBegin + 7 => pc > SelBegin + 7
          /\ pc' > SelBegin + 8 => pc > SelBegin + 8
      <3>1. CASE pc = 1
        <4>1. ~(2 > SelBegin + 7) /\ ~(2 > SelBegin + 8) /\ pc' = 2
          BY <1>14, <3>1
        <4> QED
          BY <4>1
      <3>2. CASE pc = SelBegin + 9
        <4>1. pc > SelBegin + 7 /\ pc > SelBegin + 8
          BY <1>14, <3>2
        <4> QED
          BY <4>1
      <3> QED
        BY <1>14, <3>1, <3>2
    <2> QED
      BY <1>1, <1>5, <2>1, <2>2 DEF DividersReady
  <1> QED
    BY <1>10, <1>11, <1>12, <1>20, <1>21, <1>22, <1>23, <1>24, <1>25 DEF IInv
----------------------------------------------------------------------------
(* The application, after main has set everything up.                       *)
LEMMA AllWorks == ASSUME IInv, Booted PROVE Works("SSP0") /\ Works("ADC")
  <1>1. pc > Dev + 34
    BY BootedIs
  <1>2. pc > SelBegin + 6 /\ pc > Dev + 14
    BY <1>1, InvFacts, Places
  <1>3. regs["SYSAHBCLKCTRL"] = AHBCLKCTRL /\ "SSP0" \in regs["PRESETCTRL"]
    BY <1>2 DEF IInv, MainReady, SpiReady
  <1> QED
    BY <1>3 DEF Works, AHBCLKCTRL

(* A step of the application that only changes registers of SPI and ADC.    *)
LEMMA ApplicationKeeps ==
    ASSUME IInv, Booted, SpiReady', AdcReady',
           \E V : regs' \in [RegNames -> V],
           UNCHANGED <<cfg, pc, clocks, ready, SystemCoreClock, pending, busy>>,
           \A r \in RegNames \ {"SSE", "CPSR", "CLKDIV", "CHANNEL", "PDRUNCFG"} : regs'[r] = regs[r],
           \A block : block \notin regs["PDRUNCFG"] => block \notin regs'["PDRUNCFG"]
    PROVE  IInv'
  <1>1. /\ cfg' = cfg /\ pc' = pc /\ pllInput' = pllInput /\ mainSource' = mainSource
        /\ locked' = locked /\ ready' = ready /\ SystemCoreClock' = SystemCoreClock
        /\ pending' = pending /\ busy' = busy
        /\ PllEnd' = PllEnd /\ SelBegin' = SelBegin /\ Upd' = Upd /\ Dev' = Dev
    BY PlacesKept DEF clocks
  <1> DEFINE R == RegNames \ {"SSE", "CPSR", "CLKDIV", "CHANNEL", "PDRUNCFG"}
  <1>2. \A r \in R : regs'[r] = regs[r]
    OBVIOUS
  <1>3. /\ ClockRegs \ {"PDRUNCFG"} \subseteq R /\ TickRegs \subseteq R
        /\ UartRegs \subseteq R /\ I2CRegs \subseteq R /\ "PRESETCTRL" \in R
    BY DEF RegNames, ClockRegs, TickRegs, UartRegs, I2CRegs, OtherRegs
  <1> HIDE DEF R
  <1>4. TypeInv'
    BY <1>1 DEF IInv, TypeInv
  <1>5. PllReady'
    <2>1. \A r \in {"SYSPLLCLKSEL", "SYSPLLCLKUEN", "SYSPLLCTRL"} : regs'[r] = regs[r]
      BY <1>2, <1>3 DEF ClockRegs
    <2>2. PllReady
      BY DEF IInv
    <2> QED
      BY <1>1, <2>1, <2>2 DEF PllReady
  <1>6. MainReady'
    <2>1. \A r \in {"WDTOSCCTRL", "MAINCLKSEL", "MAINCLKUEN", "SYSAHBCLKDIV", "SYSAHBCLKCTRL"} :
             regs'[r] = regs[r]
      BY <1>2, <1>3 DEF ClockRegs
    <2>2. MainReady
      BY DEF IInv
    <2> QED
      BY <1>1, <2>1, <2>2 DEF MainReady
  <1>7. TickReady'
    <2>1. \A r \in TickRegs : regs'[r] = regs[r]
      BY <1>2, <1>3
    <2>2. TickReady
      BY DEF IInv
    <2> QED
      BY <1>1, <2>1, <2>2 DEF TickReady, TickRegs
  <1>8. UartReady'
    <2>1. \A r \in UartRegs : regs'[r] = regs[r]
      BY <1>2, <1>3
    <2>2. UartReady
      BY DEF IInv
    <2> QED
      BY <1>1, <2>1, <2>2 DEF UartReady, UartRegs
  <1>9. I2CReady'
    <2>1. \A r \in I2CRegs \cup {"PRESETCTRL"} : regs'[r] = regs[r]
      BY <1>2, <1>3
    <2>2. I2CReady
      BY DEF IInv
    <2> QED
      BY <1>1, <2>1, <2>2 DEF I2CReady, I2CRegs
  <1>10. DividersReady'
    <2>1. \A r \in {"SSP0CLKDIV", "UARTCLKDIV"} : regs'[r] = regs[r]
      BY <1>2, <1>3 DEF ClockRegs
    <2>2. DividersReady
      BY DEF IInv
    <2> QED
      BY <1>1, <2>1, <2>2 DEF DividersReady
  <1> QED
    BY <1>4, <1>5, <1>6, <1>7, <1>8, <1>9, <1>10 DEF IInv

LEMMA spi_setupKeeps == ASSUME IInv, NEW speed \in Speeds, spi_setup(speed) PROVE IInv'
  <1>1. /\ Booted /\ asked' = speed
        /\ regs' = [regs EXCEPT !["SSE"] = TRUE, !["CPSR"] = Cpsr(speed)]
        /\ UNCHANGED <<cfg, pc, clocks, ready, SystemCoreClock, pending, busy>>
    BY AllWorks DEF spi_setup
  <1>2. PICK V : regs \in [RegNames -> V]
    BY DEF IInv, TypeInv
  <1> DEFINE value == Cpsr(speed)
  <1>3. regs' = [regs EXCEPT !["SSE"] = TRUE, !["CPSR"] = value]
    BY <1>1
  <1>4. "SSE" \in RegNames /\ "CPSR" \in RegNames
    BY DEF RegNames, SpiRegs
  <1> HIDE DEF value
  <1>5. /\ regs' \in [RegNames -> V \cup {TRUE, value}]
        /\ regs'["SSE"] = TRUE /\ regs'["CPSR"] = value
        /\ \A r \in RegNames \ {"SSE", "CPSR"} : regs'[r] = regs[r]
    BY <1>2, <1>3, <1>4
  <1>6. /\ \A r \in RegNames \ {"SSE", "CPSR", "CLKDIV", "CHANNEL", "PDRUNCFG"} : regs'[r] = regs[r]
        /\ \A r \in {"PIO0_8", "PIO0_9", "PIO0_6", "PRESETCTRL", "CLKDIV", "CHANNEL",
                      "PDRUNCFG"} : regs'[r] = regs[r]
    BY <1>5 DEF RegNames, ClockRegs, SpiRegs, OtherRegs
  <1>7. AdcReady'
    BY <1>6 DEF IInv, AdcReady
  <1>8. SpiReady'
    <2>1. speed # 0
      BY ConfigAssumption
    <2>2. pc > Dev + 34
      BY <1>1, BootedIs
    <2>3. cfg' = cfg /\ pc' = pc /\ SystemCoreClock' = SystemCoreClock
      BY <1>1
    <2>4. pc' = pc /\ Dev' = Dev /\ Dev \in Nat /\ pc \in Nat
      BY <2>3, InvFacts, PlacesKept
    <2>5. SpiReady
      BY DEF IInv
    <2>6. regs'["CPSR"] = Cpsr(asked')
      BY <1>1, <1>5 DEF value
    <2>7. regs'["CPSR"] = IF asked' = 0 THEN 2 ELSE Cpsr(asked')
      BY <1>1, <2>1, <2>6
    <2>8. /\ regs["PIO0_8"] = 1 /\ regs["PIO0_9"] = 1 /\ regs["PIO0_6"] = 2
          /\ "SSP0" \in regs["PRESETCTRL"]
      BY <2>2, <2>4, <2>5 DEF SpiReady
    <2> QED
      BY <1>1, <1>5, <1>6, <2>2, <2>4, <2>7, <2>8 DEF SpiReady
  <1>9. \A block : block \notin regs["PDRUNCFG"] => block \notin regs'["PDRUNCFG"]
    BY <1>6
  <1> QED
    BY <1>1, <1>5, <1>6, <1>7, <1>8, <1>9, ApplicationKeeps

LEMMA AdcKeeps ==
    ASSUME IInv, Booted, NEW V, NEW power, NEW channel, NEW divisor,
           regs \in [RegNames -> V],
           regs' = [regs EXCEPT !["PDRUNCFG"] = power, !["CLKDIV"] = divisor, !["CHANNEL"] = channel],
           UNCHANGED <<cfg, pc, clocks, ready, SystemCoreClock, pending, busy, asked>>,
           power \subseteq regs["PDRUNCFG"], "ADC" \notin power, divisor = 10
    PROVE  IInv'
  <1>1. "PDRUNCFG" \in RegNames /\ "CLKDIV" \in RegNames /\ "CHANNEL" \in RegNames
    BY DEF RegNames, ClockRegs, OtherRegs
  <1>2. /\ regs' \in [RegNames -> V \cup {power, divisor, channel}]
        /\ regs'["PDRUNCFG"] = power /\ regs'["CLKDIV"] = divisor
        /\ \A r \in RegNames \ {"PDRUNCFG", "CLKDIV", "CHANNEL"} : regs'[r] = regs[r]
    BY <1>1
  <1>3. AdcReady'
    BY <1>2 DEF AdcReady
  <1>4. SpiReady'
    <2>1. cfg' = cfg /\ pc' = pc /\ SystemCoreClock' = SystemCoreClock /\ asked' = asked
      OBVIOUS
    <2>2. Dev' = Dev
      BY <2>1, PlacesKept
    <2>3. \A r \in SpiRegs \cup {"PRESETCTRL"} : regs'[r] = regs[r]
      BY <1>2 DEF RegNames, SpiRegs, OtherRegs
    <2>4. SpiReady
      BY DEF IInv
    <2> QED
      BY <2>1, <2>2, <2>3, <2>4 DEF SpiReady, SpiRegs
  <1>5. \A r \in RegNames \ {"SSE", "CPSR", "CLKDIV", "CHANNEL", "PDRUNCFG"} : regs'[r] = regs[r]
    BY <1>2
  <1>6. \A block : block \notin regs["PDRUNCFG"] => block \notin regs'["PDRUNCFG"]
    BY <1>2
  <1> QED
    BY <1>2, <1>3, <1>4, <1>5, <1>6, ApplicationKeeps

LEMMA adc_initKeeps == ASSUME IInv, adc_init PROVE IInv'
  <1>1. /\ Booted
        /\ regs' = [regs EXCEPT !["PDRUNCFG"] = @ \ {"ADC"}, !["CLKDIV"] = 10,
                                !["CHANNEL"] = NoChannel]
        /\ UNCHANGED <<cfg, pc, clocks, ready, SystemCoreClock, pending, busy, asked>>
    BY AllWorks DEF adc_init
  <1>2. PICK V : regs \in [RegNames -> V]
    BY DEF IInv, TypeInv
  <1> DEFINE power == regs["PDRUNCFG"] \ {"ADC"}
  <1>3. regs' = [regs EXCEPT !["PDRUNCFG"] = power, !["CLKDIV"] = 10, !["CHANNEL"] = NoChannel]
    BY <1>1
  <1>4. power \subseteq regs["PDRUNCFG"] /\ "ADC" \notin power
    OBVIOUS
  <1> HIDE DEF power
  <1> QED
    BY <1>1, <1>2, <1>3, <1>4, AdcKeeps

LEMMA adc_readKeeps == ASSUME IInv, NEW ch \in 0 .. 6, adc_read(ch) PROVE IInv'
  <1>1. /\ Booted /\ "ADC" \notin regs["PDRUNCFG"]
        /\ \/ regs' = [regs EXCEPT !["CHANNEL"] = ch, !["CLKDIV"] = @]
           \/ regs' = regs
        /\ UNCHANGED <<cfg, pc, clocks, ready, SystemCoreClock, pending, busy, asked>>
    BY DEF adc_read, Powered
  <1>2. PICK V : regs \in [RegNames -> V]
    BY DEF IInv, TypeInv
  <1>3. CASE regs' = regs
    BY <1>1, <1>3, HardwareKeeps DEF clocks
  <1>4. CASE regs' = [regs EXCEPT !["CHANNEL"] = ch, !["CLKDIV"] = @]
    <2> DEFINE power == regs["PDRUNCFG"]
               divisor == regs["CLKDIV"]
    <2>1. regs' = [regs EXCEPT !["PDRUNCFG"] = power, !["CLKDIV"] = divisor, !["CHANNEL"] = ch]
      BY <1>2, <1>4
    <2>2. power \subseteq regs["PDRUNCFG"] /\ "ADC" \notin power
      BY <1>1
    <2>3. divisor = 10
      BY <1>1 DEF IInv, AdcReady
    <2> HIDE DEF power, divisor
    <2> QED
      BY <1>1, <1>2, <2>1, <2>2, <2>3, AdcKeeps
  <1> QED
    BY <1>1, <1>3, <1>4
----------------------------------------------------------------------------
LEMMA Initially == ASSUME Init PROVE IInv
  <1>1. PICK uen \in {0, 1} : regs = ResetRegs(uen)
    BY DEF Init
  <1>2. /\ cfg \in Configs /\ pc = 1 /\ mainSource = 0 /\ ready = {} /\ pending = {}
        /\ busy = FALSE /\ asked = 0
    BY DEF Init
  <1>3. \E V : regs \in [RegNames -> V]
    <2>1. regs \in [RegNames -> {regs[r] : r \in RegNames}]
      BY <1>1 DEF ResetRegs, RegNames, ClockRegs, TickRegs, UartRegs, SpiRegs, I2CRegs, OtherRegs
    <2> QED
      BY <2>1
  <1>4. /\ "ADC" \in regs["PDRUNCFG"] /\ regs["CHANNEL"] = NoChannel
        /\ regs["SYSAHBCLKDIV"] = 1 /\ "SYS" \in regs["SYSAHBCLKCTRL"]
        /\ regs["TICKINT"] = FALSE
    BY <1>1 DEF ResetRegs
  <1>5. /\ PllEnd \in Nat /\ PllEnd >= 7 /\ SelBegin \in Nat /\ SelBegin >= PllEnd
        /\ Dev \in Nat /\ Dev >= 16
    BY Places
  <1>6. Upd \in Nat /\ Upd >= 16
    BY Places
  <1>7. TypeInv
    BY <1>2, <1>3, <1>5 DEF TypeInv
  <1>8. PllReady
    BY <1>2 DEF PllReady
  <1>9. MainReady
    BY <1>2, <1>4, <1>5, <1>6 DEF MainReady
  <1>10. TickReady
    <2>1. ~(1 > 2) /\ ~(1 > Upd + 1) /\ ~(1 > Upd + 2)
      BY <1>6
    <2> QED
      BY <1>2, <1>4, <2>1 DEF TickReady
  <1>11. UartReady
    BY <1>2, <1>5 DEF UartReady
  <1>12. SpiReady
    BY <1>2, <1>5 DEF SpiReady
  <1>13. I2CReady
    BY <1>2, <1>5 DEF I2CReady
  <1>14. AdcReady
    BY <1>4 DEF AdcReady
  <1>15. DividersReady
    BY <1>2, <1>5 DEF DividersReady
  <1> QED
    BY <1>7, <1>8, <1>9, <1>10, <1>11, <1>12, <1>13, <1>14, <1>15 DEF IInv

LEMMA StepKeeps == ASSUME IInv, [Next]_vars PROVE IInv'
  <1>1. CASE WriteRegister
    BY <1>1, WriteKeeps
  <1>2. CASE SetObject
    BY <1>2, SetObjectKeeps
  <1>3. CASE SetCoreClock
    BY <1>3, SetCoreClockKeeps
  <1>4. CASE WaitForLock
    BY <1>4, WaitForLockKeeps
  <1>5. CASE NVIC_ClearPendingIRQ
    BY <1>5, NVIC_ClearPendingIRQKeeps
  <1>6. CASE StartTransaction \/ TransactionEnds
    BY <1>6, TransactionKeeps
  <1>7. ASSUME NEW speed \in Speeds, spi_setup(speed) PROVE IInv'
    BY <1>7, spi_setupKeeps
  <1>8. CASE adc_init
    BY <1>8, adc_initKeeps
  <1>9. ASSUME NEW ch \in 0 .. 6, adc_read(ch) PROVE IInv'
    BY <1>9, adc_readKeeps
  <1>10. CASE Lock
    BY <1>10, LockKeeps
  <1>11. ASSUME NEW irq \in {SysTick_IRQn, I2C_IRQn}, Raise(irq) \/ Take(irq) PROVE IInv'
    BY <1>11, RaiseKeeps, TakeKeeps
  <1>12. CASE UNCHANGED vars
    BY <1>12, StutterKeeps
  <1> QED
    BY <1>1, <1>2, <1>3, <1>4, <1>5, <1>6, <1>7, <1>8, <1>9, <1>10, <1>11, <1>12 DEF Next

(* At every place of the program, what the operations before it set up is   *)
(* set up, for every setting of the wizard that gives a clock               *)
(* (startup.c:115-132, system_LPC11xx.c:407-450, main.c:19-50, and the init *)
(* functions that these call).                                              *)
THEOREM SetUp == Spec => []IInv
  <1>1. Init => IInv
    BY Initially
  <1>2. IInv /\ [Next]_vars => IInv'
    BY StepKeeps
  <1> QED
    BY <1>1, <1>2, PTL DEF Spec
----------------------------------------------------------------------------
(* No write is lost: whenever the program writes to a register, SystemInit  *)
(* and the function itself have given the peripheral its clock and taken it *)
(* out of reset, and the divisor latch of the UART is open for its divisor  *)
(* (system_LPC11xx.c:407-450, uart.c:8-47, spi.c:24-84, i2c.c:326-360,      *)
(* adc.c:7-51).                                                             *)
THEOREM WritesArrive ==
    Spec => [][/\ WriteRegister => Reaches(Now.reg)
               /\ Booted => Works("SSP0") /\ Works("ADC")]_vars
  <1> DEFINE Arrives == /\ WriteRegister => Reaches(Now.reg)
                        /\ Booted => Works("SSP0") /\ Works("ADC")
  <1>1. ASSUME IInv PROVE Arrives
    <2>1. ASSUME WriteRegister PROVE Reaches(Now.reg)
      <3>1. Now.op = "write" /\ pc \in 1 .. Dev + 34
        BY <1>1, <2>1, Running DEF WriteRegister, Next_is
      <3> QED
        BY <1>1, <3>1, Reached
    <2> QED
      BY <1>1, <2>1, AllWorks
  <1>2. IInv /\ [Next]_vars => [Arrives]_vars
    BY <1>1
  <1> QED
    BY <1>2, SetUp, PTL DEF Spec
----------------------------------------------------------------------------
(* The entries of the vector table that main makes use of.                  *)
LEMMA VectorTable ==
    /\ Handler(SysTick_IRQn) = "SysTick_Handler"
    /\ Handler(I2C_IRQn) = "I2C_Handler"
  <1> DEFINE A1 == <<"_end_stack", "Reset_Handler", "NMI_Handler", "HardFault_Handler">>
             A2 == Vectors(7, "0")
             A3 == <<"SVC_Handler", "0", "0", "PendSV_Handler", "SysTick_Handler">>
             A4 == Vectors(13, "WAKEUP_Handler")
             A5 == <<"CAN_Handler", "SSP1_Handler", "I2C_Handler">>
             A6 == Vectors(4, "TIMER_Handler")
             A7 == <<"SSP0_Handler", "UART_Handler">>
             A8 == Vectors(2, "Dummy_Handler")
             A9 == <<"ADC_Handler", "WDT_Handler", "BOD_Handler">>
             A10 == Vectors(1, "Dummy_Handler")
             A11 == Vectors(4, "EINT_Handler")
             B2 == A1 \o A2
             B3 == B2 \o A3
             B4 == B3 \o A4
             B5 == B4 \o A5
             B6 == B5 \o A6
             B7 == B6 \o A7
             B8 == B7 \o A8
             B9 == B8 \o A9
             B10 == B9 \o A10
             Holds(t, n) == Sized(t, n) /\ n >= 32 /\ Part(t, 11, A3, 5) /\ Part(t, 29, A5, 3)
  <1>1. vector_table = B10 \o A11
    BY DEF vector_table
  <1>2. /\ Sized(A1, 4) /\ Sized(A5, 3) /\ Sized(A7, 2) /\ Sized(A9, 3)
    BY Short
  <1>3. Sized(A3, 5)
    <2>1. A3 \in Seq({"SVC_Handler", "0", "PendSV_Handler", "SysTick_Handler"}) /\ Len(A3) = 5
      OBVIOUS
    <2> QED
      BY <2>1 DEF Sized
  <1>4. ASSUME NEW n \in Nat, NEW name PROVE Sized(Vectors(n, name), n)
    <2> DEFINE v == [k \in 1 .. n |-> name]
    <2>1. v \in [1 .. n -> {name}]
      OBVIOUS
    <2> HIDE DEF v
    <2>2. v \in Seq({name})
      BY <2>1, SeqDef
    <2>3. Len(v) \in Nat /\ DOMAIN v = 1 .. Len(v)
      BY <2>2, LenProperties
    <2>4. PICK m \in Nat : m = Len(v)
      BY <2>3
    <2>5. 1 .. n = 1 .. m
      BY <2>1, <2>3, <2>4
    <2>6. ~(n < m)
      <3>1. n < m => m \in 1 .. m /\ m \notin 1 .. n
        BY <2>4
      <3> QED
        BY <2>5, <3>1
    <2>7. ~(m < n)
      <3>1. m < n => n \in 1 .. n /\ n \notin 1 .. m
        BY <2>4
      <3> QED
        BY <2>5, <3>1
    <2>8. Len(v) = n
      BY <2>4, <2>6, <2>7
    <2> QED
      BY <2>2, <2>8 DEF v, Sized, Vectors
  <1>5. /\ Sized(A2, 7) /\ Sized(A4, 13) /\ Sized(A6, 4) /\ Sized(A8, 2) /\ Sized(A10, 1)
        /\ Sized(A11, 4)
    BY <1>4
  <1>6. A3[5] = "SysTick_Handler" /\ A5[3] = "I2C_Handler"
    OBVIOUS
  <1> HIDE DEF A1, A2, A3, A4, A5, A6, A7, A8, A9, A10, A11
  <1>7. Sized(B2, 11)
    <2>1. Sized(B2, 4 + 7)
      BY <1>2, <1>5, Joined
    <2> QED
      BY <2>1
  <1> HIDE DEF B2
  <1>8. Sized(B3, 16) /\ Part(B3, 11, A3, 5)
    <2>1. Sized(B3, 11 + 5) /\ Part(B3, 11, A3, 5)
      BY <1>3, <1>7, Joined
    <2> QED
      BY <2>1
  <1> HIDE DEF B3
  <1>9. Sized(B4, 29) /\ Part(B4, 11, A3, 5)
    <2>1. Sized(B4, 16 + 13)
      BY <1>5, <1>8, Joined
    <2>2. Part(B4, 11, A3, 5)
      BY <1>5, <1>8, PartStays
    <2> QED
      BY <2>1, <2>2
  <1> HIDE DEF B4
  <1>10. Holds(B5, 32)
    <2>1. Sized(B5, 29 + 3) /\ Part(B5, 29, A5, 3)
      BY <1>2, <1>9, Joined
    <2>2. Part(B5, 11, A3, 5)
      BY <1>2, <1>9, PartStays
    <2> QED
      BY <2>1, <2>2
  <1> HIDE DEF B5
  <1>11. ASSUME NEW t, NEW u, NEW n, NEW m, Holds(t, n), Sized(u, m)
         PROVE  Holds(t \o u, n + m)
    <2>1. n \in Nat /\ m \in Nat /\ Sized(t \o u, n + m)
      BY <1>11, Joined
    <2>2. Part(t \o u, 11, A3, 5)
      BY <1>11, <2>1, PartStays
    <2>3. Part(t \o u, 29, A5, 3)
      BY <1>11, <2>1, PartStays
    <2> QED
      BY <1>11, <2>1, <2>2, <2>3
  <1> HIDE DEF Holds
  <1>12. Holds(B10 \o A11, (((((32 + 4) + 2) + 2) + 3) + 1) + 4)
    <2>1. Holds(B6, 32 + 4)
      BY <1>5, <1>10, <1>11
    <2> HIDE DEF B6
    <2>2. Holds(B7, (32 + 4) + 2)
      BY <1>2, <1>11, <2>1
    <2> HIDE DEF B7
    <2>3. Holds(B8, ((32 + 4) + 2) + 2)
      BY <1>5, <1>11, <2>2
    <2> HIDE DEF B8
    <2>4. Holds(B9, (((32 + 4) + 2) + 2) + 3)
      BY <1>2, <1>11, <2>3
    <2> HIDE DEF B9
    <2>5. Holds(B10, ((((32 + 4) + 2) + 2) + 3) + 1)
      BY <1>5, <1>11, <2>4
    <2> HIDE DEF B10
    <2> QED
      BY <1>5, <1>11, <2>5
  <1>13. Part(vector_table, 11, A3, 5) /\ Part(vector_table, 29, A5, 3)
    BY <1>1, <1>12 DEF Holds
  <1>14. vector_table[11 + 5] = "SysTick_Handler" /\ vector_table[29 + 3] = "I2C_Handler"
    BY <1>6, <1>13 DEF Part
  <1>15. /\ 16 + SysTick_IRQn + 1 = 11 + 5
         /\ 16 + I2C_IRQn + 1 = 29 + 3
    BY DEF SysTick_IRQn, I2C_IRQn
  <1> QED
    BY <1>14, <1>15 DEF Handler, Defined

(* HandlersReady (startup.c:115-137, main.c:19-27, i2c.c:347-359): the      *)
(* SysTick handler finds its counter initialised, the I2C handler and the   *)
(* first transaction find the driver set up, at whatever moment the         *)
(* interrupts come, and neither entry of the vector table is Dummy_Handler. *)
THEOREM HandlersAreReady == Spec => HandlersReady
  <1> DEFINE Ready ==
                /\ \A irq \in {SysTick_IRQn, I2C_IRQn} :
                      Take(irq) => /\ Handler(irq) # "Dummy_Handler"
                                   /\ Uses(Handler(irq)) \subseteq ready
                /\ StartTransaction => Uses("I2C_Handler") \subseteq ready /\ regs["I2EN"]
  <1>1. IInv => Ready
    <2> SUFFICES ASSUME IInv PROVE Ready
      OBVIOUS
    <2>1. /\ Uses("SysTick_Handler") = {"msTicks"}
          /\ Uses("I2C_Handler") = {"I2C0.i2c", "I2C0.active_transaction",
                                    "I2C0.transaction_queue"}
      BY DEF Uses
    <2>2. pc > Dev + 30 => Uses("I2C_Handler") \subseteq ready /\ regs["I2EN"]
      <3>1. pc > Dev + 30 => pc > Dev + 27 /\ pc > Dev + 28 /\ pc > Dev + 29
        BY InvFacts
      <3> QED
        BY <2>1, <3>1, InvFacts
    <2>3. ASSUME Take(SysTick_IRQn)
          PROVE  /\ Handler(SysTick_IRQn) # "Dummy_Handler"
                 /\ Uses(Handler(SysTick_IRQn)) \subseteq ready
      <3>1. SysTick_IRQn \in pending
        BY <2>3 DEF Take
      <3> QED
        BY <2>1, <3>1, InvFacts, VectorTable
    <2>4. ASSUME Take(I2C_IRQn)
          PROVE  /\ Handler(I2C_IRQn) # "Dummy_Handler"
                 /\ Uses(Handler(I2C_IRQn)) \subseteq ready
      <3>1. I2C_IRQn \in pending
        BY <2>4 DEF Take
      <3>2. pc > Dev + 30
        BY <3>1, InvFacts
      <3> QED
        BY <2>2, <3>2, VectorTable
    <2>5. ASSUME StartTransaction
          PROVE  Uses("I2C_Handler") \subseteq ready /\ regs["I2EN"]
      <3>1. Now.op = "bmw_ui_init" /\ ~Booted
        BY <2>5 DEF StartTransaction, Next_is
      <3>2. pc = Dev + 31
        BY <3>1, Running, OtherPlaces
      <3>3. pc > Dev + 30
        BY <3>2, InvFacts
      <3> QED
        BY <2>2, <3>3
    <2> QED
      BY <2>3, <2>4, <2>5
  <1>2. Spec => []IInv
    BY SetUp
  <1>3. IInv /\ [Next]_vars => [Ready]_vars
    BY <1>1
  <1> QED
    BY <1>2, <1>3, PTL DEF Spec, HandlersReady
----------------------------------------------------------------------------
(* The clock of the core, at every place.                                   *)
LEMMA CoreRuns ==
    ASSUME IInv
    PROVE  /\ CoreClock \in 1 .. MaxClock
           /\ pc > SelBegin + 5 => CoreClock = Chosen(cfg) \div cfg.ahbdiv
  <1>1. /\ cfg \in Configs /\ MainReady
    BY DEF IInv, TypeInv
  <1>2. /\ SelBegin \in Nat /\ pc \in Nat
    BY Places, InvFacts
  <1> DEFINE c == Chosen(cfg)
             d == cfg.ahbdiv
             q == c \div d
  <1>3. /\ c \in Nat /\ d \in 1 .. 255 /\ q \in Nat /\ c \in 1 .. MaxClock
        /\ q \in 1 .. MaxClock
    <2>1. c \in 1 .. MaxClock /\ q \in 1000 .. MaxClock
      BY <1>1, GivesClock
    <2>2. d \in 1 .. 255
      BY <1>1, GivesClock, SMT DEF Wizard
    <2> HIDE DEF c, d, q
    <2> QED
      BY <2>1, <2>2, MaxClockNat
  <1>4. regs["SYSAHBCLKDIV"] = IF pc > SelBegin + 5 THEN d ELSE 1
    BY <1>1 DEF MainReady
  <1>5. mainSource = 0 \/ (pc > SelBegin + 2 /\ mainSource = cfg.mainsel)
    BY <1>1 DEF MainReady
  <1>6. pc > SelBegin + 4 => mainSource = cfg.mainsel
    BY <1>1 DEF MainReady
  <1>7. mainSource = cfg.mainsel /\ pc > SelBegin => MainClock = c
    BY ChosenRuns
  <1> HIDE DEF c, d
  <1>8. CASE pc > SelBegin + 5
    <2>1. MainClock = c
      BY <1>2, <1>6, <1>7, <1>8
    <2>2. CoreClock = q
      BY <1>4, <1>8, <2>1 DEF CoreClock
    <2> HIDE DEF q
    <2>3. CoreClock \in 1 .. MaxClock
      BY <1>3, <2>2
    <2> QED
      BY <2>2, <2>3 DEF c, d, q
  <1>9. CASE ~(pc > SelBegin + 5)
    <2>1. CoreClock = MainClock \div 1
      BY <1>4, <1>9 DEF CoreClock
    <2>2. CASE mainSource = 0
      <3>1. MainClock = IRC
        BY <2>2 DEF MainClock
      <3>2. IRC \in Nat /\ IRC >= 1 /\ IRC <= MaxClock
        BY SMT DEF IRC, MaxClock
      <3>3. IRC \div 1 = IRC
        BY <3>2, SMT
      <3>4. IRC \in 1 .. MaxClock
        BY <3>2, MaxClockNat
      <3> QED
        BY <1>9, <2>1, <3>1, <3>3, <3>4
    <2>3. CASE pc > SelBegin + 2 /\ mainSource = cfg.mainsel
      <3>1. MainClock = c
        BY <1>2, <1>7, <2>3
      <3>2. c \div 1 = c
        BY <1>3, SMT
      <3> QED
        BY <1>3, <1>9, <2>1, <3>1, <3>2
    <2> QED
      BY <1>5, <2>2, <2>3
  <1> QED
    BY <1>8, <1>9

(* What SystemCoreClock says, and the tick that is set from it.             *)
LEMMA ClockKnown ==
    ASSUME IInv, Booted
    PROVE  /\ SystemCoreClock = CoreClock
           /\ ~cfg.bypass => MacroClock = CoreClock
           /\ regs["TICKINT"] = TRUE
           /\ regs["LOAD"] + 1 = CoreClock \div 1000
  <1>1. pc > Dev + 34 /\ pc \in Nat /\ Dev \in Nat
    BY BootedIs, InvFacts
  <1>2. pc > SelBegin + 5 /\ pc > Upd /\ pc > Upd + 1 /\ pc > Upd + 2
    BY <1>1, Places
  <1>3. SystemCoreClock = CoreClock /\ SystemCoreClock \in 1000 .. MaxClock
    BY <1>2, CoreRuns, TickFits
  <1>4. cfg \in Configs /\ TickReady
    BY DEF IInv, TypeInv
  <1>5. ~cfg.bypass => MacroClock = CoreClock
    BY <1>2, <1>4, ChosenCompiled, CoreRuns
  <1>6. regs["TICKINT"] = TRUE /\ regs["LOAD"] = SystemCoreClock \div 1000 - 1
    BY <1>2, <1>4 DEF TickReady
  <1>7. SystemCoreClock \in Nat
    BY <1>3, MaxClockNat
  <1>8. SystemCoreClock \div 1000 \in Nat
    BY <1>7, SMT
  <1> DEFINE q == SystemCoreClock \div 1000
  <1>9. regs["LOAD"] = q - 1 /\ q \in Nat
    BY <1>6, <1>8
  <1> HIDE DEF q
  <1>10. regs["LOAD"] + 1 = q
    BY <1>9
  <1> QED
    BY <1>3, <1>5, <1>6, <1>10 DEF q

(* With the settings as shipped.                                            *)
LEMMA ShippedClock ==
    ASSUME IInv, Booted, cfg = Shipped
    PROVE  CoreClock = SPI_PCLK /\ UartClock = SPI_PCLK /\ SspClock = SPI_PCLK
  <1>1. pc > SelBegin + 5 /\ pc > SelBegin + 4 /\ pc > SelBegin
        /\ pc > SelBegin + 7 /\ pc > SelBegin + 8
    BY BootedIs, InvFacts, Places
  <1>2. CoreClock = Chosen(Shipped) \div Shipped.ahbdiv
    BY <1>1, CoreRuns
  <1>3. Chosen(Shipped) = IRC * 4
    <2>1. /\ Shipped.mainsel = 3 /\ Shipped.bypass = FALSE /\ Shipped.m = 4
          /\ Shipped.pllsel = 0
      BY DEF Shipped
    <2>2. PllIn(Shipped) = IRC
      BY <2>1 DEF PllIn
    <2>3. Chosen(Shipped) = PllIn(Shipped) * Shipped.m
      BY <2>1, ChosenIs, ConfigAssumption
    <2> QED
      BY <2>1, <2>2, <2>3
  <1>4. Shipped.ahbdiv = 1
    BY DEF Shipped
  <1>5. CoreClock = SPI_PCLK
    BY <1>2, <1>3, <1>4, SMT DEF IRC, SPI_PCLK
  <1>6. MainClock = SPI_PCLK
    <2>1. mainSource = cfg.mainsel
      BY <1>1 DEF IInv, MainReady
    <2>2. MainClock = Chosen(Shipped)
      BY <1>1, <2>1, ChosenRuns
    <2> QED
      BY <1>3, <2>2, SMT DEF IRC, SPI_PCLK
  <1>7. regs["SSP0CLKDIV"] = 1 /\ regs["UARTCLKDIV"] = 1
    BY <1>1 DEF IInv, DividersReady, SSP0CLKDIV_Val, UARTCLKDIV_Val
  <1>8. UartClock = MainClock \div 1 /\ SspClock = MainClock \div 1
    BY <1>7 DEF UartClock, SspClock, PeripheralClock
  <1>9. UartClock = SPI_PCLK /\ SspClock = SPI_PCLK
    BY <1>6, <1>8, SMT DEF SPI_PCLK
  <1> QED
    BY <1>5, <1>9

LEMMA Divided ==
    ASSUME NEW n \in Nat, NEW d \in Nat \ {0}
    PROVE  n \div d \in Nat /\ (n % d = 0 => d * (n \div d) = n)
  <1>1. n \div d \in Nat
    OBVIOUS
  <1>2. n % d = n - d * (n \div d)
    OBVIOUS
  <1>3. d * (n \div d) \in Nat
    BY <1>1
  <1> DEFINE e == d * (n \div d)
             r == n % d
  <1>4. e \in Nat /\ r = n - e
    BY <1>2, <1>3
  <1> HIDE DEF e, r
  <1>5. r = 0 => e = n
    BY <1>4
  <1> QED
    BY <1>1, <1>5 DEF e, r

(* The divisor of the SPI is even, within its field, and the least one that *)
(* does not exceed the speed asked for.                                     *)
LEMMA CpsrIs ==
    ASSUME NEW speed \in Nat \ {0}
    PROVE  /\ Cpsr(speed) \in {2 * k : k \in 1 .. 127}
           /\ SPI_PCLK % speed = 0 /\ SPI_PCLK \div speed <= 254
                 => /\ SPI_PCLK \div Cpsr(speed) <= speed
                    /\ Cpsr(speed) = 2 \/ speed * (Cpsr(speed) - 2) < SPI_PCLK
  <1> DEFINE c == SPI_PCLK \div speed
             even == c + (c % 2)
             r == IF even < 2 THEN 2 ELSE IF even > 254 THEN 254 ELSE even
  <1>1. Cpsr(speed) = r
    BY DEF Cpsr
  <1>2. SPI_PCLK \in Nat
    BY SMT DEF SPI_PCLK
  <1>3. c \in Nat /\ (SPI_PCLK % speed = 0 => speed * c = SPI_PCLK)
    BY <1>2, Divided
  <1> HIDE DEF c
  <1>4. PICK h \in Nat : even = 2 * h /\ even >= c /\ even <= c + 1
    <2> DEFINE g == c \div 2
               b == c % 2
    <2>1. (b = 0 \/ b = 1) /\ b = c - 2 * g /\ g \in Nat
      BY <1>3, SMT
    <2>2. (b = 0 \/ b = 1) /\ b = c - 2 * g /\ g \in Nat /\ even = c + b
      BY <2>1
    <2> HIDE DEF g, b, even
    <2>3. even = 2 * (g + b) /\ even >= c /\ even <= c + 1 /\ g + b \in Nat
      BY <1>3, <2>2, SMT
    <2> QED
      BY <2>3
  <1> HIDE DEF even
  <1>5. PICK k \in 1 .. 127 : r = 2 * k
    <2>1. CASE h = 0
      BY <1>4, <2>1
    <2>2. CASE h \in 1 .. 127
      BY <1>4, <2>2
    <2>3. CASE h > 127
      BY <1>4, <2>3
    <2> QED
      BY <1>4, <2>1, <2>2, <2>3
  <1>6. /\ c <= 254 => r >= c
        /\ r = 2 \/ r <= c + 1
    BY <1>3, <1>4
  <1> HIDE DEF r
  <1>7. ASSUME SPI_PCLK % speed = 0, c <= 254
        PROVE  SPI_PCLK \div r <= speed
    <2>1. PICK n \in Nat : n = SPI_PCLK
      BY <1>2
    <2>2. n = speed * c
      BY <1>3, <1>7, <2>1
    <2>3. r \in Nat \ {0} /\ r >= c
      BY <1>5, <1>6, <1>7
    <2>4. speed * c <= speed * r
      BY <1>3, <2>3, SMT
    <2>5. n \div r \in Nat /\ (n \div r) * r <= n
      BY <2>3, SMT
    <2> DEFINE q == n \div r
    <2>6. q \in Nat /\ q * r <= speed * r
      BY <2>2, <2>4, <2>5, <2>3, <1>3
    <2> HIDE DEF q
    <2>7. q <= speed
      BY <2>3, <2>6, SMT
    <2> QED
      BY <2>1, <2>7 DEF q
  <1>8. ASSUME SPI_PCLK % speed = 0, r # 2
        PROVE  speed * (r - 2) < SPI_PCLK
    <2>1. PICK n \in Nat : n = SPI_PCLK
      BY <1>2
    <2>2. n = speed * c
      BY <1>3, <1>8, <2>1
    <2>3. PICK d \in Nat : d = r - 2 /\ d < c
      <3>1. r \in Nat /\ r >= 2 /\ r <= c + 1
        BY <1>5, <1>6, <1>8
      <3>2. r - 2 \in Nat /\ r - 2 < c
        BY <1>3, <3>1
      <3> QED
        BY <3>2
    <2>4. speed * d < speed * c
      <3>1. speed * c = speed * d + speed * (c - d)
        BY <1>3, <2>3, SMT
      <3>2. c - d \in Nat \ {0}
        BY <1>3, <2>3
      <3>3. speed * (c - d) > 0
        BY <3>2, SMT
      <3>4. speed * c \in Nat /\ speed * d \in Nat /\ speed * (c - d) \in Nat
        BY <1>3, <2>3, <3>2, SMT
      <3> QED
        BY <3>1, <3>3, <3>4
    <2> QED
      BY <2>1, <2>2, <2>3, <2>4
  <1> QED
    BY <1>1, <1>5, <1>7, <1>8 DEF c

LEMMA NearWhen ==
    ASSUME NEW a \in Nat, NEW b \in Nat, b <= a, a - b <= b \div 500
    PROVE  Near(a, b)
  <1> DEFINE c == b \div 500
  <1>1. c \in Nat /\ a - b <= c
    BY SMT
  <1> HIDE DEF c
  <1>2. a - b \in -c .. c
    BY <1>1
  <1> QED
    BY <1>2 DEF c, Near

LEMMA BusesRun ==
    ASSUME IInv, Booted, cfg = Shipped
    PROVE  UartAsDocumented /\ I2CAsDocumented /\ SpiAsAsked /\ AdcAsDocumented
  <1>1. CoreClock = SPI_PCLK /\ UartClock = SPI_PCLK /\ SspClock = SPI_PCLK
    BY ShippedClock
  <1>2. pc > Dev + 34 /\ pc \in Nat /\ Dev \in Nat
    BY BootedIs, InvFacts
  <1>3. UartAsDocumented
    <2>1. /\ regs["LCR"] = "8N1" /\ regs["TER"] = TRUE /\ regs["PIO1_6"] = 1
          /\ regs["PIO1_7"] = 1 /\ regs["DLL"] = 15 /\ regs["DLM"] = 0
          /\ regs["FDR"] = [mul |-> 15, add |-> 11]
      BY <1>2 DEF IInv, UartReady
    <2>2. regs["FDR"].mul = 15 /\ regs["FDR"].add = 11
      BY <2>1
    <2> DEFINE a == UartClock * regs["FDR"].mul
               b == 115200 * 16 * (256 * regs["DLM"] + regs["DLL"])
                           * (regs["FDR"].mul + regs["FDR"].add)
    <2>3. a = 720000000
      <3>1. a = SPI_PCLK * 15
        BY <1>1, <2>2
      <3> HIDE DEF a
      <3> QED
        BY <3>1, SMT DEF SPI_PCLK
    <2>4. b = 718848000
      <3>1. 256 * regs["DLM"] + regs["DLL"] = 15 /\ regs["FDR"].mul + regs["FDR"].add = 26
        BY <2>1, <2>2
      <3>2. b = 115200 * 16 * 15 * 26
        BY <3>1, SMT
      <3> HIDE DEF b
      <3> QED
        BY <3>2, SMT
    <2> HIDE DEF a, b
    <2>5. a \in Nat /\ b \in Nat /\ b <= a /\ a - b <= b \div 500
      BY <2>3, <2>4, SMT
    <2>6. Near(a, b)
      BY <2>5, NearWhen
    <2> QED
      BY <2>1, <2>6 DEF UartAsDocumented, a, b
  <1>4. I2CAsDocumented
    <2>1. /\ regs["I2EN"] = TRUE /\ regs["PIO0_4"] = 1 /\ regs["PIO0_5"] = 1
          /\ regs["SCLL"] = 60 /\ regs["SCLH"] = 60
      BY <1>2 DEF IInv, I2CReady
    <2>2. 400000 * (60 + 60) = SPI_PCLK
      BY SMT DEF SPI_PCLK
    <2> QED
      BY <1>1, <2>1, <2>2 DEF I2CAsDocumented
  <1>5. SpiAsAsked
    <2>1. /\ regs["SSE"] = TRUE /\ regs["PIO0_8"] = 1 /\ regs["PIO0_9"] = 1
          /\ regs["PIO0_6"] = 2 /\ regs["CPSR"] = IF asked = 0 THEN 2 ELSE Cpsr(asked)
          /\ asked = 0 \/ asked \in Speeds
      BY <1>2 DEF IInv, SpiReady
    <2>2. CASE asked = 0
      <3>1. 2 \in {2 * k : k \in 1 .. 127}
        OBVIOUS
      <3> QED
        BY <1>1, <2>1, <2>2, <3>1 DEF SpiAsAsked
    <2>3. CASE asked # 0
      <3>1. asked \in Nat \ {0}
        BY <2>1, <2>3, ConfigAssumption
      <3>2. /\ Cpsr(asked) \in {2 * k : k \in 1 .. 127}
            /\ SPI_PCLK % asked = 0 /\ SPI_PCLK \div asked <= 254
                  => /\ SPI_PCLK \div Cpsr(asked) <= asked
                     /\ Cpsr(asked) = 2 \/ asked * (Cpsr(asked) - 2) < SPI_PCLK
        BY <3>1, CpsrIs
      <3> QED
        BY <1>1, <2>1, <2>3, <3>2 DEF SpiAsAsked
    <2> QED
      BY <2>2, <2>3
  <1>6. AdcAsDocumented
    <2>1. regs["CHANNEL"] # NoChannel => regs["CLKDIV"] = 10
      BY DEF IInv, AdcReady
    <2>2. SPI_PCLK \div (10 + 1) <= 4500000
      BY SMT DEF SPI_PCLK
    <2> QED
      BY <1>1, <2>1, <2>2 DEF AdcAsDocumented
  <1> QED
    BY <1>3, <1>4, <1>5, <1>6

(* ClocksAsDocumented (system_LPC11xx.c, uart.c:8-47, spi.c:24-84,          *)
(* i2c.c:326-360, adc.c:7-51): the core has a clock of at most 50 MHz at    *)
(* every place of the program, SystemCoreClock is that clock afterwards,    *)
(* and with the settings as shipped every bus has the rate documented.      *)
THEOREM ClocksAreAsDocumented == Spec => []ClocksAsDocumented
  <1>1. ASSUME IInv PROVE ClocksAsDocumented
    <2>1. CoreClock \in 1 .. MaxClock
      BY <1>1, CoreRuns
    <2>2. ASSUME Booted
          PROVE  /\ SystemCoreClock = CoreClock
                 /\ ~cfg.bypass => MacroClock = CoreClock
                 /\ regs["TICKINT"] /\ regs["LOAD"] + 1 = CoreClock \div 1000
      BY <1>1, <2>2, ClockKnown
    <2>3. Booted /\ cfg = Shipped
             => UartAsDocumented /\ I2CAsDocumented /\ SpiAsAsked /\ AdcAsDocumented
      BY <1>1, BusesRun
    <2> QED
      BY <2>1, <2>2, <2>3, Zenon DEF ClocksAsDocumented
  <1>2. IInv => ClocksAsDocumented
    BY <1>1
  <1> QED
    BY <1>2, SetUp, PTL
=============================================================================
