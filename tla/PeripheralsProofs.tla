-------------------------- MODULE PeripheralsProofs --------------------------
(***************************************************************************)
(* Theorems about MMIO windows, LEDs and gpio_poll_multiple(), each for    *)
(* every value of its constants, and about a process that has all of them  *)
(* and the SPI and I2C handles of BusProofs.                               *)
(***************************************************************************)
EXTENDS Peripherals, BusProofs, FiniteSetTheorems, TLAPS

-----------------------------------------------------------------------------
(* MMIO: arithmetic *)

LEMMA ModRange == ASSUME NEW n \in Nat, NEW m \in Nat \ {0}
                  PROVE  n % m \in 0 .. m - 1 /\ n % m <= n
  OBVIOUS

LEMMA ModSmall == ASSUME NEW m \in Nat \ {0}, NEW n \in 0 .. m - 1
                  PROVE  n % m = n
  OBVIOUS

LEMMA ModRounded == ASSUME NEW n \in Nat, NEW m \in Nat \ {0}
                    PROVE  (n - (n % m)) % m = 0
<1> DEFINE q == n \div m
           d == (n - (n % m)) \div m
           r == (n - (n % m)) % m
<1>1. q \in Nat /\ n - (n % m) = m * q
  OBVIOUS
<1>2. m * q \in Nat
  BY <1>1
<1>3. d \in Nat /\ r \in 0 .. m - 1 /\ m * q = m * d + r
  BY <1>1, <1>2
<1> HIDE DEF q, d, r
<1>4. q <= d
  <2> SUFFICES ASSUME q >= d + 1 PROVE FALSE
    BY <1>1, <1>3
  <2>1. PICK k \in Nat : q = d + 1 + k
    BY <1>1, <1>3
  <2>2. m * q = m * d + m + m * k /\ m * k \in Nat
    BY <1>3, <2>1
  <2> QED
    BY <1>3, <2>2
<1> QED
  BY <1>1, <1>3, <1>4 DEF r

LEMMA WrappedRange == ASSUME NEW n \in Nat
                      PROVE  Wrapped(n) \in 0 .. Word - 1
  BY WordAssumption, ModRange DEF Wrapped

(* The boundary of pages below b, which is less than a page away. *)
LEMMA Aligned ==
  ASSUME NEW b \in 0 .. Word - 1
  PROVE  /\ AlignedBase(b) \in 0 .. Word - 1
         /\ AlignedBase(b) % Page = 0
         /\ b - AlignedBase(b) \in 0 .. Page - 1
<1> DEFINE r == b % Page
<1>0. b \in Nat /\ Page \in Nat \ {0} /\ Word \in Nat
  BY WordAssumption
<1>1. r \in 0 .. Page - 1 /\ r <= b
  BY <1>0, ModRange
<1>2. (b - r) % Page = 0
  BY <1>0, ModRounded
<1>3. AlignedBase(b) = b - r
  BY DEF AlignedBase
<1> HIDE DEF r
<1>4. b - r \in 0 .. Word - 1 /\ b - (b - r) = r
  BY <1>0, <1>1
<1> QED
  BY <1>1, <1>2, <1>3, <1>4

LEMMA PagesCover == ASSUME NEW n \in Nat
                    PROVE  Pages(n) \in Nat /\ n <= Pages(n)
<1> DEFINE r == n % Page
           t == (Page - r) % Page
<1>0. Page \in Nat \ {0}
  BY WordAssumption
<1>1. r \in 0 .. Page - 1
  BY <1>0, ModRange
<1>2. Page - r \in Nat
  BY <1>0, <1>1
<1>3. t \in 0 .. Page - 1
  BY <1>0, <1>2, ModRange
<1>4. Pages(n) = n + t
  BY DEF Pages
<1> HIDE DEF t
<1> QED
  BY <1>0, <1>3, <1>4

-----------------------------------------------------------------------------
(* The inductive invariant: the aligned numbers are those of the window. *)

Windowed ==
  \A h \in MmioHandles :
    ptr[h] = "mapped" => aligned_size[h] = Wrapped(size[h] + Shift(h))

MmioInv == MmioTypeOK /\ MappingsOwned /\ Windowed

NatPair == [first : Nat, length : Nat]

LEMMA InitMmioInv == ASSUME MmioInit PROVE MmioInv
<1>0. Word \in Nat /\ Page \in Nat \ {0} /\ 0 \in 0 .. Word - 1 /\ 0 \in 0 .. Page - 1
  BY WordAssumption
<1>1. 0 % Page = 0
  BY <1>0, ModSmall
<1>2. MmioTypeOK
  BY <1>0, <1>1 DEF MmioInit, MmioTypeOK, Shift, NoMapping, Nowhere
<1>3. MappingsOwned
  BY DEF MmioInit, MappingsOwned
<1>4. Windowed
  BY DEF MmioInit, Windowed
<1> QED
  BY <1>2, <1>3, <1>4 DEF MmioInv

(* A call that only returns disturbs nothing. *)
LEMMA MmioReturnsOnly ==
  ASSUME MmioInv, NEW h \in MmioHandles, NEW r \in {"none", "ok", "OPEN", "ARG", "CLOSE"},
         MmioReturnOnly(h, r)
  PROVE  MmioInv'
<1>1. MmioTypeOK'
  BY DEF MmioInv, MmioTypeOK, MmioReturnOnly, MmioReturn, Nowhere, window, Shift
<1>2. MappingsOwned'
  BY DEF MmioInv, MappingsOwned, MmioReturnOnly, window, Fits, Shift
<1>3. Windowed'
  BY DEF MmioInv, Windowed, MmioReturnOnly, window, Shift
<1> QED
  BY <1>1, <1>2, <1>3 DEF MmioInv

LEMMA MmioOpenKeeps ==
  ASSUME MmioInv, NEW h \in MmioHandles, NEW b \in Bases, NEW s \in Sizes, MmioOpen(h, b, s)
  PROVE  MmioInv'
<1> DEFINE ab == AlignedBase(b)
           as == AlignedSize(b, s)
<1>0. /\ Word \in Nat \ {0} /\ Page \in Nat \ {0}
      /\ b \in 0 .. Word - 1 /\ s \in 0 .. Word - 1
  BY WordAssumption
<1>1. ab \in 0 .. Word - 1 /\ ab % Page = 0 /\ b - ab \in 0 .. Page - 1
  BY <1>0, Aligned
<1>2. as = Wrapped(s + (b - ab))
  BY DEF AlignedSize
<1>3. as \in 0 .. Word - 1 /\ as \in Nat
  <2>1. s + (b - ab) \in Nat
    BY <1>0, <1>1
  <2> QED
    BY <1>0, <1>2, <2>1, WrappedRange
<1>4. Pages(as) \in Nat /\ as <= Pages(as)
  BY <1>3, PagesCover
<1>5. /\ base' = [base EXCEPT ![h] = b] /\ size' = [size EXCEPT ![h] = s]
      /\ aligned_base' = [aligned_base EXCEPT ![h] = ab]
      /\ aligned_size' = [aligned_size EXCEPT ![h] = as]
  BY DEF MmioOpen
<1>6. \/ \E p \in {"null", "failed"} : ptr' = [ptr EXCEPT ![h] = p] /\ mapped' = mapped
      \/ /\ ptr' = [ptr EXCEPT ![h] = "mapped"] /\ ab + Pages(as) <= Word
         /\ mapped' = [mapped EXCEPT ![h] = [first |-> ab, length |-> Pages(as)]]
  BY DEF MmioOpen, CanMap
<1>7. mmio_ret' \in [MmioHandles -> {"none", "ok", "OPEN", "ARG", "CLOSE"}]
      /\ mmio_got' \in [MmioHandles -> NatPair]
  <2>1. PICK r \in {"ok", "OPEN"} : MmioReturn(h, r)
    BY DEF MmioOpen
  <2>2. /\ mmio_ret \in [MmioHandles -> {"none", "ok", "OPEN", "ARG", "CLOSE"}]
        /\ mmio_got \in [MmioHandles -> NatPair]
    BY DEF MmioInv, MmioTypeOK, NatPair
  <2>3. Nowhere \in NatPair
    BY DEF Nowhere, NatPair
  <2> QED
    BY <2>1, <2>2, <2>3 DEF MmioReturn
<1>8. ptr[h] # "mapped" /\ mapped[h] = NoMapping
  BY DEF MmioOpen, MmioInv, MappingsOwned
<1> HIDE DEF ab, as
<1>9. /\ base'[h] = b /\ size'[h] = s /\ aligned_base'[h] = ab /\ aligned_size'[h] = as
      /\ \A g \in MmioHandles \ {h} :
           /\ base'[g] = base[g] /\ size'[g] = size[g]
           /\ aligned_base'[g] = aligned_base[g] /\ aligned_size'[g] = aligned_size[g]
           /\ ptr'[g] = ptr[g] /\ mapped'[g] = mapped[g]
  BY <1>5, <1>6 DEF MmioInv, MmioTypeOK
<1>10. \/ ptr'[h] # "mapped" /\ mapped'[h] = NoMapping
       \/ /\ ptr'[h] = "mapped" /\ ab + Pages(as) <= Word
          /\ mapped'[h].first = ab /\ mapped'[h].length = Pages(as)
  <2>1. /\ ptr \in [MmioHandles -> {"null", "failed", "mapped"}]
        /\ mapped \in [MmioHandles -> NatPair]
    BY DEF MmioInv, MmioTypeOK, NatPair
  <2>2. CASE \E p \in {"null", "failed"} : ptr' = [ptr EXCEPT ![h] = p] /\ mapped' = mapped
    BY <1>8, <2>1, <2>2
  <2>3. CASE /\ ptr' = [ptr EXCEPT ![h] = "mapped"] /\ ab + Pages(as) <= Word
             /\ mapped' = [mapped EXCEPT ![h] = [first |-> ab, length |-> Pages(as)]]
    BY <2>1, <2>3
  <2> QED
    BY <1>6, <2>2, <2>3
<1>11. MmioTypeOK'
  <2>1. /\ base' \in [MmioHandles -> 0 .. Word - 1] /\ size' \in [MmioHandles -> 0 .. Word - 1]
        /\ aligned_base' \in [MmioHandles -> 0 .. Word - 1]
        /\ aligned_size' \in [MmioHandles -> 0 .. Word - 1]
    BY <1>0, <1>1, <1>3, <1>5 DEF MmioInv, MmioTypeOK
  <2>2. ASSUME NEW g \in MmioHandles
        PROVE  aligned_base'[g] % Page = 0 /\ base'[g] - aligned_base'[g] \in 0 .. Page - 1
    <3>1. CASE g = h
      BY <3>1, <1>1, <1>9
    <3>2. CASE g # h
      BY <3>2, <1>9 DEF MmioInv, MmioTypeOK, Shift
    <3> QED
      BY <3>1, <3>2
  <2>3. ptr' \in [MmioHandles -> {"null", "failed", "mapped"}]
    BY <1>6 DEF MmioInv, MmioTypeOK
  <2>4. mapped' \in [MmioHandles -> NatPair]
    <3>1. [first |-> ab, length |-> Pages(as)] \in NatPair
      <4>1. ab \in Nat
        BY <1>0, <1>1
      <4> QED
        BY ONLY <4>1, <1>4 DEF NatPair
    <3>2. mapped \in [MmioHandles -> NatPair]
      BY DEF MmioInv, MmioTypeOK, NatPair
    <3> QED
      BY <1>6, <3>1, <3>2
  <2> QED
    BY <1>7, <2>1, <2>2, <2>3, <2>4 DEF MmioTypeOK, Shift, NatPair
<1>12. MappingsOwned'
  <2> SUFFICES ASSUME NEW g \in MmioHandles
      PROVE /\ ptr'[g] # "mapped" => mapped'[g] = NoMapping
            /\ ptr'[g] = "mapped" =>
                 /\ mapped'[g].first = aligned_base'[g]
                 /\ aligned_size'[g] <= mapped'[g].length
                 /\ mapped'[g].first + mapped'[g].length <= Word
                 /\ Fits(g)' => base'[g] + size'[g] <= mapped'[g].first + mapped'[g].length
    BY DEF MappingsOwned
  <2>1. CASE g # h
    <3>1. Fits(g)' <=> Fits(g)
      BY <1>9, <2>1 DEF Fits, Shift
    <3> QED
      BY <1>9, <2>1, <3>1 DEF MmioInv, MappingsOwned
  <2>2. CASE g = h /\ ptr'[h] # "mapped"
    BY <1>10, <2>2
  <2>3. CASE g = h /\ ptr'[h] = "mapped"
    <3>1. ab + Pages(as) <= Word /\ mapped'[h].first = ab /\ mapped'[h].length = Pages(as)
      BY <1>10, <2>3
    <3>2. ASSUME Fits(h)' PROVE b + s <= ab + Pages(as)
      <4>1. s + (b - ab) \in 0 .. Word - 1
        BY ONLY <3>2, <1>0, <1>1, <1>9 DEF Fits, Shift
      <4>2. as = s + (b - ab)
        BY <1>0, <1>2, <4>1, ModSmall DEF Wrapped
      <4> QED
        BY ONLY <1>0, <1>1, <1>4, <4>2
    <3> QED
      BY <1>4, <1>9, <2>3, <3>1, <3>2
  <2> QED
    BY <2>1, <2>2, <2>3
<1>13. Windowed'
  <2> SUFFICES ASSUME NEW g \in MmioHandles, ptr'[g] = "mapped"
      PROVE aligned_size'[g] = Wrapped(size'[g] + (base'[g] - aligned_base'[g]))
    BY DEF Windowed, Shift, Wrapped
  <2>1. CASE g = h
    BY <1>2, <1>9, <2>1
  <2>2. CASE g # h
    BY <1>9, <2>2 DEF MmioInv, Windowed, Shift
  <2> QED
    BY <2>1, <2>2
<1> QED
  BY <1>11, <1>12, <1>13 DEF MmioInv

LEMMA MmioAccessKeeps ==
  ASSUME MmioInv, NEW h \in MmioHandles, NEW off \in Offsets, NEW len \in Lens,
         MmioAccess(h, off, len)
  PROVE  MmioInv'
<1>1. CASE MmioReturnOnly(h, "ARG")
  BY <1>1, MmioReturnsOnly
<1>2. CASE UNCHANGED <<window, ptr, mapped>> /\ mmio_ret' = [mmio_ret EXCEPT ![h] = "ok"]
           /\ mmio_got' = [mmio_got EXCEPT ![h] =
                             [first  |-> mapped[h].first + Wrapped(off + Shift(h)),
                              length |-> len]]
  <2>1. Word \in Nat \ {0} /\ off \in Nat /\ len \in Nat
    BY WordAssumption
  <2>2. Shift(h) \in Nat /\ mapped[h].first \in Nat
    BY WordAssumption DEF MmioInv, MmioTypeOK
  <2>3. off + Shift(h) \in Nat
    BY <2>1, <2>2
  <2>4. Wrapped(off + Shift(h)) \in Nat
    BY <2>1, <2>3, WrappedRange
  <2>5. [first |-> mapped[h].first + Wrapped(off + Shift(h)), length |-> len] \in NatPair
    BY <2>1, <2>2, <2>4 DEF NatPair
  <2>6. mmio_got \in [MmioHandles -> NatPair]
    BY DEF MmioInv, MmioTypeOK, NatPair
  <2>7. mmio_got' \in [MmioHandles -> NatPair]
    BY <1>2, <2>5, <2>6
  <2>8. MmioTypeOK'
    BY <1>2, <2>7 DEF MmioInv, MmioTypeOK, window, Shift, NatPair
  <2>9. MappingsOwned'
    BY <1>2 DEF MmioInv, MappingsOwned, window, Fits, Shift
  <2>10. Windowed'
    BY <1>2 DEF MmioInv, Windowed, window, Shift
  <2> QED
    BY <2>8, <2>9, <2>10 DEF MmioInv
<1> QED
  BY <1>1, <1>2 DEF MmioAccess

LEMMA MmioCloseKeeps ==
  ASSUME MmioInv, NEW h \in MmioHandles, MmioClose(h)
  PROVE  MmioInv'
<1>1. CASE ptr[h] # "mapped"
  <2>1. MmioReturnOnly(h, "ok") \/ MmioReturnOnly(h, "CLOSE")
    BY <1>1 DEF MmioClose
  <2> QED
    BY <2>1, MmioReturnsOnly
<1>2. CASE ptr[h] = "mapped"
  <2>1. UNCHANGED window /\ Unmaps(h)
    BY <1>2 DEF MmioClose
  <2>2. CASE MmioReturn(h, "CLOSE") /\ UNCHANGED <<ptr, mapped>>
    BY <2>1, <2>2, MmioReturnsOnly DEF MmioReturnOnly
  <2>3. CASE /\ ptr' = [ptr EXCEPT ![h] = "null"] /\ mapped' = [mapped EXCEPT ![h] = NoMapping]
             /\ MmioReturn(h, "ok")
    <3>1. MmioTypeOK'
      BY <2>1, <2>3 DEF MmioInv, MmioTypeOK, MmioReturn, Nowhere, NoMapping, window, Shift
    <3>2. MappingsOwned'
      BY <2>1, <2>3 DEF MmioInv, MappingsOwned, MmioTypeOK, window, Fits, Shift
    <3>3. Windowed'
      BY <2>1, <2>3 DEF MmioInv, Windowed, MmioTypeOK, window, Shift
    <3> QED
      BY <3>1, <3>2, <3>3 DEF MmioInv
  <2> QED
    BY <2>1, <2>2, <2>3 DEF Unmaps
<1> QED
  BY <1>1, <1>2

LEMMA MmioStepKeeps == ASSUME MmioInv, [MmioNext]_mmioVars PROVE MmioInv'
<1>1. CASE MmioNext
  BY <1>1, MmioOpenKeeps, MmioAccessKeeps, MmioCloseKeeps DEF MmioNext
<1>2. CASE UNCHANGED mmioVars
  <2>1. MmioTypeOK'
    BY <1>2 DEF MmioInv, MmioTypeOK, mmioVars, window, Shift
  <2>2. MappingsOwned' /\ Windowed'
    BY <1>2 DEF MmioInv, MappingsOwned, Windowed, mmioVars, window, Fits, Shift
  <2> QED
    BY <2>1, <2>2 DEF MmioInv
<1> QED
  BY <1>1, <1>2

(* Without wrapping, the check compares the access with the window itself. *)
LEMMA CheckExact ==
  ASSUME MmioInv, NEW h \in MmioHandles, NEW off \in Offsets, NEW len \in Lens,
         ptr[h] = "mapped", Fits(h), off + Shift(h) + len < Word
  PROVE  /\ InBounds(h, off, len) <=> off + len <= size[h]
         /\ mapped[h].first + Wrapped(off + Shift(h)) = base[h] + off
<1>1. Word \in Nat \ {0} /\ off \in Nat /\ len \in Nat
  BY WordAssumption
<1>2. Shift(h) \in Nat /\ size[h] \in Nat /\ base[h] \in Nat /\ aligned_base[h] \in Nat
  BY WordAssumption DEF MmioInv, MmioTypeOK
<1>3. off + Shift(h) \in 0 .. Word - 1 /\ off + Shift(h) + len \in 0 .. Word - 1
  BY <1>1, <1>2
<1>4. Wrapped(off + Shift(h)) = off + Shift(h)
  BY <1>1, <1>3, ModSmall DEF Wrapped
<1>5. Wrapped(off + Shift(h) + len) = off + Shift(h) + len
  BY <1>1, <1>3, ModSmall DEF Wrapped
<1>6. aligned_size[h] = size[h] + Shift(h)
  <2>1. size[h] + Shift(h) \in 0 .. Word - 1
    BY <1>1, <1>2 DEF Fits
  <2>2. Wrapped(size[h] + Shift(h)) = size[h] + Shift(h)
    BY <1>1, <2>1, ModSmall DEF Wrapped
  <2> QED
    BY <2>2 DEF MmioInv, Windowed
<1>7. InBounds(h, off, len) <=> off + Shift(h) + len <= size[h] + Shift(h)
  BY <1>4, <1>5, <1>6 DEF InBounds
<1>8. off + Shift(h) + len <= size[h] + Shift(h) <=> off + len <= size[h]
  BY <1>1, <1>2
<1>9. mapped[h].first = aligned_base[h]
  BY DEF MmioInv, MappingsOwned
<1>10. aligned_base[h] + (off + Shift(h)) = base[h] + off
  BY <1>1, <1>2 DEF Shift
<1> QED
  BY <1>4, <1>7, <1>8, <1>9, <1>10

LEMMA AccessExact ==
  ASSUME MmioInv, NEW h \in MmioHandles, NEW off \in Offsets, NEW len \in Lens,
         Fits(h), MmioAccess(h, off, len), off + Shift(h) + len < Word
  PROVE  /\ mmio_ret'[h] = "ok" <=> off + len <= size[h]
         /\ mmio_ret'[h] = "ok" => mmio_got'[h] = [first |-> base[h] + off, length |-> len]
<1>1. ptr[h] = "mapped"
  BY DEF MmioAccess
<1>2. /\ InBounds(h, off, len) <=> off + len <= size[h]
      /\ mapped[h].first + Wrapped(off + Shift(h)) = base[h] + off
  BY <1>1, CheckExact
<1>3. mmio_ret \in [MmioHandles -> {"none", "ok", "OPEN", "ARG", "CLOSE"}] /\ DOMAIN mmio_got = MmioHandles
  BY DEF MmioInv, MmioTypeOK
<1>4. CASE ~InBounds(h, off, len)
  <2>1. mmio_ret'[h] = "ARG"
    BY <1>3, <1>4 DEF MmioAccess, MmioReturnOnly, MmioReturn
  <2> QED
    BY <1>2, <1>4, <2>1
<1>5. CASE InBounds(h, off, len)
  <2>1. mmio_ret'[h] = "ok"
    BY <1>3, <1>5 DEF MmioAccess
  <2>2. mmio_got'[h] = [first |-> mapped[h].first + Wrapped(off + Shift(h)), length |-> len]
    BY <1>3, <1>5 DEF MmioAccess
  <2> QED
    BY <1>2, <1>5, <2>1, <2>2
<1> QED
  BY <1>4, <1>5

-----------------------------------------------------------------------------
(* MMIO: the theorems *)

(* The inductive invariant of mmio.c holds throughout. *)
THEOREM MmioInvariance == MmioSpec => []MmioInv
  BY InitMmioInv, MmioStepKeeps, PTL DEF MmioSpec

(* Every field of an mmio_t keeps its type, and the numbers a mapping is asked for
   with are those of whole pages and of one word. *)
THEOREM MmioTypeCorrect == MmioSpec => []MmioTypeOK
<1>1. MmioInv => MmioTypeOK
  BY DEF MmioInv
<1> QED
  BY <1>1, MmioInvariance, PTL

(* No mapping outlives its handle, and none is smaller than the window of mmio_open(). *)
THEOREM MappingsHeld == MmioSpec => []MappingsOwned
<1>1. MmioInv => MappingsOwned
  BY DEF MmioInv
<1> QED
  BY <1>1, MmioInvariance, PTL

(* docs/mmio.md: "Neither `base` nor `size` need be aligned to a page boundary".  An
   access is made exactly when it lies in the window that was asked for, and it is
   made where the window begins plus its offset, as long as no sum wraps. *)
THEOREM BoundsAreExact == MmioSpec => BoundsExact
<1>1. MmioInv /\ [MmioNext]_mmioVars =>
        [\A h \in MmioHandles :
           ptr[h] = "mapped" /\ Fits(h) =>
             \A off \in Offsets, len \in Lens :
               MmioAccess(h, off, len) /\ off + Shift(h) + len < Word =>
                 /\ mmio_ret'[h] = "ok" <=> off + len <= size[h]
                 /\ mmio_ret'[h] = "ok" =>
                      mmio_got'[h] = [first |-> base[h] + off, length |-> len]]_mmioVars
  BY AccessExact
<1> QED
  BY <1>1, MmioInvariance, PTL DEF MmioSpec, BoundsExact

-----------------------------------------------------------------------------
(* LEDs: the inductive invariant *)

LedState == [there : BOOLEAN, brightness : Nat, trigger : TriggerNames]

(* A handle that read the maximum since its name was set names an LED and knows its
   maximum; one that is between the two files of its open is not such a handle. *)
LedKnown(h) ==
  /\ led_pc[h] = "query" => ~max_read[h]
  /\ max_read[h] => /\ led_name[h] \in Leds
                    /\ max_brightness[h] = MaxOf[led_name[h]]

LedInv ==
  /\ LedTypeOK
  /\ leds \in [Leds -> LedState]
  /\ \A h \in LedHandles : LedKnown(h)

(* The LEDs as the kernel keeps them. *)
LedsOK(l) ==
  /\ l \in [Leds -> LedState]
  /\ \A n \in Leds : l[n].brightness \in 0 .. MaxOf[n]

LEMMA LedMaxima ==
  ASSUME NEW n \in Leds
  PROVE  MaxOf[n] \in Nat \ {0}
  BY LedAssumption

LEMMA FirstTrigger == Triggers[1] \in TriggerNames
<1>1. Len(Triggers) \in Nat /\ Len(Triggers) > 0
  BY LedAssumption
<1> QED
  BY <1>1 DEF TriggerNames

LEMMA InitLed == ASSUME LedInit PROVE LedInv
<1>1. Triggers[1] \in TriggerNames
  BY FirstTrigger
<1>2. leds \in [Leds -> LedState]
  BY <1>1 DEF LedInit, LedState
<1>3. \A n \in Leds : /\ leds[n].there \in BOOLEAN /\ leds[n].brightness \in 0 .. MaxOf[n]
                        /\ leds[n].trigger \in TriggerNames
  <2> TAKE n \in Leds
  <2>1. 0 \in 0 .. MaxOf[n]
    BY LedMaxima
  <2>2. leds[n] = [there |-> TRUE, brightness |-> 0, trigger |-> Triggers[1]]
    BY DEF LedInit
  <2> QED
    BY <1>1, <2>1, <2>2
<1>4. streams \in [LedHandles -> 0 .. MaxStreams]
  BY LedAssumption DEF LedInit
<1>5. LedTypeOK
  BY <1>3, <1>4 DEF LedInit, LedTypeOK
<1> QED
  BY <1>2, <1>5 DEF LedInit, LedInv, LedKnown

(* The kernel cuts a brightness at the maximum, which it takes as it is. *)
LEMMA LitKeeps ==
  ASSUME LedInv, NEW n \in Leds, NEW b \in Nat
  PROVE  /\ LedsOK(Lit(n, b))
         /\ b = MaxOf[n] => Lit(n, b)[n].brightness = b
<1> DEFINE c == IF b > MaxOf[n] THEN MaxOf[n] ELSE b
           t == IF b = 0 THEN Triggers[1] ELSE leds[n].trigger
<1>1. leds \in [Leds -> LedState] /\ leds[n] \in LedState
  BY DEF LedInv
<1>2. c \in 0 .. MaxOf[n] /\ c \in Nat /\ (b = MaxOf[n] => c = b)
  BY LedMaxima
<1>3. t \in TriggerNames
  BY <1>1, FirstTrigger DEF LedState
<1>4. Lit(n, b) = [leds EXCEPT ![n] = [leds[n] EXCEPT !.brightness = c, !.trigger = t]]
  BY <1>1 DEF Lit, LedState
<1> HIDE DEF c, t
<1>5. /\ [leds[n] EXCEPT !.brightness = c, !.trigger = t] \in LedState
      /\ [leds[n] EXCEPT !.brightness = c, !.trigger = t].brightness = c
  BY <1>1, <1>2, <1>3 DEF LedState
<1>6. \A m \in Leds : leds[m].brightness \in 0 .. MaxOf[m]
  BY DEF LedInv, LedTypeOK
<1> QED
  BY <1>1, <1>2, <1>4, <1>5, <1>6 DEF LedsOK

LEMMA TriggerKeeps ==
  ASSUME LedInv, NEW n \in Leds, NEW t \in TriggerNames
  PROVE  LedsOK([leds EXCEPT ![n].trigger = t])
  BY DEF LedInv, LedTypeOK, LedsOK, LedState

(* What a call keeps of the handles when it changes no LED for the worse. *)
LEMMA LedKeeps ==
  ASSUME LedInv, LedsOK(leds'),
         led_name' \in [LedHandles -> Leds \cup {NoLed}],
         max_brightness' \in [LedHandles -> {0} \cup {MaxOf[n] : n \in Leds}],
         max_read' \in [LedHandles -> BOOLEAN],
         led_pc' \in [LedHandles -> {"idle", "query"}],
         streams' \in [LedHandles -> 0 .. MaxStreams],
         led_ret' \in [LedHandles -> {"none", "ok", "OPEN", "QUERY", "IO", "ARG"}],
         \A h \in LedHandles : LedKnown(h)'
  PROVE  LedInv'
  BY DEF LedInv, LedTypeOK, LedsOK, LedState

LEMMA LedSame == ASSUME LedInv PROVE LedsOK(leds)
  BY DEF LedInv, LedTypeOK, LedsOK

(* A call that changes no field of its handle. *)
LEMMA LedReturns ==
  ASSUME LedInv, NEW h \in LedHandles, LedIdle(h),
         NEW r \in {"ok", "OPEN", "QUERY", "IO", "ARG"}, LedReturn(h, r),
         UNCHANGED led, LedsOK(leds'), streams' \in [LedHandles -> 0 .. MaxStreams]
  PROVE  LedInv'
<1>1. led_pc' = led_pc
  BY DEF LedIdle, LedReturn, LedInv, LedTypeOK
<1>2. \A g \in LedHandles : LedKnown(g)'
  BY <1>1 DEF LedInv, LedKnown, led
<1>3. led_ret' \in [LedHandles -> {"none", "ok", "OPEN", "QUERY", "IO", "ARG"}]
  BY DEF LedInv, LedTypeOK, LedReturn
<1> QED
  BY <1>1, <1>2, <1>3, LedKeeps DEF LedInv, LedTypeOK, led

LEMMA LedReturnsOnly ==
  ASSUME LedInv, NEW h \in LedHandles, LedIdle(h),
         NEW r \in {"ok", "OPEN", "QUERY", "IO", "ARG"}, LedReturnOnly(h, r)
  PROVE  LedInv'
<1>1. streams' \in [LedHandles -> 0 .. MaxStreams]
  BY DEF LedReturnOnly, LedInv, LedTypeOK
<1> QED
  BY <1>1, LedSame, LedReturns DEF LedReturnOnly

LEMMA LedGiven ==
  ASSUME LedInv, NEW h \in LedHandles, LedIdle(h), NEW got, LedGives(h, got)
  PROVE  LedInv'
<1>1. streams' \in [LedHandles -> 0 .. MaxStreams]
  BY DEF LedGives, LedInv, LedTypeOK
<1> QED
  BY <1>1, LedSame, LedReturns DEF LedGives

LEMMA LedLeaksKeeps ==
  ASSUME LedInv, NEW h \in LedHandles, LedIdle(h), NEW n, StreamOpens(n), LedLeaks(h, "QUERY")
  PROVE  LedInv'
<1>1. streams' \in [LedHandles -> 0 .. MaxStreams]
  <2>1. streams[h] \in 0 .. MaxStreams /\ streams[h] < MaxStreams /\ MaxStreams \in Nat
    BY LedAssumption DEF StreamOpens, LedInv, LedTypeOK
  <2>2. streams[h] + 1 \in 0 .. MaxStreams
    BY <2>1
  <2> QED
    BY <2>2 DEF LedLeaks, LedInv, LedTypeOK
<1> QED
  BY <1>1, LedSame, LedReturns DEF LedLeaks

LEMMA LedOpenKeeps ==
  ASSUME LedInv, NEW h \in LedHandles, NEW n \in Leds, LedOpen(h, n)
  PROVE  LedInv'
<1>1. CASE LedReturnOnly(h, "OPEN")
  BY <1>1, LedReturnsOnly DEF LedOpen
<1>2. CASE /\ led_name' = [led_name EXCEPT ![h] = n]
           /\ max_read' = [max_read EXCEPT ![h] = FALSE]
           /\ led_pc' = [led_pc EXCEPT ![h] = "query"]
           /\ led_ret' = [led_ret EXCEPT ![h] = "none"]
           /\ UNCHANGED <<leds, max_brightness, streams>>
  <2>1. \A g \in LedHandles : LedKnown(g)'
    BY <1>2 DEF LedInv, LedTypeOK, LedKnown
  <2> QED
    BY <1>2, <2>1, LedSame, LedKeeps DEF LedInv, LedTypeOK
<1> QED
  BY <1>1, <1>2 DEF LedOpen

(* Reading the maximum of the LED a handle names makes it known. *)
LEMMA LedQueryMaxKeeps ==
  ASSUME LedInv, NEW h \in LedHandles, LedQueryMax(h)
  PROVE  LedInv'
<1>1. led_pc[h] = "query" /\ led_pc' = [led_pc EXCEPT ![h] = "idle"]
      /\ UNCHANGED <<leds, led_name, streams>>
      /\ led_ret' \in [LedHandles -> {"none", "ok", "OPEN", "QUERY", "IO", "ARG"}]
  BY DEF LedQueryMax, LedReturnOnly, LedReturn, led, LedInv, LedTypeOK
<1>2. CASE UNCHANGED <<max_brightness, max_read>>
  <2>1. \A g \in LedHandles : LedKnown(g)'
    BY <1>1, <1>2 DEF LedInv, LedTypeOK, LedKnown
  <2> QED
    BY <1>1, <1>2, <2>1, LedSame, LedKeeps DEF LedInv, LedTypeOK
<1>3. CASE There(led_name[h]) /\ CachesMax(h) /\ max_read' = [max_read EXCEPT ![h] = TRUE]
  <2>1. \A g \in LedHandles : LedKnown(g)'
    BY <1>1, <1>3 DEF LedInv, LedTypeOK, LedKnown, There, CachesMax
  <2>2. max_brightness' \in [LedHandles -> {0} \cup {MaxOf[n] : n \in Leds}]
    BY <1>3 DEF LedInv, LedTypeOK, There, CachesMax
  <2> QED
    BY <1>1, <1>3, <2>1, <2>2, LedSame, LedKeeps DEF LedInv, LedTypeOK
<1> QED
  BY <1>2, <1>3 DEF LedQueryMax, LedReturnOnly, led

LEMMA LedGetMaxKeeps ==
  ASSUME LedInv, NEW h \in LedHandles, LedGetMaxBrightness(h)
  PROVE  LedInv'
<1>1. CASE LedReturnOnly(h, "QUERY")
  BY <1>1, LedReturnsOnly DEF LedGetMaxBrightness
<1>2. CASE /\ There(led_name[h]) /\ CachesMax(h) /\ LedReturn(h, "ok")
           /\ max_read' = [max_read EXCEPT ![h] = TRUE]
           /\ UNCHANGED <<leds, led_name, streams>>
  <2>1. led_pc' = led_pc
        /\ led_ret' \in [LedHandles -> {"none", "ok", "OPEN", "QUERY", "IO", "ARG"}]
    BY <1>2 DEF LedGetMaxBrightness, LedIdle, LedReturn, LedInv, LedTypeOK
  <2>2. \A g \in LedHandles : LedKnown(g)'
    <3>1. \A g \in LedHandles : g # h => LedKnown(g)'
      BY <1>2, <2>1 DEF LedInv, LedTypeOK, LedKnown, CachesMax
    <3>2. LedKnown(h)'
      BY <1>2, <2>1 DEF LedInv, LedTypeOK, LedKnown, There, CachesMax, LedGetMaxBrightness, LedIdle
    <3> QED BY <3>1, <3>2
  <2>3. max_brightness' \in [LedHandles -> {0} \cup {MaxOf[n] : n \in Leds}]
    BY <1>2 DEF LedInv, LedTypeOK, There, CachesMax
  <2> QED
    BY <1>2, <2>1, <2>2, <2>3, LedSame, LedKeeps DEF LedInv, LedTypeOK
<1> QED
  BY <1>1, <1>2 DEF LedGetMaxBrightness

LEMMA LedSetKeeps ==
  ASSUME LedInv, NEW h \in LedHandles, NEW b \in Nat, LedSetBrightness(h, b)
  PROVE  LedInv'
<1>1. CASE LedReturnOnly(h, "ARG") \/ LedReturnOnly(h, "IO")
  BY <1>1, LedReturnsOnly DEF LedSetBrightness
<1>2. CASE /\ There(led_name[h]) /\ leds' = Lit(led_name[h], b)
           /\ LedReturn(h, "ok") /\ UNCHANGED <<led, streams>>
  <2>1. LedsOK(leds')
    BY <1>2, LitKeeps DEF There
  <2>2. streams' \in [LedHandles -> 0 .. MaxStreams]
    BY <1>2 DEF LedInv, LedTypeOK
  <2> QED
    BY <1>2, <2>1, <2>2, LedReturns DEF LedSetBrightness
<1> QED
  BY <1>1, <1>2 DEF LedSetBrightness

LEMMA LedSetTriggerKeeps ==
  ASSUME LedInv, NEW h \in LedHandles, NEW t, LedSetTrigger(h, t)
  PROVE  LedInv'
<1>1. CASE LedReturnOnly(h, "QUERY")
  BY <1>1, LedReturnsOnly DEF LedSetTrigger
<1>2. CASE StreamOpens(led_name[h]) /\ LedLeaks(h, "QUERY")
  BY <1>2, LedLeaksKeeps DEF LedSetTrigger
<1>3. CASE StreamOpens(led_name[h]) /\ t \in TriggerNames /\ SetsTrigger(h, t)
  <2>1. LedsOK(leds')
    BY <1>3, TriggerKeeps DEF StreamOpens, There, SetsTrigger
  <2>2. streams' \in [LedHandles -> 0 .. MaxStreams]
    BY <1>3 DEF SetsTrigger, LedInv, LedTypeOK
  <2> QED
    BY <1>3, <2>1, <2>2, LedReturns DEF LedSetTrigger, SetsTrigger
<1> QED
  BY <1>1, <1>2, <1>3 DEF LedSetTrigger

LEMMA LedOutsideKeeps ==
  ASSUME LedInv, NEW n \in Leds, LedComesOrGoes(n) \/ OtherWrites(n)
  PROVE  LedInv'
<1>1. UNCHANGED <<led, led_pc, streams, led_ret>>
  BY DEF LedComesOrGoes, OtherWrites
<1>2. LedsOK(leds')
  <2>1. CASE LedComesOrGoes(n)
    <3>1. 0 \in 0 .. MaxOf[n] /\ Triggers[1] \in TriggerNames
      BY LedMaxima, FirstTrigger
    <3> QED
      BY <2>1, <3>1, LedSame DEF LedComesOrGoes, LedsOK, LedState
  <2>2. CASE \E b \in Brightnesses : leds' = Lit(n, b)
    BY <2>2, LitKeeps, LedAssumption
  <2>3. CASE \E t \in TriggerNames : leds' = [leds EXCEPT ![n].trigger = t]
    BY <2>3, TriggerKeeps
  <2> QED
    BY <2>1, <2>2, <2>3 DEF OtherWrites
<1>3. \A h \in LedHandles : LedKnown(h)'
  BY <1>1 DEF LedInv, LedKnown, led
<1> QED
  BY <1>1, <1>2, <1>3, LedKeeps DEF LedInv, LedTypeOK, led

LEMMA LedCallsKeep ==
  ASSUME LedInv, NEW h \in LedHandles, LedCalls(h)
  PROVE  LedInv'
<1>1. CASE \E n \in Leds : LedOpen(h, n)
  BY <1>1, LedOpenKeeps
<1>2. CASE LedQueryMax(h) \/ LedGetMaxBrightness(h)
  BY <1>2, LedQueryMaxKeeps, LedGetMaxKeeps
<1>3. CASE LedGetBrightness(h)
  BY <1>3, LedReturnsOnly, LedGiven DEF LedGetBrightness
<1>4. CASE \E b \in Brightnesses : LedSetBrightness(h, b)
  BY <1>4, LedSetKeeps, LedAssumption
<1>5. CASE \E v \in BOOLEAN : LedWrite(h, v)
  <2>1. max_brightness[h] \in Nat
    BY LedMaxima DEF LedInv, LedTypeOK
  <2> QED
    BY <1>5, <2>1, LedSetKeeps DEF LedWrite
<1>6. CASE LedGetTrigger(h)
  BY <1>6, LedReturnsOnly, LedGiven, LedLeaksKeeps DEF LedGetTrigger
<1>7. CASE LedGetTriggersCount(h)
  BY <1>7, LedReturnsOnly, LedGiven DEF LedGetTriggersCount
<1>8. CASE \E i \in Indices : LedGetTriggersEntry(h, i)
  BY <1>8, LedReturnsOnly, LedGiven, LedLeaksKeeps DEF LedGetTriggersEntry
<1>9. CASE \E t \in TriggerArgs : LedSetTrigger(h, t)
  BY <1>9, LedSetTriggerKeeps
<1>10. CASE LedClose(h)
  BY <1>10, LedReturnsOnly DEF LedClose
<1> QED
  BY <1>1, <1>2, <1>3, <1>4, <1>5, <1>6, <1>7, <1>8, <1>9, <1>10 DEF LedCalls

LEMMA LedStepKeeps == ASSUME LedInv, [LedNext]_ledVars PROVE LedInv'
<1>1. CASE \E h \in LedHandles : LedCalls(h)
  BY <1>1, LedCallsKeep
<1>2. CASE \E n \in Leds : LedComesOrGoes(n) \/ OtherWrites(n)
  BY <1>2, LedOutsideKeeps
<1>3. CASE UNCHANGED ledVars
  BY <1>3 DEF ledVars, led, LedInv, LedTypeOK, LedKnown
<1> QED
  BY <1>1, <1>2, <1>3 DEF LedNext

-----------------------------------------------------------------------------
(* LEDs: the theorems *)

(* Switching an LED on whose maximum was read lights it to its maximum, not to the one
   of an LED the handle named before. *)
LEMMA WritesMax ==
  ASSUME LedInv, NEW h \in LedHandles, max_read[h], led_ret'[h] = "ok", LedWrite(h, TRUE)
  PROVE  leds'[led_name[h]].brightness = MaxOf[led_name[h]]
<1>1. led_name[h] \in Leds /\ max_brightness[h] = MaxOf[led_name[h]]
  BY DEF LedInv, LedKnown
<1>2. LedSetBrightness(h, MaxOf[led_name[h]])
  BY <1>1 DEF LedWrite
<1>3. h \in DOMAIN led_ret
  BY DEF LedInv, LedTypeOK
<1>4. leds' = Lit(led_name[h], MaxOf[led_name[h]])
  BY <1>2, <1>3 DEF LedSetBrightness, LedReturnOnly, LedReturn
<1> QED
  BY <1>1, <1>4, LitKeeps, LedMaxima

(* Only LedLeaks() adds to the streams of a handle. *)
LEMMA OnlyErrorsLeak ==
  ASSUME LedInv, LedNext, NEW h \in LedHandles, streams'[h] # streams[h]
  PROVE  led_ret'[h] = "QUERY"
<1>1. PICK g \in LedHandles : LedCalls(g)
  BY DEF LedNext, LedComesOrGoes, OtherWrites
<1>2. streams' = streams \/ LedLeaks(g, "QUERY")
  BY <1>1 DEF LedCalls, LedOpen, LedQueryMax, LedGetMaxBrightness, LedGetBrightness,
              LedSetBrightness, LedWrite, LedGetTrigger, LedGetTriggersCount, LedGetTriggersEntry,
              LedSetTrigger, SetsTrigger, LedClose, LedReturnOnly, LedGives
<1>3. LedLeaks(g, "QUERY")
  BY <1>2
<1> QED
  BY <1>3 DEF LedLeaks, LedReturn, LedInv, LedTypeOK

(* The inductive invariant of led.c holds throughout. *)
THEOREM LedInvariance == LedSpec => []LedInv
  BY InitLed, LedStepKeeps, PTL DEF LedSpec

(* Every variable of led.c keeps its type, and no LED is lit beyond its maximum. *)
THEOREM LedTypeCorrect == LedSpec => []LedTypeOK
<1>1. LedInv => LedTypeOK
  BY DEF LedInv
<1> QED
  BY <1>1, LedInvariance, PTL

(* docs/led.md: in led_write(), "`true` is max brightness": of the LED the handle
   names now, if its maximum was read since the name was set.  So it is after a
   led_open() that returned 0, any number of openings before it and refused ones after
   it, and again after a led_get_max_brightness(); not, and the theorem does not say so,
   from a led_open() that failed half way until then. *)
THEOREM LedTrueIsMax == LedSpec => TrueIsMax
<1>1. LedInv /\ [LedNext]_ledVars =>
        [\A h \in LedHandles :
           max_read[h] /\ led_ret'[h] = "ok" /\ LedWrite(h, TRUE)
             => leds'[led_name[h]].brightness = MaxOf[led_name[h]]]_ledVars
  BY WritesMax
<1> QED
  BY <1>1, LedInvariance, PTL DEF LedSpec, TrueIsMax

(* No call that returns 0 leaves a stream open. *)
THEOREM LedStreamsClosed == LedSpec => StreamsClosed
<1>1. LedInv /\ [LedNext]_ledVars =>
        [\A h \in LedHandles : streams'[h] # streams[h] => led_ret'[h] = "QUERY"]_ledVars
  BY OnlyErrorsLeak
<1> QED
  BY <1>1, LedInvariance, PTL DEF LedSpec, StreamsClosed

-----------------------------------------------------------------------------
(* gpio_poll_multiple() *)

PollTypeOK ==
  /\ event \subseteq 1 .. Count /\ had \subseteq 1 .. Count /\ revents \subseteq 1 .. Count
  /\ gpios_ready \subseteq 1 .. Count
  /\ poll_pc \in {"idle", "blocked", "pass"}
  /\ poll_forever \in BOOLEAN
  /\ poll_at \in Nat

(* While the call is blocked nothing is reported; in the pass, the flags set are
   those of poll()'s reports below its index. *)
CallHonest ==
  /\ poll_pc = "blocked" => gpios_ready = {} /\ event \subseteq had
  /\ poll_pc = "pass" => /\ revents \subseteq had
                         /\ poll_at \in 1 .. Count
                         /\ gpios_ready = {i \in revents : i < poll_at}

PollInv == PollTypeOK /\ CallHonest /\ PollHonest

LEMMA InitPoll == ASSUME PollInit PROVE PollInv
  BY CountAssumption, FS_EmptySet
     DEF PollInit, PollInv, PollTypeOK, CallHonest, PollHonest, IoError

LEMMA PollStartKeeps == ASSUME PollInv, NEW forever \in BOOLEAN, PollStart(forever) PROVE PollInv'
  BY DEF PollStart, PollInv, PollTypeOK, CallHonest, PollHonest

LEMMA PollWakesKeeps == ASSUME PollInv, PollWakes PROVE PollInv'
<1>1. Count \in Nat /\ event \subseteq 1 .. Count /\ event # {}
  BY CountAssumption DEF PollInv, PollTypeOK, PollWakes
<1>2. 1 \in 1 .. Count
  <2>1. PICK i \in event : i \in 1 .. Count
    BY <1>1
  <2> QED
    BY <1>1, <2>1
<1>3. revents' \subseteq event /\ revents' \subseteq 1 .. Count
  BY <1>1 DEF PollWakes
<1>4. gpios_ready' = {} /\ {i \in revents' : i < 1} = {}
  BY <1>1, <1>3 DEF PollWakes, PollInv, CallHonest
<1>5. poll_pc' = "pass" /\ poll_at' = 1 /\ had' = had /\ event' = event /\ poll_pc = "blocked"
      /\ poll_forever' = poll_forever
  BY DEF PollWakes
<1>6. CallHonest'
  BY <1>2, <1>3, <1>4, <1>5 DEF PollInv, CallHonest
<1>7. PollTypeOK'
  BY <1>3, <1>4, <1>5 DEF PollInv, PollTypeOK
<1> QED
  BY <1>5, <1>6, <1>7 DEF PollInv, PollHonest

(* The call ends before the pass: with an error, or with no GPIO ready. *)
LEMMA PollGivesUpKeeps == ASSUME PollInv, PollTimesOut \/ PollFails PROVE PollInv'
<1>1. /\ poll_pc = "blocked" /\ poll_pc' = "idle" /\ poll_ret' \in {0, IoError}
      /\ UNCHANGED <<event, lineless, poll_forever, revents, poll_at, had, gpios_ready>>
  BY DEF PollTimesOut, PollFails, PollReturn
<1>2. gpios_ready' = {} /\ Cardinality(gpios_ready') = 0
  BY <1>1, FS_EmptySet DEF PollInv, CallHonest
<1> QED
  BY <1>1, <1>2 DEF PollInv, PollTypeOK, CallHonest, PollHonest

LEMMA PollPassKeeps == ASSUME PollInv, PollPass PROVE PollInv'
<1>1. /\ Count \in Nat /\ poll_at \in 1 .. Count /\ revents \subseteq 1 .. Count
      /\ revents \subseteq had /\ gpios_ready = {i \in revents : i < poll_at}
  BY CountAssumption DEF PollPass, PollInv, PollTypeOK, CallHonest
<1>0. \A i \in revents : /\ i < poll_at + 1 <=> i < poll_at \/ i = poll_at
                         /\ poll_at = Count => i < poll_at + 1
                         /\ ~(poll_at < poll_at)
  BY <1>1
<1>2. gpios_ready' = {i \in revents : i < poll_at + 1}
  <2>1. CASE poll_at \in revents
    <3>1. gpios_ready' = gpios_ready \cup {poll_at}
      BY <2>1 DEF PollPass
    <3> QED
      BY <1>0, <1>1, <2>1, <3>1
  <2>2. CASE poll_at \notin revents
    <3>1. gpios_ready' = gpios_ready \ {poll_at}
      BY <2>2 DEF PollPass
    <3> QED
      BY <1>0, <1>1, <2>2, <3>1
  <2> QED
    BY <2>1, <2>2
<1>3. /\ UNCHANGED <<event, poll_forever, revents, had>>
      /\ poll_pc' \in {"idle", "pass"} /\ poll_at' \in {poll_at, poll_at + 1}
  BY DEF PollPass, PollReturn
<1>4. PollTypeOK'
  <2>1. poll_at' \in Nat
    BY <1>1, <1>3
  <2>2. gpios_ready' \subseteq 1 .. Count
    BY <1>1, <1>2
  <2> QED
    BY <1>3, <2>1, <2>2 DEF PollInv, PollTypeOK
<1>5. CASE poll_pc' = "pass"
  <2>1. poll_at < Count /\ poll_at' = poll_at + 1
    BY <1>5 DEF PollPass, PollReturn
  <2>2. poll_at' \in 1 .. Count
    BY <1>1, <2>1
  <2> QED
    BY <1>1, <1>2, <1>3, <1>4, <1>5, <2>1, <2>2 DEF PollInv, CallHonest, PollHonest
<1>6. CASE poll_pc' = "idle"
  <2>1. poll_ret' = IoError \/ (poll_at = Count /\ poll_ret' = Cardinality(revents))
    <3>1. poll_pc = "pass" /\ "pass" # "idle"
      BY DEF PollPass
    <3>2. poll_pc' # poll_pc
      BY <1>6, <3>1
    <3>3. \/ PollReturn(IoError)
          \/ poll_at = Count /\ PollReturn(Cardinality(revents))
          \/ UNCHANGED poll_pc
      BY DEF PollPass
    <3> QED
      BY <3>2, <3>3 DEF PollReturn
  <2>2. poll_at = Count => gpios_ready' = revents
    BY <1>0, <1>2
  <2>3. gpios_ready' \subseteq had'
    BY <1>1, <1>2, <1>3
  <2> QED
    BY <1>4, <1>6, <2>1, <2>2, <2>3 DEF PollInv, CallHonest, PollHonest
<1> QED
  BY <1>3, <1>5, <1>6

LEMMA PollOthersKeep ==
  ASSUME PollInv, NEW i \in 1 .. Count, Edge(i) \/ ConsumeEdge(i) \/ Reopened(i)
  PROVE  PollInv'
<1>1. /\ UNCHANGED <<poll_pc, poll_forever, revents, poll_at, gpios_ready, poll_ret>>
      /\ had \subseteq had' /\ had' \subseteq 1 .. Count /\ event' \subseteq 1 .. Count
      /\ event \subseteq had => event' \subseteq had'
  BY DEF Edge, ConsumeEdge, Reopened, PollInv, PollTypeOK
<1> QED
  BY <1>1 DEF PollInv, PollTypeOK, CallHonest, PollHonest

LEMMA PollStepKeeps == ASSUME PollInv, [PollNext]_pollVars PROVE PollInv'
<1>1. CASE PollNext
  BY <1>1, PollStartKeeps, PollWakesKeeps, PollGivesUpKeeps, PollPassKeeps, PollOthersKeep DEF PollNext
<1>2. CASE UNCHANGED pollVars
  BY <1>2 DEF pollVars, PollInv, PollTypeOK, CallHonest, PollHonest
<1> QED
  BY <1>1, <1>2

(* The inductive invariant of gpio_poll_multiple() holds throughout. *)
THEOREM PollInvariance == PollSpec => []PollInv
  BY InitPoll, PollStepKeeps, PTL DEF PollSpec

(* docs/gpio.md: gpios_ready is "true for the corresponding GPIO ... if an edge event
   occurred", and the call returns their number: for arrays of any length. *)
THEOREM PollIsHonest == PollSpec => []PollHonest
<1>1. PollInv => PollHonest
  BY DEF PollInv
<1> QED
  BY <1>1, PollInvariance, PTL

-----------------------------------------------------------------------------
(* The process with all of these handles *)

(* A step of the process is a step of one part, and changes nothing of the others. *)
LEMMA StepOfParts ==
  ASSUME [Next]_vars
  PROVE  /\ [BusNext]_busVars /\ [LedNext]_ledVars
         /\ [MmioNext]_mmioVars /\ [PollNext]_pollVars
<1>1. CASE BusPart
  BY <1>1 DEF BusPart
<1>2. CASE LedPart
  BY <1>2 DEF LedPart
<1>3. CASE MmioPart
  BY <1>3 DEF MmioPart
<1>4. CASE PollPart
  BY <1>4 DEF PollPart
<1>5. CASE UNCHANGED vars
  BY <1>5 DEF vars
<1> QED
  BY <1>1, <1>2, <1>3, <1>4, <1>5 DEF Next

(* The process implements the specification of each of its parts. *)
THEOREM PartsImplemented == Spec => BusSpec /\ LedSpec /\ MmioSpec /\ PollSpec
<1>1. Init => BusInit /\ LedInit /\ MmioInit /\ PollInit
  BY DEF Init
<1>2. [Next]_vars => /\ [BusNext]_busVars /\ [LedNext]_ledVars
                     /\ [MmioNext]_mmioVars /\ [PollNext]_pollVars
  BY StepOfParts
<1> QED
  BY <1>1, <1>2, PTL DEF Spec, BusSpec, LedSpec, MmioSpec, PollSpec

(* So it keeps the invariants of all: the descriptors, the mappings, the cached
   settings and what a poll reported. *)
THEOREM PeripheralsInvariants ==
  Spec => [](/\ SpiTypeOK /\ SpiFilesOwned /\ I2cFilesOwned /\ LedTypeOK
             /\ MmioTypeOK /\ MappingsOwned /\ PollHonest)
  BY PartsImplemented, SpiTypeCorrect, SpiFilesHeld, I2cFilesHeld, LedTypeCorrect,
     MmioTypeCorrect, MappingsHeld, PollIsHonest, PTL

(* And what no step of any of them does. *)
THEOREM PeripheralsSteps ==
  Spec => SpiCallExact /\ OtherSettingsKept /\ TrueIsMax /\ StreamsClosed /\ BoundsExact
  BY PartsImplemented, CallsExact, OthersKept, LedTrueIsMax, LedStreamsClosed,
     BoundsAreExact, PTL

=============================================================================
