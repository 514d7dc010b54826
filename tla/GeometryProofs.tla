--------------------------- MODULE GeometryProofs ---------------------------
(***************************************************************************)
(* What lba2chs, chs2lba and the packed register of disk.c compute, for    *)
(* every geometry and every sector.                                        *)
(***************************************************************************)
EXTENDS Geometry, TLAPS

\* Division with remainder of naturals, in the form the proofs below use.
LEMMA DivMod ==
  ASSUME NEW a \in Nat, NEW b \in Nat \ {0}
  PROVE  /\ a \div b \in Nat
         /\ a % b \in 0 .. b - 1
         /\ a = b * (a \div b) + (a % b)
  OBVIOUS

\* The product of naturals is a natural, and grows with its factors.
LEMMA MulMono ==
  ASSUME NEW a \in Nat, NEW b \in Nat, NEW c \in Nat, a <= b
  PROVE  a * c \in Nat /\ a * c <= b * c
  OBVIOUS

\* Quotient and remainder are unique.
LEMMA DivUnique ==
  ASSUME NEW m \in Nat \ {0}, NEW c \in Nat, NEW t \in 0 .. m - 1,
         NEW a \in Nat, a = m * c + t
  PROVE  a \div m = c /\ a % m = t
  <1> DEFINE q == a \div m
             r == a % m
  <1>1. q \in Nat /\ r \in 0 .. m - 1 /\ a = m * q + r
    BY DivMod
  <1> HIDE DEF q, r
  <1>2. m * (q - c) = t - r
    BY <1>1
  <1>3. q = c
    <2>1. CASE q - c >= 1
      <3>1. m * (q - c) >= m
        BY <2>1, <1>1
      <3> QED BY <3>1, <1>2, <1>1
    <2>2. CASE q - c <= -1
      <3>1. m * (q - c) <= -m
        BY <2>2, <1>1
      <3> QED BY <3>1, <1>2, <1>1
    <2> QED BY <2>1, <2>2, <1>1
  <1>4. r = t
    BY <1>1, <1>3
  <1> QED BY <1>3, <1>4 DEF q, r

\* Dividing by a product is dividing twice.
LEMMA DivDiv ==
  ASSUME NEW a \in Nat, NEW s \in Nat \ {0}, NEW h \in Nat \ {0}
  PROVE  a \div (s * h) = (a \div s) \div h
  <1> DEFINE q == a \div s
             r == a % s
             c == q \div h
             k == q % h
  <1>1. q \in Nat /\ r \in 0 .. s - 1 /\ a = s * q + r
    BY DivMod
  <1> HIDE DEF q, r
  <1>2. c \in Nat /\ k \in 0 .. h - 1 /\ q = h * c + k
    BY <1>1, DivMod
  <1> HIDE DEF c, k
  <1>3. s * h \in Nat \ {0}
    OBVIOUS
  <1>4. a = (s * h) * c + (s * k + r)
    BY <1>1, <1>2
  <1>5. s * k + r \in 0 .. s * h - 1
    <2>1. s * k <= s * (h - 1) /\ s * k >= 0
      BY <1>2
    <2> QED BY <2>1, <1>1, <1>2
  <1>6. a \div (s * h) = c
    BY <1>3, <1>4, <1>5, <1>2, DivUnique
  <1> QED BY <1>6 DEF c, q

\* One more is one more of the remainder, or the next quotient and remainder 0.
LEMMA DivSuccessor ==
  ASSUME NEW a \in Nat, NEW m \in Nat \ {0}
  PROVE  \/ /\ (a + 1) \div m = a \div m
            /\ (a + 1) % m = (a % m) + 1
         \/ /\ a % m = m - 1
            /\ (a + 1) \div m = (a \div m) + 1
            /\ (a + 1) % m = 0
  <1> DEFINE q == a \div m
             r == a % m
  <1>1. q \in Nat /\ r \in 0 .. m - 1 /\ a = m * q + r
    BY DivMod
  <1> HIDE DEF q, r
  <1>2. CASE r < m - 1
    <2> DEFINE t == r + 1
               n == a + 1
    <2>1. t \in 0 .. m - 1 /\ n = m * q + t /\ n \in Nat
      BY <1>1, <1>2
    <2> HIDE DEF t, n
    <2>2. n \div m = q /\ n % m = t
      BY <2>1, <1>1, DivUnique
    <2> QED BY <2>2 DEF q, r, t, n
  <1>3. CASE r = m - 1
    <2> DEFINE p == q + 1
               n == a + 1
    <2>1. p \in Nat /\ n = m * p + 0 /\ n \in Nat /\ 0 \in 0 .. m - 1
      BY <1>1, <1>3
    <2> HIDE DEF p, n
    <2>2. n \div m = p /\ n % m = 0
      BY <2>1, DivUnique
    <2> QED BY <2>2, <1>3 DEF q, r, p, n
  <1> QED BY <1>1, <1>2, <1>3

-----------------------------------------------------------------------------
\* A geometry the BIOS may report, with at least one sector per track.
Usable(g) ==
  /\ g.last_heads \in 0 .. CHS_HEAD_MAX + 1
  /\ g.last_cylinders \in 0 .. CHS_CYLINDER_MAX
  /\ g.last_sectors_per_track \in 1 .. CHS_SECTOR_MAX

(***************************************************************************)
(* The sector lba2chs finds is on the track, under a head of the disk, and *)
(* chs2lba maps it back to where it came from.                             *)
(***************************************************************************)
LEMMA RoundTrip ==
  ASSUME NEW g, Usable(g), NEW lba \in Nat, lba <= max_lba
  PROVE  LET a == lba2chs(g, lba)
         IN  /\ a.ret = 0
             /\ a.cylinder \in Nat
             /\ a.head \in 0 .. g.last_heads
             /\ a.sector \in 1 .. g.last_sectors_per_track
             /\ chs2lba(g, a.cylinder, a.head, a.sector) = lba
  <1> DEFINE s == g.last_sectors_per_track
             h == g.last_heads + 1
             q == lba \div s
             a == lba2chs(g, lba)
  <1>1. s \in Nat \ {0} /\ h \in Nat \ {0}
    BY LimitsAssumption DEF Usable
  <1>2. /\ a.ret = 0
        /\ a.cylinder = lba \div (s * h)
        /\ a.head = q % h
        /\ a.sector = (lba % s) + 1
    BY DEF lba2chs
  <1>3. chs2lba(g, a.cylinder, a.head, a.sector)
          = (a.cylinder * h + a.head) * s + a.sector - 1
    BY DEF chs2lba
  <1>4. g.last_heads = h - 1
    BY LimitsAssumption DEF Usable
  <1> HIDE DEF a, s, h
  <1>5. q \in Nat /\ lba % s \in 0 .. s - 1 /\ lba = s * q + (lba % s)
    BY <1>1, DivMod
  <1>6. lba \div (s * h) = q \div h
    BY <1>1, DivDiv
  <1> HIDE DEF q
  <1>7. q \div h \in Nat /\ q % h \in 0 .. h - 1 /\ q = h * (q \div h) + (q % h)
    BY <1>1, <1>5, DivMod
  <1>8. (q \div h) * h + (q % h) = q
    BY <1>7, <1>1
  <1>9. chs2lba(g, a.cylinder, a.head, a.sector) = lba
    <2>1. chs2lba(g, a.cylinder, a.head, a.sector) = q * s + ((lba % s) + 1) - 1
      BY <1>2, <1>3, <1>6, <1>8
    <2> QED BY <2>1, <1>5, <1>1
  <1>10. /\ a.ret = 0
         /\ a.cylinder \in Nat
         /\ a.head \in 0 .. g.last_heads
         /\ a.sector \in 1 .. s
    BY <1>1, <1>2, <1>4, <1>5, <1>6, <1>7
  <1> QED BY <1>9, <1>10 DEF a, s

\* Below the capacity of the geometry the cylinder exists as well.
LEMMA CylinderOnDisk ==
  ASSUME NEW g, Usable(g), NEW lba \in Nat, lba <= max_lba, lba < chs_capacity(g)
  PROVE  lba2chs(g, lba).cylinder \in 0 .. g.last_cylinders
  <1> DEFINE s == g.last_sectors_per_track
             h == g.last_heads + 1
             n == g.last_cylinders + 1
             m == s * h
             c == lba \div m
  <1>1. s \in Nat \ {0} /\ h \in Nat \ {0} /\ n \in Nat \ {0}
    BY LimitsAssumption DEF Usable
  <1>2. lba2chs(g, lba).cylinder = c
    BY DEF lba2chs
  <1>3. lba < h * n * s
    BY DEF chs_capacity
  <1>4. g.last_cylinders = n - 1
    BY LimitsAssumption DEF Usable
  <1> HIDE DEF s, h, n
  <1>5. m \in Nat \ {0}
    BY <1>1
  <1>6. lba < m * n
    BY <1>1, <1>3
  <1> HIDE DEF m
  <1>7. c \in Nat /\ lba >= m * c
    <2>1. c \in Nat /\ lba % m \in 0 .. m - 1 /\ lba = m * c + (lba % m)
      BY <1>5, DivMod
    <2> HIDE DEF c
    <2>2. m * c \in Int
      BY <2>1, <1>5
    <2> QED BY <2>1, <2>2, <1>5
  <1> HIDE DEF c
  <1>8. c < n
    <2>1. SUFFICES ASSUME c >= n PROVE FALSE
      BY <1>1, <1>7
    <2>2. m * c >= m * n
      BY <2>1, <1>1, <1>5, <1>7
    <2> QED BY <2>2, <1>6, <1>7, <1>1, <1>5
  <1> QED BY <1>2, <1>4, <1>7, <1>8, <1>1

(***************************************************************************)
(* With at most CHS_HEAD_MAX + 1 heads the capacity does not exceed        *)
(* max_lba + 1: lba2chs refuses no sector of such a disk.                  *)
(***************************************************************************)
LEMMA CapacityBound ==
  ASSUME NEW g, Usable(g), g.last_heads <= CHS_HEAD_MAX
  PROVE  chs_capacity(g) \in Nat /\ chs_capacity(g) <= max_lba + 1
  <1> DEFINE s == g.last_sectors_per_track
             h == g.last_heads + 1
             n == g.last_cylinders + 1
             H == CHS_HEAD_MAX + 1
             N == CHS_CYLINDER_MAX + 1
             S == CHS_SECTOR_MAX
  <1>1. /\ s \in Nat /\ h \in Nat /\ n \in Nat /\ S \in Nat /\ H \in Nat /\ N \in Nat
        /\ s <= S /\ h <= H /\ n <= N
    BY LimitsAssumption DEF Usable
  <1>2. chs_capacity(g) = (h * n) * s
    BY DEF chs_capacity
  <1>3. max_lba + 1 = (N * H) * S
    <2>1. max_lba + 1 = ((N - 1) * H + (H - 1)) * S + S
      BY LimitsAssumption DEF max_lba
    <2> HIDE DEF N, H, S
    <2>2. ((N - 1) * H + (H - 1)) * S + S = (N * H) * S
      BY <1>1
    <2> QED BY <2>1, <2>2
  <1> HIDE DEF s, h, n, H, N, S
  <1>4. h * n \in Nat /\ h * n <= H * n
    BY <1>1, MulMono
  <1>5. n * H \in Nat /\ n * H <= N * H
    BY <1>1, MulMono
  <1>6. h * n <= N * H /\ N * H \in Nat
    BY <1>1, <1>4, <1>5
  <1>7. (h * n) * s \in Nat /\ (h * n) * s <= (N * H) * s
    BY <1>1, <1>4, <1>6, MulMono
  <1>8. s * (N * H) <= S * (N * H)
    BY <1>1, <1>6, MulMono
  <1>9. (N * H) * s <= (N * H) * S
    BY <1>8, <1>1, <1>6
  <1> QED BY <1>2, <1>3, <1>7, <1>9, <1>1, <1>6

(***************************************************************************)
(* set_chs_to_pack fits 16 bits and get_chs_from_pack undoes it, for every *)
(* cylinder and sector the register has room for.                          *)
(***************************************************************************)
THEOREM PackInverse ==
  ASSUME NEW c \in Nat, c < 1024, NEW s \in Nat, s < 64
  PROVE  /\ set_chs_to_pack(c, s) \in Nat
         /\ set_chs_to_pack(c, s) < 65536
         /\ get_chs_from_pack(set_chs_to_pack(c, s)) = [cylinder |-> c, sector |-> s]
  <1>1. PICK l \in Nat, u \in Nat :
          /\ c = 256 * u + l /\ c % 256 = l /\ c \div 256 = u
          /\ l < 256 /\ u < 4
    OBVIOUS
  <1>2. PICK y \in Nat : y = 64 * u + s
    OBVIOUS
  <1>3. PICK x \in Nat : x = 256 * l + y
    OBVIOUS
  <1>4. y < 256 /\ x < 65536
    BY <1>1, <1>2, <1>3
  <1>5. set_chs_to_pack(c, s) = x
    <2>1. u % 4 = u
      BY <1>1
    <2> QED BY <2>1, <1>1, <1>2, <1>3 DEF set_chs_to_pack
  <1>6. y \div 64 = u
    BY <1>2, DivUnique
  <1>7. x \div 256 = l /\ x % 256 = y
    BY <1>3, <1>4, DivUnique
  <1>8. x % 64 = s
    <2>1. x = 64 * (4 * l + u) + s /\ 4 * l + u \in Nat
      BY <1>2, <1>3
    <2> QED BY <2>1, DivUnique
  <1>9. (x \div 256) + ((x % 256) \div 64) * 256 = c
    BY <1>1, <1>6, <1>7
  <1>10. get_chs_from_pack(x) = [cylinder |-> c, sector |-> s]
    BY <1>8, <1>9 DEF get_chs_from_pack
  <1> QED BY <1>4, <1>5, <1>10
=============================================================================
