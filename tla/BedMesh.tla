------------------------------ MODULE BedMesh ------------------------------
(***************************************************************************)
(* bed_mesh.py: the points of a calibration, the mesh made of what the     *)
(* probe found there, its profiles, and the transform that moves the head  *)
(* along it.  A calibration by the probe is one command; one by hand goes  *)
(* on from command to command (ProbePointsHelper of probe.py).             *)
(*                                                                         *)
(* Lengths are integers, Mm to a millimetre (100 in the code, which rounds *)
(* distances down to hundredths).  Heights are multiples of a number that  *)
(* makes every division of the interpolation exact.  Round beds have their *)
(* origin at zero: mesh_min and the faulty regions of others are compared  *)
(* without the origin.  Adaptive meshes of round beds, rapid scans, the    *)
(* averaged fade target and the points in between a move are left out.     *)
(***************************************************************************)
EXTENDS Integers, Sequences

LOCAL INSTANCE SequencesExt
LOCAL INSTANCE FiniteSetsExt

CONSTANTS
  Setups,         \* [bed_mesh] sections of the configuration, see TypeSetup
  Requests,       \* parameters of a calibration: records of those given
  Height(_, _),   \* of the bed at a place
  ProbeOffset,    \* <<x, y, z>> of the probe
  Names,          \* of profiles; "default" is the one of calibrations
  Targets,        \* <<x, y, z>> that g-code moves to
  Mm,             \* units of length in a millimetre
  MaxMeshCommands \* bound

None == <<>>
Unnamed == ""    \* the profile of adaptive meshes

\* What a section says; radius 0 is a rectangular bed, fade_end 0 no fading.
TypeSetup(o) ==
  /\ DOMAIN o = {"radius", "min", "max", "cnt", "pps", "algo", "tension",
                 "faulty", "zero", "fade_start", "fade_end", "fade_target"}
  /\ o.algo \in {"lagrange", "bicubic"} /\ o.tension \in 0..20
  /\ o.cnt[1] >= 3 /\ o.cnt[2] >= 3
  /\ o.radius # 0 => o.cnt[1] = o.cnt[2] /\ o.cnt[1] % 2 = 1

ASSUME BedMeshAssumption == \A o \in Setups : TypeSetup(o)

VARIABLES
  setup,         \* the section, orig_config
  mesh_config,   \* BedMeshCalibrate: radius, min, max, cnt, pps, algo
  points,        \* ProbeManager: base, subs, zref_mode
  probe_points,  \* of its ProbePointsHelper
  profile_name,
  z_mesh, fade_target, tool_offset,
  status,        \* what update_status has stored
  profiles,      \* name -> mesh
  manual,        \* calibration by hand: [on, at, results]
  tool,          \* position of the toolhead
  last_position, \* of the transform, which gcode_move has too
  unread,        \* history: set_mesh failed and left last_position and status
  commands

bedMeshVars == <<setup, mesh_config, points, probe_points, profile_name,
                 z_mesh, fade_target, tool_offset, status, profiles, manual, tool, last_position,
                 unread, commands>>

Largest(a, b) == IF a > b THEN a ELSE b
Least(a, b) == IF a < b THEN a ELSE b
Constrain(v, lo, hi) == Least(hi, Largest(lo, v))
CeilDiv(a, b) == -((-a) \div b)

\* The sequence f, written out: TLC evaluates each element once.
Listed(f) == f \o <<>>

Within(p, lo, hi) == \A a \in {1, 2} : lo[a] <= p[a] /\ p[a] <= hi[a]

-----------------------------------------------------------------------------
(* The parameters of a calibration.                                        *)

Given(r, key, default) == IF key \in DOMAIN r THEN r[key] ELSE default

\* The bounds and counts for a region [min, max] with objects.
Adaptive(o, c, region) ==
  LET lo == [a \in {1, 2} |-> Largest(region.min[a], o.min[a])]
      hi == [a \in {1, 2} |-> Least(region.max[a], o.max[a])]
      n  == [a \in {1, 2} |-> CeilDiv(c.cnt[a] * (hi[a] - lo[a]),
                                      o.max[a] - o.min[a])]
      least == IF Largest(n[1], n[2]) > 6 /\ Least(n[1], n[2]) < 4 THEN 4 ELSE 3
  IN [c EXCEPT !.min = <<lo[1], lo[2]>>, !.max = <<hi[1], hi[2]>>,
               !.cnt = <<Largest(least, n[1]), Largest(least, n[2])>>]

\* update_config without its last step
ConfigFor(o, r) ==
  LET tenth  == Mm \div 10
      radius == IF "radius" \in DOMAIN r THEN (r.radius \div tenth) * tenth
                ELSE o.radius
      round  == o.radius # 0
      c == [radius |-> IF round THEN radius ELSE 0,
            min |-> IF round THEN <<-radius, -radius>> ELSE Given(r, "min", o.min),
            max |-> IF round THEN <<radius, radius>> ELSE Given(r, "max", o.max),
            cnt |-> Given(r, "cnt", o.cnt), pps |-> Given(r, "pps", o.pps),
            algo |-> Given(r, "algo", o.algo)]
  IN IF "objects" \in DOMAIN r /\ ~round THEN Adaptive(o, c, r.objects) ELSE c

Rejected == "refused"

\* _verify_algorithm: the algorithm that will be used
VerifyAlgorithm(c) ==
  LET most == Largest(c.cnt[1], c.cnt[2])  least == Least(c.cnt[1], c.cnt[2])
  IN CASE c.pps = <<0, 0>> -> "direct"
       [] c.pps # <<0, 0>> /\ c.algo = "lagrange" ->
            IF most > 6 THEN Rejected ELSE "lagrange"
       [] c.pps # <<0, 0>> /\ c.algo = "bicubic" ->
            IF least >= 4 THEN "bicubic"
            ELSE IF most > 6 THEN Rejected ELSE "lagrange"

-----------------------------------------------------------------------------
(* The points.                                                             *)

Dist(c) ==
  LET d == [a \in {1, 2} |-> (c.max[a] - c.min[a]) \div (c.cnt[a] - 1)]
  IN IF c.radius = 0 THEN d ELSE [a \in {1, 2} |-> d[1]]

TooClose(c) ==
  \E a \in {1, 2} : (c.max[a] - c.min[a]) \div (c.cnt[a] - 1) < Mm

\* The corners of what is probed.
Corners(c) ==
  LET r == (c.cnt[1] \div 2) * Dist(c)[1]
  IN IF c.radius # 0 THEN [min |-> <<-r, -r>>, max |-> <<r, r>>]
     ELSE [min |-> c.min,
           max |-> <<c.min[1] + Dist(c)[1] * (c.cnt[1] - 1), c.max[2]>>]

BasePoints(c) ==
  LET d == Dist(c)  k == Corners(c)
      grid == [n \in 1..(c.cnt[1] * c.cnt[2]) |->
        LET i == (n - 1) \div c.cnt[1]  j == (n - 1) % c.cnt[1]
        IN << IF i % 2 = 1 THEN k.max[1] - j * d[1] ELSE k.min[1] + j * d[1],
              k.min[2] + i * d[2] >>]
  IN IF c.radius = 0 THEN Listed(grid)
     ELSE SelectSeq(grid, LAMBDA p : p[1] * p[1] + p[2] * p[2]
                                       <= c.radius * c.radius)

\* Points on the border of the faulty region f to use instead of p.
Instead(c, f, p, reversed) ==
  LET k == Corners(c)
      left == <<f.min[1], p[2]>>  right == <<f.max[1], p[2]>>
      four == << IF reversed THEN right ELSE left, <<p[1], f.min[2]>>,
                 <<p[1], f.max[2]>>, IF reversed THEN left ELSE right >>
  IN SelectSeq(four, LAMBDA q :
       IF c.radius = 0 THEN Within(q, k.min, k.max)
       ELSE q[1] * q[1] + q[2] * q[2] <= c.radius * c.radius)

\* Faulty regions do not overlap (_init_faulty_regions).
Substitutes(o, c, base) ==
  LET faulty == {n \in DOMAIN base :
                   \E f \in o.faulty : Within(base[n], f.min, f.max)}
      Reversed(n) == Quantify(2..n, LAMBDA m : base[m][2] # base[m - 1][2]) % 2 = 1
  IN [n \in faulty |->
        Instead(c, CHOOSE f \in o.faulty : Within(base[n], f.min, f.max),
                base[n], Reversed(n))]

\* get_std_path
StdPath(o, p) ==
  FlattenSeq([n \in DOMAIN p.base |->
                IF n \in DOMAIN p.subs THEN p.subs[n] ELSE <<p.base[n]>>])
    \o (IF p.zref_mode = "probe" THEN <<o.zero>> ELSE <<>>)

ZrefMode(o, c, r) ==
  IF o.zero = None \/ "manual" \in DOMAIN r THEN "disabled"
  ELSE IF Within(o.zero, c.min, c.max) THEN "in_mesh" ELSE "probe"

\* generate_points with the configuration c.  It may raise an error before it
\* changes anything, or before the helper is told of the new path.
GeneratePoints(o, c, r) ==
  LET base == BasePoints(c)
      subs == Substitutes(o, c, base)
      bad  == {n \in DOMAIN subs : subs[n] = <<>>}
      new  == [base |-> base, subs |-> subs, zref_mode |-> ZrefMode(o, c, r)]
  IN IF TooClose(c) THEN [end |-> "unchanged"]
     ELSE IF /\ new.zref_mode = "probe"
             /\ \E f \in o.faulty : Within(o.zero, f.min, f.max)
     THEN [end |-> "no path", points |-> [new EXCEPT !.subs = <<>>]]
     ELSE IF bad # {}
     THEN [end |-> "no path", points |-> [new EXCEPT !.subs =
             [n \in {m \in DOMAIN subs : m < Min(bad)} |-> subs[n]]]]
     ELSE [end |-> "done", points |-> new, path |-> StdPath(o, new)]

-----------------------------------------------------------------------------
(* The mesh.                                                               *)

\* _calc_lagrange, in units of the distance between mesh points
Lagrange(vals, mult, k) ==
  LET n == Len(vals)
      Others(i) == (1..n) \ {i}
      N(i) == ProductSet({k - (j - 1) * mult : j \in Others(i)})
      D(i) == ProductSet({(i - j) * mult : j \in Others(i)})
      all  == ProductSet({j * mult : j \in 1..(n - 1)})
  IN FoldLeft(+, 0, [i \in 1..n |-> vals[i] * N(i) * (all \div D(i))]) \div all

\* Mutant: the last interval takes its points like the ones before it.
LastInterval_Shifted(vals, i) == vals[Largest(1, i - 2)]

\* p3 at the border is p2
LastInterval(vals, i) == vals[i]

\* _get_x_ctl_pts, _get_y_ctl_pts and _cardinal_spline; tension in tenths
Spline(vals, mult, k, tension) ==
  LET i  == k \div mult + 1   t == k % mult
      n  == Len(vals)
      p0 == IF i = 1 THEN vals[1] ELSE vals[i - 1]
      p1 == vals[i]
      p2 == vals[i + 1]
      p3 == IF i + 1 = n THEN LastInterval(vals, n) ELSE vals[i + 2]
      t2 == t * t * mult   t3 == t * t * t   one == mult * mult * mult
  IN ( 10 * (p1 * (2 * t3 - 3 * t2 + one) + p2 * (3 * t2 - 2 * t3))
       + tension * ( (p2 - p0) * (t3 - 2 * t2 + t * mult * mult)
                     + (p3 - p1) * (t3 - t2) ) ) \div (10 * one)

\* A row or column of values with mult - 1 of them filled in after each
Filled(vals, mult, algo, tension) ==
  Listed([k \in 1..((Len(vals) - 1) * mult + 1) |->
            IF (k - 1) % mult = 0 THEN vals[(k - 1) \div mult + 1]
            ELSE IF algo = "lagrange" THEN Lagrange(vals, mult, k - 1)
            ELSE Spline(vals, mult, k - 1, tension)])

\* build_mesh: rows first, then columns
Sampled(z, pps, algo, tension) ==
  IF algo = "direct" THEN z
  ELSE LET rows == Listed([y \in DOMAIN z |->
                             Filled(z[y], pps[1] + 1, algo, tension)])
           col  == Listed([x \in DOMAIN rows[1] |->
                             Filled([y \in DOMAIN rows |-> rows[y][x]],
                                    pps[2] + 1, algo, tension)])
       IN Listed([y \in DOMAIN col[1] |->
                    Listed([x \in DOMAIN col |-> col[x][y]])])

\* _get_linear_index: the cell of a coordinate and how far into it, times span
Cell(coord, lo, hi, n) ==
  LET at == (coord - lo) * (n - 1)
      idx == Constrain(at \div (hi - lo), 0, n - 2)
  IN [idx |-> idx + 1, t |-> Constrain(at - idx * (hi - lo), 0, hi - lo)]

Lerp(t, span, a, b) == ((span - t) * a + t * b) \div span

CalcZ(m, x, y) ==
  LET w == m.max[1] - m.min[1]  h == m.max[2] - m.min[2]
      cx == Cell(x + m.off[1], m.min[1], m.max[1], Len(m.matrix[1]))
      cy == Cell(y + m.off[2], m.min[2], m.max[2], Len(m.matrix))
      Row(r) == Lerp(cx.t, w, m.matrix[r][cx.idx], m.matrix[r][cx.idx + 1])
  IN Lerp(cy.t, h, Row(cy.idx), Row(cy.idx + 1))

Values(m) == UNION {ToSet(m.matrix[y]) : y \in DOMAIN m.matrix}
Lower(matrix, d) ==
  Listed([y \in DOMAIN matrix |->
            Listed([x \in DOMAIN matrix[y] |-> matrix[y][x] - d])])

\* set_zero_reference; with `direct' both matrices are one object
SetZeroReference(m, p) ==
  LET d == CalcZ(m, p[1], p[2]) * (IF m.algo = "direct" THEN 2 ELSE 1)
  IN [m EXCEPT !.matrix = Lower(@, d), !.probed = Lower(@, d)]

-----------------------------------------------------------------------------
(* probe_finalize.                                                         *)

Slice(s, first, last) == SubSeq(s, first, Least(last, Len(s)))

Average(s, n) == FoldLeft(LAMBDA sum, q : sum + q[3], 0, s) \div n

\* Mutant: samples that were added are not counted.
IndexOffset_Lost(old, subs) == old

\* idx_offset += len(pts) - 1
IndexOffset(old, subs) == old + Len(subs) - 1

\* The positions with one for each base point.
Corrected(p, positions) ==
  LET Step(acc, n) ==
        LET idx == n + acc.offset
            len == Len(p.subs[n])
        IN [done |-> acc.done \o Slice(positions, acc.start, idx - 1)
                       \o << <<p.base[n][1], p.base[n][2],
                               Average(Slice(positions, idx, idx + len - 1), len)>> >>,
            offset |-> IndexOffset(acc.offset, p.subs[n]),
            start |-> idx + len]
      end == FoldLeft(Step, [done |-> <<>>, offset |-> 0, start |-> 1],
                      SetToSortSeq(DOMAIN p.subs, <))
  IN end.done \o Slice(positions, end.start, Len(positions))

\* probed_matrix: a row for each y, turned to begin on the left
Rows(p, heights) ==
  LET Step(acc, n) ==
        LET pos == p.base[n]  prev == p.base[Largest(1, n - 1)]
            next == (pos[2] - prev[2]) * 10 > Mm
            row == IF next THEN <<>> ELSE acc.row
        IN [rows |-> IF next THEN Append(acc.rows, acc.row) ELSE acc.rows,
            row |-> IF pos[1] > prev[1] THEN Append(row, heights[n])
                    ELSE <<heights[n]>> \o row]
      after[n \in 0..Len(heights)] ==
        IF n = 0 THEN [rows |-> <<>>, row |-> <<>>] ELSE Step(after[n - 1], n)
      end == after[Len(heights)]
  IN Append(end.rows, end.row)

\* round bed, extrapolate probed values to create a square mesh
Padded(row, cnt) ==
  LET more == (cnt - Len(row)) \div 2
  IN [i \in 1..more |-> row[1]] \o row \o [i \in 1..more |-> row[Len(row)]]

NoMesh == [failed |-> TRUE]

\* The heights of these positions by rows, or <<>> if some are missing;
\* z_offset as well as the positions include the height of the probe.
ProbedRows(o, c, p, offset, results) ==
  LET refz == IF p.zref_mode = "probe" THEN Last(results)[3] ELSE offset
      pos  == Corrected(p, IF p.zref_mode = "probe" THEN Front(results) ELSE results)
      raw  == Rows(p, Listed([n \in DOMAIN pos |-> pos[n][3] - refz]))
      odd  == \A y \in DOMAIN raw : Len(raw[y]) % 2 = 1
  IN IF Len(p.base) # Len(pos) \/ (c.radius # 0 /\ ~odd) THEN <<>>
     ELSE IF c.radius = 0 THEN raw
     ELSE Listed([y \in DOMAIN raw |-> Padded(raw[y], c.cnt[1])])

\* The mesh of these rows
ProbeFinalize(o, c, p, rows, name) ==
  LET xs   == {p.base[n][1] : n \in DOMAIN p.base}
      ys   == {p.base[n][2] : n \in DOMAIN p.base}
      mesh == [failed |-> FALSE, name |-> name, algo |-> c.algo, pps |-> c.pps,
               cnt |-> c.cnt, min |-> <<Min(xs), Min(ys)>>,
               max |-> <<Max(xs), Max(ys)>>, off |-> <<0, 0>>, probed |-> rows,
               matrix |-> Sampled(rows, c.pps, c.algo, o.tension),
               from |-> [radius |-> c.radius, zref_mode |-> p.zref_mode,
                         sure |-> TRUE]]
  IN IF Len(rows) # c.cnt[2] \/ \E y \in DOMAIN rows : Len(rows[y]) # c.cnt[1]
     THEN NoMesh
     ELSE IF p.zref_mode = "in_mesh" THEN SetZeroReference(mesh, o.zero)
     ELSE mesh

-----------------------------------------------------------------------------
(* The transform.                                                          *)

\* get_z_factor: what is added to a height that g-code wants
Added(o, m, target, zoff, p) ==
  LET mz == CalcZ(m, p[1], p[2])  z == p[3] + zoff
      dist == o.fade_end - o.fade_start
  IN IF o.fade_end = 0 \/ z < o.fade_start THEN mz
     ELSE IF z >= o.fade_end THEN target
     ELSE ((o.fade_end - z) * (mz - target)) \div dist + target

\* Mutant: the factor of the toolhead's height is taken as that of g-code.
Divisor_Plain(dist, adj) == dist

\* use algebra to calculate the factor from the toolhead pos
Divisor(dist, adj) == dist - adj

\* get_position: what is taken off the toolhead's height
TakenOff(o, m, target, zoff, t) ==
  LET mz == CalcZ(m, t[1], t[2])  z == t[3] + zoff
      adj == mz - target
      div == Divisor(o.fade_end - o.fade_start, adj)
  IN IF o.fade_end = 0 \/ Largest(z, z - mz) < o.fade_start THEN mz
     ELSE IF Least(z, z - mz) >= o.fade_end THEN target
     ELSE (Constrain(o.fade_end + target - z, 0, div) * adj) \div div + target

GetPosition(m, target, zoff, t) ==
  [t EXCEPT ![3] = @ - (IF m = NoMesh THEN target
                        ELSE TakenOff(setup, m, target, zoff, t))]

FadeFits(m) ==
  LET dist == setup.fade_end - setup.fade_start
  IN \/ setup.fade_end = 0
     \/ /\ \/ setup.fade_target = 0
           \/ Min(Values(m)) <= setup.fade_target /\ setup.fade_target <= Max(Values(m))
        /\ \A v \in Values(m) : -dist < v /\ v < dist

StatusOf(m, profs) == [mesh |-> m, profiles |-> DOMAIN profs]

\* set_mesh(m) with the head at t and these profiles: if the fading does not
\* fit, the mesh is gone and an error raised before anyone is told.
SetMesh(m, t, profs) ==
  LET target == IF m = NoMesh \/ setup.fade_end = 0 THEN 0 ELSE setup.fade_target
  IN
  /\ profiles' = profs /\ tool' = t
  /\ IF m # NoMesh /\ ~FadeFits(m)
     THEN /\ z_mesh' = NoMesh /\ fade_target' = 0
          /\ unread' = (unread \/ z_mesh # NoMesh)
          /\ UNCHANGED <<tool_offset, last_position, status>>
     ELSE /\ z_mesh' = m /\ fade_target' = target /\ tool_offset' = 0
          /\ last_position' = GetPosition(m, target, 0, t)
          /\ status' = StatusOf(m, profs) /\ unread' = FALSE

-----------------------------------------------------------------------------
(* Commands.                                                               *)

\* Where the tool is when the probe is at p, and what is measured there.
Above(p, off) == <<p[1] - off[1], p[2] - off[2], setup.fade_start>>
Probed(p, off) ==
  <<p[1] - off[1], p[2] - off[2], Height(p[1], p[2]) + off[3]>>

\* update_config: the configuration and what becomes of the points.  It is
\* verified only if a parameter was given.
UpdateConfig(o, r) ==
  LET c == ConfigFor(o, r)
      algo == IF DOMAIN r \subseteq {"manual"} THEN c.algo ELSE VerifyAlgorithm(c)
      verified == [c EXCEPT !.algo = algo]
  IN [setup |-> o, request |-> r,
      config |-> IF algo = Rejected THEN c ELSE verified,
      made |-> IF algo = Rejected THEN [end |-> "unchanged"]
               ELSE GeneratePoints(o, verified, r),
      byhand |-> "manual" \in DOMAIN r,
      adaptive |-> "objects" \in DOMAIN r /\ o.radius = 0]

\* The rows found if every point is probed
RowsFor(u) ==
  IF u.made.end # "done" THEN <<>>
  ELSE ProbedRows(u.setup, u.config, u.made.points, ProbeOffset[3],
                  Listed([n \in DOMAIN u.made.path |->
                            Probed(u.made.path[n], ProbeOffset)]))

\* What each request comes to.
Updates ==
  {[u |-> v.u, rows |-> v.rows,
    mesh |-> IF v.rows = <<>> THEN NoMesh
             ELSE ProbeFinalize(v.u.setup, v.u.config, v.u.made.points, v.rows, Unnamed)] :
     v \in {[u |-> u, rows |-> RowsFor(u)] :
              u \in {UpdateConfig(o, r) : o \in Setups, r \in Requests}}}

NoManual == [on |-> FALSE, at |-> None, results |-> <<>>, sure |-> TRUE]

BedMeshInit ==
  /\ setup \in Setups
  /\ LET c == ConfigFor(setup, <<>>)
         verified == [c EXCEPT !.algo = VerifyAlgorithm(c)]
         made == GeneratePoints(setup, verified, <<>>)
     IN /\ verified.algo # Rejected /\ made.end = "done"
        /\ mesh_config = verified
        /\ points = made.points /\ probe_points = made.path
  /\ profile_name = "default" /\ z_mesh = NoMesh
  /\ fade_target = 0 /\ tool_offset = 0 /\ profiles = <<>>
  /\ status = StatusOf(NoMesh, <<>>) /\ manual = NoManual
  /\ tool = <<0, 0, 0>> /\ last_position = <<0, 0, 0>>
  /\ unread = FALSE /\ commands = 0

Counted ==
  commands < MaxMeshCommands /\ commands' = commands + 1 /\ UNCHANGED setup

\* save_profile
Saved(m, name) ==
  [n \in DOMAIN profiles \cup {name} |-> IF n = name THEN m ELSE profiles[n]]

\* The configuration and the points change as u says.
Updated(u) ==
  /\ u.setup = setup /\ mesh_config' = u.config
  /\ points' = IF u.made.end = "unchanged" THEN points ELSE u.made.points
  /\ probe_points' = IF u.made.end = "done" THEN u.made.path ELSE probe_points

\* BED_MESH_CALIBRATE: by the probe, which may fail anywhere, or by hand.
Calibrate(u, mesh, name) ==
  LET profile == IF u.adaptive THEN Unnamed ELSE name
      path == u.made.path
      fits == mesh # NoMesh /\ FadeFits(mesh)
      m == [mesh EXCEPT !.name = profile]
  IN
  /\ Counted
  /\ Updated(u) /\ profile_name' = profile
  /\ IF u.made.end # "done" \/ manual.on
     THEN SetMesh(NoMesh, tool, profiles) /\ manual' = [manual EXCEPT !.sure = FALSE]
     ELSE IF u.byhand
     THEN /\ SetMesh(NoMesh, Above(path[1], <<0, 0>>), profiles)
          /\ manual' = [NoManual EXCEPT !.on = TRUE, !.at = path[1]]
     ELSE /\ UNCHANGED manual
          /\ \/ SetMesh(NoMesh, Above(path[1], ProbeOffset), profiles)
             \/ SetMesh(IF fits THEN m ELSE NoMesh, Above(path[Len(path)], ProbeOffset),
                        IF fits /\ profile # Unnamed THEN Saved(m, profile)
                        ELSE profiles)

\* The head has moved past the mesh.
HeadAt(t) ==
  /\ tool' = t
  /\ last_position' = GetPosition(z_mesh, fade_target, tool_offset, t)
  /\ unread' = FALSE
  /\ UNCHANGED <<z_mesh, fade_target, tool_offset, profiles, status>>

\* ACCEPT: _manual_probe_finalize and _manual_probe_start; the points are read
\* again each time.
ManualAccept ==
  LET results == Append(manual.results, Probed(manual.at, <<0, 0, 0>>))
      path == probe_points
      up == Above(manual.at, <<0, 0>>)
  IN
  /\ manual.on /\ <<tool[1], tool[2]>> = manual.at
  /\ IF Len(results) < Len(path)
     THEN /\ manual' = [manual EXCEPT !.results = results, !.at = path[Len(results) + 1]]
          /\ HeadAt(Above(path[Len(results) + 1], <<0, 0>>))
     ELSE /\ manual' = NoManual
          /\ \E rows \in {ProbedRows(setup, mesh_config, points, 0, results)} :
             \E m \in {ProbeFinalize(setup, mesh_config, points, rows, profile_name)} :
               IF m = NoMesh THEN HeadAt(up)
               ELSE SetMesh([m EXCEPT !.from.sure = manual.sure], up,
                            IF FadeFits(m) /\ profile_name # Unnamed
                            THEN Saved([m EXCEPT !.from.sure = manual.sure], profile_name)
                            ELSE profiles)
  /\ UNCHANGED <<setup, mesh_config, points, probe_points, profile_name,
                 commands>>

\* ABORT, or ACCEPT after the head was moved away
ManualAbort ==
  /\ Counted
  /\ manual.on /\ manual' = NoManual
  /\ UNCHANGED <<mesh_config, points, probe_points, profile_name, z_mesh,
                 fade_target, tool_offset, status, profiles, tool,
                 last_position, unread>>

\* The request bed_mesh/dump_mesh of a client, with parameters
DumpMesh(u) ==
  /\ Counted /\ u.request # <<>> /\ Updated(u)
  /\ profile_name' = IF u.adaptive THEN Unnamed ELSE profile_name
  /\ manual' = [manual EXCEPT !.sure = FALSE]
  /\ UNCHANGED <<z_mesh, fade_target, tool_offset, status, profiles, tool,
                 last_position, unread>>

OwnMesh == UNCHANGED <<mesh_config, points, probe_points, profile_name, manual>>

Clear == Counted /\ SetMesh(NoMesh, tool, profiles) /\ OwnMesh

Offsets(d, zoff) ==
  /\ Counted /\ z_mesh # NoMesh /\ OwnMesh
  /\ z_mesh' = [z_mesh EXCEPT !.off = d] /\ tool_offset' = zoff
  /\ last_position' = GetPosition(z_mesh', fade_target, zoff, tool)
  /\ unread' = FALSE
  /\ UNCHANGED <<fade_target, status, profiles, tool>>

LoadProfile(n) ==
  /\ Counted /\ n \in DOMAIN profiles /\ OwnMesh
  /\ LET m == profiles[n]
     IN SetMesh([m EXCEPT !.name = n, !.off = <<0, 0>>,
                   !.matrix = Sampled(m.probed, m.pps, m.algo, setup.tension)],
                tool, profiles)

SaveProfile(n) ==
  /\ Counted /\ z_mesh # NoMesh /\ n # "default" /\ OwnMesh
  /\ profiles' = Saved(z_mesh, n) /\ status' = StatusOf(z_mesh, profiles')
  /\ UNCHANGED <<z_mesh, fade_target, tool_offset, tool, last_position, unread>>

RemoveProfile(n) ==
  /\ Counted /\ n \in DOMAIN profiles /\ OwnMesh
  /\ profiles' = [x \in DOMAIN profiles \ {n} |-> profiles[x]]
  /\ status' = StatusOf(z_mesh, profiles')
  /\ UNCHANGED <<z_mesh, fade_target, tool_offset, tool, last_position, unread>>

\* move: only its end; the points the splitter adds lie before it.
Move(p) ==
  /\ Counted /\ OwnMesh
  /\ tool' = [p EXCEPT ![3] = @ + (IF z_mesh = NoMesh THEN fade_target
                 ELSE Added(setup, z_mesh, fade_target, tool_offset, p))]
  /\ last_position' = p /\ unread' = FALSE
  /\ UNCHANGED <<z_mesh, fade_target, tool_offset, status, profiles>>

BedMeshNext ==
  \/ \E v \in Updates : DumpMesh(v.u) \/ \E n \in Names : Calibrate(v.u, v.mesh, n)
  \/ ManualAccept
  \/ ManualAbort
  \/ Clear
  \/ \E d \in {0, Mm}, zoff \in {0, setup.fade_start} : Offsets(<<d, 0>>, zoff)
  \/ \E n \in Names : LoadProfile(n) \/ SaveProfile(n) \/ RemoveProfile(n)
  \/ \E p \in Targets : Move(p)

BedMeshSpec == BedMeshInit /\ [][BedMeshNext]_bedMeshVars

-----------------------------------------------------------------------------
(* Properties.                                                             *)

\* What the probe should have found for the mesh's point at column x and row y:
\* the height there, nearest in the row for corners of round beds, the average
\* over the border of a faulty region.
Wanted(m, x, y) ==
  LET at == << m.min[1] + ((m.max[1] - m.min[1]) * (x - 1)) \div (m.cnt[1] - 1),
               m.min[2] + ((m.max[2] - m.min[2]) * (y - 1)) \div (m.cnt[2] - 1) >>
      r == m.from.radius
      InRow == {n \in 1..m.cnt[1] :
                  LET px == m.min[1] + ((m.max[1] - m.min[1]) * (n - 1)) \div (m.cnt[1] - 1)
                  IN r = 0 \/ px * px + at[2] * at[2] <= r * r}
      col == Constrain(x, Min(InRow), Max(InRow))
      p == << m.min[1] + ((m.max[1] - m.min[1]) * (col - 1)) \div (m.cnt[1] - 1), at[2] >>
      regions == {f \in setup.faulty : Within(p, f.min, f.max)}
      Border(f) == {q \in {<<f.min[1], p[2]>>, <<f.max[1], p[2]>>,
                           <<p[1], f.min[2]>>, <<p[1], f.max[2]>>} :
                     IF r = 0 THEN Within(q, m.min, m.max)
                     ELSE q[1] * q[1] + q[2] * q[2] <= r * r}
  IN IF regions = {} THEN Height(p[1], p[2])
     ELSE LET b == Border(CHOOSE f \in regions : TRUE)
          IN MapThenSumSet(LAMBDA q : Height(q[1], q[2]), b) \div Cardinality(b)

\* The mesh in use has at every probed point what the bed has there, relative
\* to the reference that was asked for, whatever the order of the points and
\* however it was made, saved and loaded; unless the points were generated
\* again during a calibration by hand, and unless `direct' meshes took a
\* reference inside of them (bed_mesh.py:650-777).
MeshTrue ==
  (z_mesh # NoMesh /\ z_mesh.from.sure /\ ~(z_mesh.algo = "direct" /\
                                             z_mesh.from.zref_mode = "in_mesh")) =>
    LET m == z_mesh
        At(x, y) == m.matrix[(y - 1) * (IF m.algo = "direct" THEN 1 ELSE m.pps[2] + 1) + 1]
                            [(x - 1) * (IF m.algo = "direct" THEN 1 ELSE m.pps[1] + 1) + 1]
        zero == CASE m.from.zref_mode = "disabled" -> 0
                  [] m.from.zref_mode = "probe" -> Height(setup.zero[1], setup.zero[2])
                  [] m.from.zref_mode = "in_mesh" -> Wanted(m, 1, 1) - At(1, 1)
    IN /\ \A x \in 1..m.cnt[1], y \in 1..m.cnt[2] : At(x, y) = Wanted(m, x, y) - zero
       /\ (m.from.zref_mode = "in_mesh" /\ m.off = <<0, 0>>) =>
            CalcZ(m, setup.zero[1], setup.zero[2]) = 0

\* Between the points of a plane, rows and columns do not mix and no side of
\* the bed is treated like another (bed_mesh.py:1478-1605).
InterpolationSound ==
  (z_mesh # NoMesh /\ z_mesh.from.sure /\ z_mesh.from.radius = 0 /\ setup.faulty = {}) =>
    LET z == z_mesh.matrix  nx == Len(z[1])  ny == Len(z)
    IN \A x \in 1..nx, y \in 1..ny :
         /\ z[y][x] + z[ny + 1 - y][nx + 1 - x] = z[1][1] + z[ny][nx]
         /\ z[y][x] - z[1][x] = z[y][1] - z[1][1]
         /\ z_mesh.algo = "lagrange" =>
              (z[y][x] - z[1][1]) * (nx - 1) * (ny - 1) =
                (z[1][nx] - z[1][1]) * (x - 1) * (ny - 1)
                + (z[ny][1] - z[1][1]) * (y - 1) * (nx - 1)

\* Where g-code thinks the nozzle is, is where reading the toolhead's position
\* puts it, in, below and above the fading (bed_mesh.py:182-238).
PositionRead ==
  (~unread /\ setup.fade_target = 0) =>
    last_position = GetPosition(z_mesh, fade_target, tool_offset, tool)

\* What clients are shown is what moves the head (bed_mesh.py:240-260).
StatusCurrent ==
  ~unread => /\ status.profiles = DOMAIN profiles
             /\ (status.mesh = NoMesh) = (z_mesh = NoMesh)
             /\ z_mesh # NoMesh => status.mesh.matrix = z_mesh.matrix

BedMeshSound == MeshTrue /\ InterpolationSound /\ PositionRead /\ StatusCurrent
=============================================================================
