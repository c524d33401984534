-------------------------- MODULE Yolov4CfgWriter --------------------------
(***************************************************************************)
(* Yolov4CfgWriter: the text of cfg/yolov4-obj.cfg, a section at a time,   *)
(* and what darknet makes of it: it lays the network out in the order of   *)
(* the sections and finds the sources of a layer by their numbers.         *)
(*                                                                         *)
(* A layer is a section but the first.  Layers are counted from 0, as in   *)
(* darknet and in the writer's own counter: layer k is net[k + 1].         *)
(***************************************************************************)
EXTENDS Integers, Sequences, SequencesExt, FiniteSetsExt

CONSTANTS
  ClassCounts,   \* the class counts of the projects
  ImageCounts    \* the counts of the images put into the training list

ASSUME CountsAssumption == ClassCounts \subseteq Nat /\ ImageCounts \subseteq Nat

VARIABLES
  classes,   \* of this project
  images,
  net,       \* the layers written so far
  shapes     \* the shapes darknet gives their outputs

-----------------------------------------------------------------------------
(* The sections *)

conv(filters, size, stride) ==
  [type |-> "convolutional", filters |-> filters, size |-> size,
   stride |-> stride, from |-> <<-1>>]
route(layersList)  == [type |-> "route", from |-> layersList]
shortcut           == [type |-> "shortcut", from |-> <<-1, -3>>]
maxpool(size)      == [type |-> "maxpool", size |-> size, from |-> <<-1>>]
upsample           == [type |-> "upsample", from |-> <<-1>>]
yolo(mask, count)  == [type |-> "yolo", mask |-> mask, classes |-> count,
                       from |-> <<-1>>]

\* Mutant: the least count of iterations is left out.
iterations_unbounded(count, exported) == Max({count * 2000, exported})

iterations(count, exported) == Max({6000, count * 2000, exported})

\* The schedule of the training: the learning rate rises up to burn_in and
\* falls at each of the steps.
net_section(count, exported) ==
  LET max_batches == iterations(count, exported)
  IN  [burn_in |-> 1000, max_batches |-> max_batches,
       steps |-> <<(max_batches * 80) \div 100, (max_batches * 90) \div 100>>]

yolo_filters(count) == (count + 5) * 3

-----------------------------------------------------------------------------
(* The network *)

\* Mutant: the route misses the half of the stage that skips the blocks.
csp_stage_off_by_one(filters, hidden, middle, blocks) ==
  <<conv(filters, 3, 2), conv(hidden, 1, 1), route(<<-2>>), conv(hidden, 1, 1)>>
    \o FlattenSeq([b \in 1..blocks |->
         <<conv(middle, 1, 1), conv(hidden, 3, 1), shortcut>>])
    \o <<conv(hidden, 1, 1), route(<<-1, -(blocks * 3 + 2)>>), conv(filters, 1, 1)>>

csp_stage(filters, hidden, middle, blocks) ==
  <<conv(filters, 3, 2), conv(hidden, 1, 1), route(<<-2>>), conv(hidden, 1, 1)>>
    \o FlattenSeq([b \in 1..blocks |->
         <<conv(middle, 1, 1), conv(hidden, 3, 1), shortcut>>])
    \o <<conv(hidden, 1, 1), route(<<-1, -(blocks * 3 + 4)>>), conv(filters, 1, 1)>>

UpToStride8  == <<conv(32, 3, 1)>> \o csp_stage(64, 64, 32, 1)
                  \o csp_stage(128, 64, 64, 2) \o csp_stage(256, 128, 128, 8)
UpToStride16 == UpToStride8 \o csp_stage(512, 256, 256, 8)
backbone     == UpToStride16 \o csp_stage(1024, 512, 512, 4)

\* Mutant: what is returned is the count of the layers, not the last one.
merges_off_by_one == <<Len(UpToStride16), Len(UpToStride8)>>

\* What csp_stage returns of the two stages, the counter less one.
merges == <<Len(UpToStride16) - 1, Len(UpToStride8) - 1>>

spp == <<maxpool(5), route(<<-2>>), maxpool(9), route(<<-4>>), maxpool(13),
         route(<<-1, -3, -5, -6>>)>>

upsample_merge(filters, backboneLayer) ==
  <<conv(filters, 1, 1), upsample, route(<<backboneLayer>>),
    conv(filters, 1, 1), route(<<-1, -3>>)>>

conv_set(filters) ==
  <<conv(filters, 1, 1), conv(filters * 2, 3, 1), conv(filters, 1, 1),
    conv(filters * 2, 3, 1), conv(filters, 1, 1)>>

neck ==
  <<conv(512, 1, 1), conv(1024, 3, 1), conv(512, 1, 1)>> \o spp
    \o <<conv(512, 1, 1), conv(1024, 3, 1), conv(512, 1, 1)>>
    \o upsample_merge(256, merges[1]) \o conv_set(256)
    \o upsample_merge(128, merges[2]) \o conv_set(128)

head(filters, mask, count) ==
  <<conv(filters * 2, 3, 1), conv(yolo_filters(count), 1, 1), yolo(mask, count)>>

heads(count) ==
  head(128, {0, 1, 2}, count)
    \o <<route(<<-4>>), conv(256, 3, 2), route(<<-1, -16>>)>>
    \o conv_set(256) \o head(256, {3, 4, 5}, count)
    \o <<route(<<-4>>), conv(512, 3, 2), route(<<-1, -37>>)>>
    \o conv_set(512) \o head(512, {6, 7, 8}, count)

Network(count) == backbone \o neck \o heads(count)

-----------------------------------------------------------------------------
(* The layers as darknet reads them *)

\* The numbers of the layers a layer of number k takes its input from.
Sources(layer, k) ==
  [i \in DOMAIN layer.from |->
     IF layer.from[i] < 0 THEN k + layer.from[i] ELSE layer.from[i]]

Input == [side |-> 832, channels |-> 3]

\* The channels of the layers a route joins.
Total(channels) == FoldSeq(LAMBDA a, b : a + b, 0, channels)

\* The shape of the next layer's output.
Shape(layer) ==
  LET k    == Len(shapes)
      in   == IF k = 0 THEN Input ELSE shapes[Sources(layer, k)[1] + 1]
      many == [i \in DOMAIN layer.from |-> shapes[Sources(layer, k)[i] + 1].channels]
  IN  CASE layer.type = "convolutional" ->
             [side |-> in.side \div layer.stride, channels |-> layer.filters]
        [] layer.type = "route" ->
             [in EXCEPT !.channels = Total(many)]
        [] layer.type = "upsample" -> [in EXCEPT !.side = 2 * @]
        [] OTHER -> in

StartNetwork ==
  /\ classes \in ClassCounts
  /\ images \in ImageCounts
  /\ net = << >>
  /\ shapes = << >>

\* section: every section but [net] is written through it and counted.
section ==
  /\ Len(net) < Len(Network(classes))
  /\ LET layer == Network(classes)[Len(net) + 1]
     IN  net' = Append(net, layer) /\ shapes' = Append(shapes, Shape(layer))
  /\ UNCHANGED <<classes, images>>

-----------------------------------------------------------------------------
(* Properties *)

Layers == DOMAIN net
From(n) == Sources(net[n], n - 1)

\* The layers a route joins are earlier layers of one resolution, the ones a
\* shortcut adds are of one shape: the offsets step over the right number of
\* sections, and the two numbers csp_stage returns are those of the stages the
\* neck comes back to.
ShapesAgree ==
  \A n \in Layers \ {1} : \A i \in DOMAIN From(n) :
    /\ From(n)[i] \in 0..(n - 2)
    /\ LET here == shapes[From(n)[1] + 1]
           there == shapes[From(n)[i] + 1]
       IN  /\ here.side = there.side
           /\ net[n].type = "shortcut" => here.channels = there.channels

Written == Len(net) = Len(Network(classes))

\* In the whole network no output is left unused but those of the detectors:
\* the half of a stage that skips its blocks comes back into it.
EveryLayerFeeds ==
  Written => \A k \in 0..(Len(net) - 1) :
    net[k + 1].type = "yolo" \/
      \E n \in Layers : \E i \in DOMAIN From(n) : n > 1 /\ From(n)[i] = k

\* The detectors come at the strides 8, 16 and 32, each with its third of the
\* anchors, and each gets the channels its boxes need.
DetectorsFit ==
  Written =>
    LET detectors == FlattenSeq([n \in Layers |->
                       IF net[n].type = "yolo" THEN <<n>> ELSE << >>])
    IN  /\ Len(detectors) = 3
        /\ \A d \in 1..3 :
             /\ shapes[detectors[d]].side = 832 \div <<8, 16, 32>>[d]
             /\ net[detectors[d]].mask = {3 * d - 3, 3 * d - 2, 3 * d - 1}
             /\ shapes[detectors[d]].channels = 3 * (4 + 1 + classes)

\* The network as a whole: every number of a layer is that of the layer meant,
\* nothing is computed in vain, and the three detectors fit.
NetworkIsWhole == ShapesAgree /\ EveryLayerFeeds /\ DetectorsFit

\* However few classes and images there are, the learning rate has risen
\* before it falls, falls twice and is left some iterations after that, and
\* the training is given the 2000 iterations per class and the iteration per
\* image of the header comment.
ScheduleHolds ==
  LET plan == net_section(classes, images)
  IN  /\ plan.burn_in < plan.steps[1]
      /\ plan.steps[1] < plan.steps[2] /\ plan.steps[2] < plan.max_batches
      /\ plan.max_batches >= 2000 * classes /\ plan.max_batches >= images

\* The cfg of a project is one darknet can train with, of whatever classes and
\* images: its network is whole and its schedule holds.
CfgIsSound == NetworkIsWhole /\ ScheduleHolds
=============================================================================
