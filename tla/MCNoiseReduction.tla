-------------------------- MODULE MCNoiseReduction --------------------------
EXTENDS NoiseReduction

\* Silence, the peaks, and samples between.
MCSamples == {-Peak, -1, 0, Peak \div 2, Peak}
=============================================================================
